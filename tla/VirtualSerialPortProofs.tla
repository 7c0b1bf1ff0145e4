----------------------- MODULE VirtualSerialPortProofs ------------------------
(***************************************************************************)
(* Proofs about the running driver, for any sets of threads, any capacity, *)
(* any arguments of the calls and every OpenMode: nothing is assumed about *)
(* how the calls overlap.                                                  *)
(***************************************************************************)
EXTENDS VirtualSerialPort, TLAPS

-------------------------------------------------------------------------------
(* The bits of the state word.                                             *)

LEMMA Bits ==
  /\ {"ACQUIRED"} \cup DEFAULT_STATE \subseteq STATE_ALL
  /\ "ACTIVE" \in STATE_ALL /\ "ACQUIRED" \in STATE_ALL
  /\ "BRK" \in STATE_ALL /\ "CTS" \in STATE_ALL
  /\ "CAR" \in STATE_ALL /\ "DSR" \in STATE_ALL
  /\ DEFAULT_AUTO \subseteq STATE_ALL
  /\ EXTERNAL_MASK \subseteq STATE_ALL
  BY DEF STATE_ALL, EXTERNAL_MASK, PD_S_MASK, PD_RS232_S_MASK,
         PD_RS232_A_MASK, DEFAULT_STATE, DEFAULT_AUTO

LEMMA QueueBitsType ==
  ASSUME NEW inUse, NEW free
  PROVE  /\ QueueBits(RXQ, inUse, free) \subseteq STATE_ALL
         /\ QueueBits(TXQ, inUse, free) \subseteq STATE_ALL
<1>1. QueueBits(RXQ, inUse, free) \subseteq RXQ_MASK
  BY DEF QueueBits, RXQ_MASK
<1>2. QueueBits(TXQ, inUse, free) \subseteq TXQ_MASK
  BY DEF QueueBits, TXQ_MASK
<1>3. RXQ_MASK \cup TXQ_MASK \subseteq STATE_ALL
  BY DEF STATE_ALL, PD_S_MASK
<1> QED
  BY <1>1, <1>2, <1>3

-------------------------------------------------------------------------------
(* The queue keeps its type even when its reset interleaves with its use   *)
(* and its pointers and its count no longer agree.                         *)

LEMMA InitQueueType == InitQueue \in CirQueue
  BY QueueAssumption DEF InitQueue, CirQueue, UInt32, Offset

LEMMA ZeroedType ==
  ASSUME NEW q \in CirQueue
  PROVE  /\ [q EXCEPT !.NextChar = 0] \in CirQueue
         /\ [q EXCEPT !.LastChar = 0] \in CirQueue
         /\ [q EXCEPT !.InQueue = 0] \in CirQueue
<1>1. 0 \in Offset /\ 0 \in UInt32
  BY QueueAssumption DEF Offset, UInt32
<1> QED
  BY <1>1 DEF CirQueue

LEMMA AddByteType ==
  ASSUME NEW q \in CirQueue, NEW b \in Byte \cup {Garbage}
  PROVE  AddBytetoQueue(q, b) \in CirQueue
<1>1. /\ q.NextChar \in Offset
      /\ q.Size = kMaxCirBufferSize
      /\ q.InQueue \in UInt32
      /\ q.mem \in [Offset -> Byte \cup {Garbage}]
  BY DEF CirQueue
<1>2. Wrapped(q, q.NextChar + 1) \in Offset
  BY <1>1, QueueAssumption DEF Wrapped, Offset
<1>3. Increment32(q.InQueue) \in UInt32
  BY <1>1, QueueAssumption DEF Increment32, UInt32
<1>4. [q.mem EXCEPT ![q.NextChar] = b] \in [Offset -> Byte \cup {Garbage}]
  BY <1>1
<1> QED
  BY <1>2, <1>3, <1>4 DEF AddBytetoQueue, CirQueue

LEMMA GetByteType ==
  ASSUME NEW q \in CirQueue
  PROVE  /\ GetBytetoQueue(q) \in CirQueue
         /\ GotByte(q) \in Byte \cup {Garbage}
         /\ UsedSpaceinQueue(q) \in UInt32
<1>1. /\ q.LastChar \in Offset
      /\ q.Size = kMaxCirBufferSize
      /\ q.InQueue \in UInt32
      /\ q.mem \in [Offset -> Byte \cup {Garbage}]
  BY DEF CirQueue
<1>2. Wrapped(q, q.LastChar + 1) \in Offset
  BY <1>1, QueueAssumption DEF Wrapped, Offset
<1>3. Decrement32(q.InQueue) \in UInt32
  BY <1>1, QueueAssumption DEF Decrement32, UInt32
<1>4. GetBytetoQueue(q) \in CirQueue
  BY <1>2, <1>3 DEF GetBytetoQueue, CirQueue
<1> QED
  BY <1>1, <1>4 DEF GotByte, UsedSpaceinQueue

-------------------------------------------------------------------------------
(* Which steps a thread of each role can be at: testers and readers never  *)
(* open the port or watch it.                                              *)

CheckLabels == {"cq_state", "cq_used", "cq_free", "cq_delta", "write"}

RoleOK ==
  /\ \A t \in Testers :
       pc[t] \in {"idle", "send_lock", "send_add", "send_dsr"} \cup CheckLabels
  /\ \A r \in Readers : pc[r] \in {"idle", "deq_lock", "deq_get"} \cup CheckLabels

IInv == TypeOK /\ RoleOK /\ OneInRXSection

(* The parts of TypeOK an action that writes the state word disturbs.      *)
LEMMA WriteType ==
  ASSUME TypeOK, NEW state \in SUBSET STATE_ALL, NEW m, WritePortState(state, m)
  PROVE  /\ State' \subseteq STATE_ALL
         /\ WatchStateMask' \subseteq STATE_ALL
         /\ notified' \subseteq STATE_ALL
         /\ woken' \subseteq Threads
  BY DEF TypeOK, WritePortState, Blocked

LEMMA WatchedType ==
  ASSUME TypeOK, NEW t \in Threads
  PROVE  Watched(t) \subseteq STATE_ALL
  BY Bits DEF TypeOK, Watched

LEMMA LabelNames ==
  /\ {"idle", "ev_defaults", "ev_flow", "write", "cq_state", "cq_used",
      "cq_free", "cq_delta", "send_lock", "send_add", "send_dsr", "deq_lock",
      "deq_get"} \subseteq Labels
  /\ {"acq_read", "acq_set", "acq_defaults", "acq_next", "acq_last", "acq_inq",
      "acq_cts", "wat_check", "wat_enter", "wat_block", "rel_write",
      "rel_mask"} \subseteq Labels
  BY DEF Labels, Taking, Waiting, Giving

LEMMA ThreadRoles ==
  /\ Sessions \subseteq Threads /\ Readers \subseteq Threads
  /\ Watchers \subseteq Threads /\ Pollers \subseteq Threads
  /\ Testers \subseteq Threads
  BY DEF Threads

(* Starting a call changes only the caller's own variables and a session's *)
(* set of open sessions.                                                   *)
LEMMA CallType ==
  ASSUME TypeOK, NEW s \in Sessions, SessionCall(s)
  PROVE  TypeOK'
<1> USE LabelNames, ThreadRoles, Bits DEF TypeOK, Goto, portVars, queueVars, localVars, openVars
<1>1. ASSUME NEW sleep \in BOOLEAN, AcquirePort(s, sleep)
      PROVE  TypeOK'
  BY <1>1 DEF AcquirePort
<1>2. CASE ReleasePort(s)
  BY <1>2 DEF ReleasePort
<1>3. ASSUME NEW arg \in SetArgs, SetState(s, arg)
      PROVE  TypeOK'
  <2>1. arg.state \subseteq STATE_ALL /\ arg.mask \subseteq STATE_ALL
    BY PortAssumption
  <2> QED
    BY <1>3, <2>1 DEF SetState, Pend
<1>4. CASE Activate(s)
  BY <1>4 DEF Activate, Pend
<1>5. CASE Deactivate(s)
  BY <1>5 DEF Deactivate, Pend
<1>6. CASE LineBreak(s)
  BY <1>6 DEF LineBreak, Pend
<1>7. ASSUME NEW flow \in FlowArgs, SetFlowControl(s, flow)
      PROVE  TypeOK'
  <2>1. flow \subseteq STATE_ALL
    BY PortAssumption
  <2> QED
    BY <1>7, <2>1 DEF SetFlowControl, Pend
<1> QED
  BY <1>1, <1>2, <1>3, <1>4, <1>5, <1>6, <1>7 DEF SessionCall

LEMMA SessionStepType ==
  ASSUME TypeOK, NEW s \in Sessions, SessionStep(s)
  PROVE  TypeOK'
<1> USE LabelNames, ThreadRoles, Bits DEF TypeOK, Goto, portVars, queueVars, localVars, openVars
<1>1. CASE AcquireRead(s)
  <2>1. /\ UNCHANGED <<portVars, queueVars, localVars, opened, FlowControl,
                       marksSet, sends>>
        /\ \/ Goto(s, "acq_set") /\ UNCHANGED <<refs, sleeper>>
           \/ AcquireFails(s)
           \/ Goto(s, "wat_check") /\ UNCHANGED <<refs, sleeper>>
    BY <1>1 DEF AcquireRead
  <2>2. pc' \in [Threads -> Labels]
    BY <2>1 DEF AcquireFails
  <2>3. refs' \in Int /\ sleeper' \subseteq Sessions
    BY <2>1 DEF AcquireFails
  <2> QED
    BY <2>1, <2>2, <2>3
<1>2. CASE AcquireWatch(s)
  <2>1. /\ UNCHANGED <<portVars, queueVars, want, used, size, data, opened,
                       FlowControl, marksSet, sends>>
        /\ \/ /\ Goto(s, "wat_enter")
              /\ mask' = [mask EXCEPT ![s] = {"ACQUIRED"}]
              /\ UNCHANGED <<refs, sleeper>>
           \/ AcquireFails(s) /\ UNCHANGED mask
    BY <1>2 DEF AcquireWatch
  <2>2. pc' \in [Threads -> Labels]
    BY <2>1 DEF AcquireFails
  <2>3. refs' \in Int /\ sleeper' \subseteq Sessions
    BY <2>1 DEF AcquireFails
  <2>4. mask' \in [Threads -> SUBSET STATE_ALL]
    BY <2>1
  <2> QED
    BY <2>1, <2>2, <2>3, <2>4
<1>3. CASE AcquireSet(s)
  <2>1. WritePortState({"ACQUIRED"} \cup DEFAULT_STATE, STATE_ALL)
    BY <1>3 DEF AcquireSet
  <2>2. /\ State' \subseteq STATE_ALL
        /\ WatchStateMask' \subseteq STATE_ALL
        /\ notified' \subseteq STATE_ALL
        /\ woken' \subseteq Threads
    BY <2>1, WriteType
  <2> QED
    BY <1>3, <2>2 DEF AcquireSet
<1>4. CASE AcquireDefaults(s)
  BY <1>4 DEF AcquireDefaults, SetStructureDefaults
<1>5. CASE AcquireResetQueue(s)
  <2>1. RX \in CirQueue
    OBVIOUS
  <2>2. RX' \in CirQueue
    BY <1>5, <2>1, ZeroedType DEF AcquireResetQueue
  <2>3. pc' \in [Threads -> Labels]
    BY <1>5 DEF AcquireResetQueue
  <2> QED
    BY <1>5, <2>2, <2>3 DEF AcquireResetQueue
<1>6. CASE AcquireReturn(s)
  <2>1. WritePortState({"CTS"}, {"CTS"})
    BY <1>6 DEF AcquireReturn
  <2>2. /\ State' \subseteq STATE_ALL
        /\ WatchStateMask' \subseteq STATE_ALL
        /\ notified' \subseteq STATE_ALL
        /\ woken' \subseteq Threads
    BY <2>1, WriteType
  <2> QED
    BY <1>6, <2>2 DEF AcquireReturn
<1>7. CASE ReleaseClear(s)
  <2>1. WritePortState({}, STATE_ALL)
    BY <1>7 DEF ReleaseClear
  <2>2. /\ State' \subseteq STATE_ALL
        /\ WatchStateMask' \subseteq STATE_ALL
        /\ notified' \subseteq STATE_ALL
        /\ woken' \subseteq Threads
    BY <2>1, WriteType
  <2> QED
    BY <1>7, <2>2 DEF ReleaseClear
<1>8. CASE ReleaseReturn(s)
  BY <1>8 DEF ReleaseReturn
<1>9. CASE ActivateDefaults(s)
  BY <1>9 DEF ActivateDefaults, SetStructureDefaults
<1>10. CASE StoreFlowControl(s)
  BY <1>10 DEF StoreFlowControl, Pend
<1> QED
  BY <1>1, <1>2, <1>3, <1>4, <1>5, <1>6, <1>7, <1>8, <1>9, <1>10 DEF SessionStep

LEMMA LeaveWatchType ==
  ASSUME TypeOK, NEW t \in Threads, NEW label \in Labels, LeaveWatch(t, label)
  PROVE  /\ WatchStateMask' \subseteq STATE_ALL
         /\ woken' \subseteq Threads
         /\ pc' \in [Threads -> Labels]
         /\ want' \in [Threads -> SUBSET STATE_ALL]
         /\ mask' \in [Threads -> SUBSET STATE_ALL]
  BY DEF TypeOK, LeaveWatch, Goto, Blocked

LEMMA WatchLoopType ==
  ASSUME TypeOK, NEW t \in Threads, NEW st, WatchLoop(t, st)
  PROVE  /\ WatchStateMask' \subseteq STATE_ALL
         /\ woken' \subseteq Threads
         /\ pc' \in [Threads -> Labels]
         /\ want' \in [Threads -> SUBSET STATE_ALL]
         /\ mask' \in [Threads -> SUBSET STATE_ALL]
<1>1. CASE Found(t, st) # {}
  <2>1. PICK label \in Labels : LeaveWatch(t, label)
    BY <1>1, LabelNames DEF WatchLoop
  <2> QED
    BY <2>1, LeaveWatchType
<1>2. CASE ~(Found(t, st) # {})
  <2>1. Block(t)
    BY <1>2 DEF WatchLoop
  <2> QED
    BY <2>1, WatchedType, LabelNames DEF Block, TypeOK, Goto
<1> QED
  BY <1>1, <1>2

LEMMA WatchStepType ==
  ASSUME TypeOK, NEW t \in Threads, WatchStep(t)
  PROVE  TypeOK'
<1>1. CASE WatchEnter(t)
  <2>1. State' \subseteq STATE_ALL
    BY <1>1, Bits DEF WatchEnter, TypeOK
  <2>2. WatchLoop(t, State')
    BY <1>1 DEF WatchEnter
  <2> QED
    BY <1>1, <2>1, <2>2, WatchLoopType
       DEF WatchEnter, TypeOK, queueVars, openVars
<1>2. CASE WatchRestart(t)
  <2>1. WatchLoop(t, State)
    BY <1>2 DEF WatchRestart
  <2> QED
    BY <1>2, <2>1, WatchLoopType DEF WatchRestart, TypeOK, queueVars, openVars
<1>3. CASE WatchBroken(t)
  <2>1. LeaveWatch(t, "idle") /\ "idle" \in Labels
    BY <1>3, LabelNames DEF WatchBroken
  <2>2. refs' \in Int /\ sleeper' \subseteq Sessions
    BY <1>3 DEF WatchBroken, TypeOK
  <2> QED
    BY <1>3, <2>1, <2>2, LeaveWatchType DEF WatchBroken, TypeOK, queueVars
<1> QED
  BY <1>1, <1>2, <1>3 DEF WatchStep

LEMMA CheckStepType ==
  ASSUME TypeOK, NEW t \in Threads, CheckStep(t)
  PROVE  TypeOK'
<1> USE LabelNames DEF TypeOK, Goto, portVars, queueVars, localVars, openVars
<1>1. CASE CheckState(t)
  BY <1>1 DEF CheckState
<1>2. CASE CheckUsed(t)
  BY <1>2, GetByteType DEF CheckUsed
<1>3. CASE CheckFree(t)
  <2> DEFINE bits == (want[t] \ (RXQ_MASK \cup TXQ_MASK))
                       \cup QueueBits(TXQ, 0, kMaxCirBufferSize)
                       \cup QueueBits(RXQ, used[t], FreeSpaceinQueue(RX))
  <2>1. bits \subseteq STATE_ALL
    BY QueueBitsType
  <2> HIDE DEF bits
  <2>2. want' = [want EXCEPT ![t] = bits]
    BY <1>3 DEF CheckFree, bits
  <2>3. 0 \in UInt32
    BY QueueAssumption DEF UInt32
  <2>4. want' \in [Threads -> SUBSET STATE_ALL]
    BY <2>1, <2>2
  <2>5. used' \in [Threads -> UInt32]
    BY <1>3, <2>3 DEF CheckFree
  <2>6. pc' \in [Threads -> Labels]
    BY <1>3 DEF CheckFree
  <2> QED
    BY <1>3, <2>4, <2>5, <2>6 DEF CheckFree
<1>4. CASE CheckDelta(t)
  <2>1. (want[t] \ State) \cup (State \ want[t]) \subseteq STATE_ALL
    OBVIOUS
  <2> QED
    BY <1>4, <2>1 DEF CheckDelta
<1>5. CASE Write(t)
  <2>1. WritePortState(want[t], mask[t]) /\ want[t] \in SUBSET STATE_ALL
    BY <1>5 DEF Write
  <2>2. /\ State' \subseteq STATE_ALL
        /\ WatchStateMask' \subseteq STATE_ALL
        /\ notified' \subseteq STATE_ALL
        /\ woken' \subseteq Threads
    BY <2>1, WriteType
  <2>3. pc' \in [Threads -> Labels]
    BY <1>5 DEF Write
  <2>4. RXBufferLock' \in Threads \cup {Nobody}
    BY <1>5 DEF Write
  <2> QED
    BY <1>5, <2>2, <2>3, <2>4 DEF Write
<1> QED
  BY <1>1, <1>2, <1>3, <1>4, <1>5 DEF CheckStep

(* sendData and dequeueData.                                               *)
LEMMA TransferType ==
  ASSUME TypeOK, NEW t \in Threads,
         \/ \E msg \in Messages : SendData(t, msg)
         \/ SendStep(t)
         \/ \E max \in ReadSizes : DequeueData(t, max)
         \/ DequeueStep(t)
  PROVE  TypeOK'
<1> USE LabelNames DEF TypeOK, Goto, portVars, queueVars, localVars, openVars
<1>1. ASSUME NEW msg \in Messages, SendData(t, msg)
      PROVE  TypeOK'
  <2>1. msg \in Seq(Byte \cup {Garbage})
    <3>1. msg \in Seq(Byte)
      BY PortAssumption
    <3> QED
      BY <3>1
  <2>2. sends' \in 0 .. MaxSends
    BY <1>1, PortAssumption DEF SendData
  <2> QED
    BY <1>1, <2>1, <2>2 DEF SendData
<1>8. CASE SendLock(t)
  BY <1>8 DEF SendLock
<1>2. CASE SendAdd(t)
  <2>1. CASE FreeSpaceinQueue(RX) # 0 /\ data[t] # <<>>
    <3>1. /\ Head(data[t]) \in Byte \cup {Garbage}
          /\ Tail(data[t]) \in Seq(Byte \cup {Garbage})
      BY <2>1
    <3>2. AddBytetoQueue(RX, Head(data[t])) \in CirQueue
      BY <3>1, AddByteType
    <3> QED
      BY <1>2, <2>1, <3>1, <3>2 DEF SendAdd
  <2>2. CASE ~(FreeSpaceinQueue(RX) # 0 /\ data[t] # <<>>)
    <3>1. /\ data' = [data EXCEPT ![t] = <<>>]
          /\ pc' = [pc EXCEPT ![t] = "cq_state"]
          /\ UNCHANGED <<portVars, queueVars, want, mask, used, size, openVars,
                         sends>>
      BY <1>2, <2>2 DEF SendAdd
    <3>2. data' \in [Threads -> Seq(Byte \cup {Garbage})]
      BY <3>1
    <3> QED
      BY <3>1, <3>2
  <2> QED
    BY <2>1, <2>2
<1>3. CASE SendReturn(t)
  <2>1. WritePortState({"DSR"}, {"DSR"}) /\ {"DSR"} \in SUBSET STATE_ALL
    BY <1>3, Bits DEF SendReturn
  <2>2. /\ State' \subseteq STATE_ALL
        /\ WatchStateMask' \subseteq STATE_ALL
        /\ notified' \subseteq STATE_ALL
        /\ woken' \subseteq Threads
    BY <2>1, WriteType
  <2> QED
    BY <1>3, <2>2 DEF SendReturn
<1>4. ASSUME NEW max \in ReadSizes, DequeueData(t, max)
      PROVE  TypeOK'
  BY <1>4, PortAssumption DEF DequeueData
<1>5. CASE DequeueLock(t)
  BY <1>5 DEF DequeueLock
<1>6. CASE DequeueGet(t)
  <2>1. GetBytetoQueue(RX) \in CirQueue /\ GotByte(RX) \in Byte \cup {Garbage}
    BY GetByteType
  <2> QED
    BY <1>6, <2>1 DEF DequeueGet
<1>7. CASE DequeueDone(t)
  <2>1. /\ pc' \in [Threads -> Labels]
        /\ RXBufferLock' \in Threads \cup {Nobody}
    BY <1>7 DEF DequeueDone
  <2> QED
    BY <1>7, <2>1 DEF DequeueDone
<1> QED
  BY <1>1, <1>2, <1>3, <1>4, <1>5, <1>6, <1>7, <1>8 DEF SendStep, DequeueStep

LEMMA OtherCallType ==
  ASSUME TypeOK, NEW t \in Threads,
         (\E arg \in WatchArgs : WatchState(t, arg)) \/ GetState(t)
  PROVE  TypeOK'
<1> USE LabelNames DEF TypeOK, Goto, portVars, queueVars, localVars, openVars
<1>1. ASSUME NEW arg \in WatchArgs, WatchState(t, arg)
      PROVE  TypeOK'
  <2>1. arg.state \subseteq STATE_ALL /\ arg.mask \cap EXTERNAL_MASK \subseteq STATE_ALL
    BY PortAssumption
  <2> QED
    BY <1>1, <2>1 DEF WatchState, Pend
<1>2. CASE GetState(t)
  BY <1>2 DEF GetState
<1> QED
  BY <1>1, <1>2

LEMMA InitType == Init => TypeOK
<1> SUFFICES ASSUME Init PROVE TypeOK
  OBVIOUS
<1>1. State \subseteq STATE_ALL
  BY DEF Init, STATE_ALL, PD_S_MASK, RXQ_MASK, TXQ_MASK
<1>2. 0 \in UInt32 /\ MaxSends \in Nat
  BY QueueAssumption, PortAssumption DEF UInt32
<1>3. /\ State \subseteq STATE_ALL
      /\ notified \subseteq STATE_ALL
      /\ WatchStateMask \subseteq STATE_ALL
  BY <1>1 DEF Init
<1>4. /\ RX \in CirQueue
      /\ sends \in 0 .. MaxSends
      /\ used \in [Threads -> UInt32]
      /\ size \in [Threads -> Nat]
      /\ refs \in Int
  BY <1>2, InitQueueType DEF Init
<1>5. /\ pc \in [Threads -> Labels]
      /\ want \in [Threads -> SUBSET STATE_ALL]
      /\ mask \in [Threads -> SUBSET STATE_ALL]
      /\ data \in [Threads -> Seq(Byte \cup {Garbage})]
      /\ taken \in Seq(Byte \cup {Garbage})
  BY LabelNames DEF Init
<1> QED
  BY <1>3, <1>4, <1>5 DEF Init, TypeOK

LEMMA NextType == TypeOK /\ [Next]_vars => TypeOK'
<1> SUFFICES ASSUME TypeOK, [Next]_vars PROVE TypeOK'
  OBVIOUS
<1>1. CASE UNCHANGED vars
  BY <1>1 DEF TypeOK, vars, portVars, queueVars, localVars, openVars
<1>2. CASE Next
  BY <1>2, CallType, SessionStepType, WatchStepType, CheckStepType,
     TransferType, OtherCallType, ThreadRoles DEF Next
<1> QED
  BY <1>1, <1>2

-------------------------------------------------------------------------------
(* The receive section.                                                    *)

LEMMA RolesApart ==
  /\ Testers \cap Readers = {}
  /\ Sessions \cap (Testers \cup Readers) = {}
  /\ (Watchers \cup Pollers) \cap (Testers \cup Readers) = {}
  /\ Nobody \notin Threads
  BY PortAssumption

LEMMA InitLock == Init => RoleOK /\ OneInRXSection
  BY ThreadRoles, RolesApart DEF Init, RoleOK, OneInRXSection, InRXSection

(* A step that moves one thread, which is neither tester nor reader.       *)
LEMMA OtherThreadMoves ==
  ASSUME IInv, NEW t \in Threads, t \notin Testers \cup Readers, NEW label,
         \/ Goto(t, label)
         \/ UNCHANGED pc,
         UNCHANGED RXBufferLock
  PROVE  RoleOK' /\ OneInRXSection'
<1>1. \A u \in Threads \ {t} : pc'[u] = pc[u]
  BY DEF IInv, TypeOK, Goto
<1>2. RoleOK'
  BY <1>1, ThreadRoles DEF IInv, RoleOK
<1>3. OneInRXSection'
  BY <1>1 DEF IInv, OneInRXSection, InRXSection
<1> QED
  BY <1>2, <1>3

(* A tester or a reader that goes on without locking or unlocking.         *)
LEMMA InsideMoves ==
  ASSUME IInv, NEW t \in Threads, NEW label, Goto(t, label),
         \/ t \in Testers /\ pc[t] \notin {"idle", "send_lock"}
              /\ label \in {"send_add", "send_dsr"} \cup CheckLabels
         \/ t \in Testers /\ pc[t] = "idle" /\ label = "send_lock"
         \/ t \in Readers /\ pc[t] \notin {"idle", "deq_lock"}
              /\ label \in {"deq_get"} \cup CheckLabels
         \/ t \in Readers /\ pc[t] = "idle" /\ label = "deq_lock",
         UNCHANGED RXBufferLock
  PROVE  RoleOK' /\ OneInRXSection'
<1>1. /\ \A u \in Threads \ {t} : pc'[u] = pc[u]
      /\ pc'[t] = label
  BY DEF IInv, TypeOK, Goto
<1>2. RoleOK'
  BY <1>1, ThreadRoles, RolesApart DEF IInv, RoleOK
<1>3. OneInRXSection'
  <2>1. InRXSection(t)' <=> InRXSection(t)
    BY <1>1, RolesApart DEF InRXSection, CheckLabels
  <2>2. \A u \in Threads \ {t} : InRXSection(u)' <=> InRXSection(u)
    BY <1>1 DEF InRXSection
  <2> QED
    BY <2>1, <2>2 DEF IInv, OneInRXSection
<1> QED
  BY <1>2, <1>3

(* A thread that takes the free lock.                                      *)
LEMMA LockTaken ==
  ASSUME IInv, NEW t \in Threads, NEW label, Goto(t, label),
         \/ t \in Testers /\ label = "send_add"
         \/ t \in Readers /\ label = "deq_get",
         RXBufferLock = Nobody, RXBufferLock' = t
  PROVE  RoleOK' /\ OneInRXSection'
<1>1. /\ \A u \in Threads \ {t} : pc'[u] = pc[u]
      /\ pc'[t] = label
  BY DEF IInv, TypeOK, Goto
<1>2. RoleOK'
  BY <1>1, ThreadRoles, RolesApart DEF IInv, RoleOK
<1>3. OneInRXSection'
  <2>1. InRXSection(t)'
    BY <1>1 DEF InRXSection
  <2>2. \A u \in Threads \ {t} : ~InRXSection(u)'
    BY <1>1, RolesApart DEF IInv, OneInRXSection, InRXSection
  <2> QED
    BY <2>1, <2>2 DEF OneInRXSection
<1> QED
  BY <1>2, <1>3

(* A thread inside the section that unlocks and returns.                   *)
LEMMA LockReturned ==
  ASSUME IInv, NEW t \in Threads, Goto(t, "idle"), InRXSection(t),
         RXBufferLock' = Nobody
  PROVE  RoleOK' /\ OneInRXSection'
<1>1. /\ \A u \in Threads \ {t} : pc'[u] = pc[u]
      /\ pc'[t] = "idle"
  BY DEF IInv, TypeOK, Goto
<1>2. RoleOK'
  BY <1>1, ThreadRoles, RolesApart DEF IInv, RoleOK
<1>3. OneInRXSection'
  <2>1. ~InRXSection(t)'
    BY <1>1 DEF InRXSection
  <2>2. \A u \in Threads \ {t} : ~InRXSection(u)'
    BY <1>1 DEF IInv, OneInRXSection, InRXSection
  <2> QED
    BY <2>1, <2>2, RolesApart DEF OneInRXSection
<1> QED
  BY <1>2, <1>3

LEMMA SessionLock ==
  ASSUME IInv, NEW s \in Sessions, SessionCall(s) \/ SessionStep(s)
  PROVE  RoleOK' /\ OneInRXSection'
<1>1. s \in Threads /\ s \notin Testers \cup Readers
  BY ThreadRoles, RolesApart
<1>2. RXBufferLock' = RXBufferLock /\ ((\E label : Goto(s, label)) \/ UNCHANGED pc)
  <2> USE DEF queueVars
  <2>1. CASE SessionCall(s)
    BY <2>1 DEF SessionCall, AcquirePort, ReleasePort, SetState, Activate,
                Deactivate, LineBreak, SetFlowControl, Pend
  <2>5. CASE StoreFlowControl(s)
    BY <2>5 DEF StoreFlowControl, Pend
  <2>2. CASE AcquireRead(s) \/ AcquireWatch(s) \/ AcquireSet(s) \/ AcquireDefaults(s)
    BY <2>2 DEF AcquireRead, AcquireWatch, AcquireSet, AcquireDefaults,
                AcquireFails
  <2>3. CASE AcquireResetQueue(s) \/ AcquireReturn(s)
    BY <2>3 DEF AcquireResetQueue, AcquireReturn
  <2>4. CASE ReleaseClear(s) \/ ReleaseReturn(s) \/ ActivateDefaults(s)
    BY <2>4 DEF ReleaseClear, ReleaseReturn, ActivateDefaults
  <2> QED
    BY <2>1, <2>2, <2>3, <2>4, <2>5 DEF SessionStep
<1> QED
  BY <1>1, <1>2, OtherThreadMoves

LEMMA WatchLock ==
  ASSUME IInv, NEW t \in Threads, WatchStep(t)
  PROVE  RoleOK' /\ OneInRXSection'
<1>1. pc[t] \in {"wat_enter", "wat_block"}
  BY DEF WatchStep, WatchEnter, WatchRestart, WatchBroken
<1>2. t \notin Testers \cup Readers
  BY <1>1 DEF IInv, RoleOK, CheckLabels
<1>3. RXBufferLock' = RXBufferLock /\ \E label : Goto(t, label)
  BY DEF WatchStep, WatchEnter, WatchRestart, WatchBroken, WatchLoop,
         LeaveWatch, Block, queueVars
<1> QED
  BY <1>2, <1>3, OtherThreadMoves

LEMMA CheckLock ==
  ASSUME IInv, NEW t \in Threads, CheckStep(t)
  PROVE  RoleOK' /\ OneInRXSection'
<1>1. CASE CheckState(t) \/ CheckUsed(t) \/ CheckFree(t) \/ CheckDelta(t)
  <2>1. PICK label \in CheckLabels : Goto(t, label)
    BY <1>1 DEF CheckState, CheckUsed, CheckFree, CheckDelta, CheckLabels
  <2>2. RXBufferLock' = RXBufferLock /\ pc[t] \in CheckLabels
    BY <1>1 DEF CheckState, CheckUsed, CheckFree, CheckDelta, CheckLabels,
                queueVars
  <2>3. CASE t \in Testers \cup Readers
    BY <2>1, <2>2, <2>3, InsideMoves DEF CheckLabels
  <2>4. CASE t \notin Testers \cup Readers
    BY <2>1, <2>2, <2>4, OtherThreadMoves
  <2> QED
    BY <2>3, <2>4
<1>2. CASE Write(t)
  <2>1. CASE t \in Testers
    BY <1>2, <2>1, RolesApart, InsideMoves DEF Write
  <2>2. CASE t \in Readers
    BY <1>2, <2>2, RolesApart, LockReturned DEF Write, InRXSection
  <2>3. CASE t \notin Testers \cup Readers
    BY <1>2, <2>3, OtherThreadMoves DEF Write
  <2> QED
    BY <2>1, <2>2, <2>3
<1> QED
  BY <1>1, <1>2 DEF CheckStep

LEMMA SendLockStep ==
  ASSUME IInv, NEW t \in Testers,
         (\E msg \in Messages : SendData(t, msg)) \/ SendStep(t)
  PROVE  RoleOK' /\ OneInRXSection'
<1> t \in Threads
  BY ThreadRoles
<1>1. ASSUME NEW msg \in Messages, SendData(t, msg)
      PROVE  RoleOK' /\ OneInRXSection'
  BY <1>1, InsideMoves DEF SendData, MayCall, queueVars
<1>4. CASE SendLock(t)
  BY <1>4, LockTaken DEF SendLock
<1>2. CASE SendAdd(t)
  <2>1. RXBufferLock' = RXBufferLock /\ pc[t] = "send_add"
    BY <1>2 DEF SendAdd
  <2>2. CASE UNCHANGED pc
    BY <2>1, <2>2 DEF IInv, RoleOK, OneInRXSection, InRXSection
  <2>3. CASE Goto(t, "cq_state")
    BY <2>1, <2>3, InsideMoves DEF CheckLabels
  <2> QED
    BY <1>2, <2>2, <2>3 DEF SendAdd
<1>3. CASE SendReturn(t)
  BY <1>3, LockReturned DEF SendReturn, InRXSection
<1> QED
  BY <1>1, <1>2, <1>3, <1>4 DEF SendStep

LEMMA DequeueLockStep ==
  ASSUME IInv, NEW r \in Readers,
         (\E max \in ReadSizes : DequeueData(r, max)) \/ DequeueStep(r)
  PROVE  RoleOK' /\ OneInRXSection'
<1> r \in Threads
  BY ThreadRoles
<1>1. ASSUME NEW max \in ReadSizes, DequeueData(r, max)
      PROVE  RoleOK' /\ OneInRXSection'
  BY <1>1, InsideMoves DEF DequeueData, MayCall, queueVars
<1>2. CASE DequeueLock(r)
  BY <1>2, LockTaken DEF DequeueLock
<1>3. CASE DequeueGet(r)
  BY <1>3 DEF DequeueGet, openVars, IInv, RoleOK, OneInRXSection, InRXSection
<1>4. CASE DequeueDone(r)
  <2>1. InRXSection(r) /\ pc[r] = "deq_get"
    BY <1>4 DEF DequeueDone, InRXSection
  <2>2. CASE Goto(r, "cq_state") /\ UNCHANGED RXBufferLock
    BY <2>1, <2>2, InsideMoves DEF CheckLabels
  <2>3. CASE Goto(r, "idle") /\ RXBufferLock' = Nobody
    BY <2>1, <2>3, LockReturned
  <2> QED
    BY <1>4, <2>2, <2>3 DEF DequeueDone
<1> QED
  BY <1>1, <1>2, <1>3, <1>4 DEF DequeueStep

LEMMA NextLock == IInv /\ [Next]_vars => RoleOK' /\ OneInRXSection'
<1> SUFFICES ASSUME IInv, [Next]_vars PROVE RoleOK' /\ OneInRXSection'
  OBVIOUS
<1>1. CASE UNCHANGED vars
  BY <1>1 DEF vars, queueVars, IInv, RoleOK, OneInRXSection, InRXSection
<1>2. ASSUME NEW t \in Watchers \cup Pollers,
             (\E arg \in WatchArgs : WatchState(t, arg)) \/ GetState(t)
      PROVE  RoleOK' /\ OneInRXSection'
  <2>1. t \in Threads /\ t \notin Testers \cup Readers
    BY ThreadRoles, RolesApart
  <2>2. RXBufferLock' = RXBufferLock /\ \E label : Goto(t, label)
    BY <1>2 DEF WatchState, GetState, Pend, queueVars
  <2> QED
    BY <2>1, <2>2, OtherThreadMoves
<1>3. CASE Next
  BY <1>2, <1>3, SessionLock, WatchLock, CheckLock, SendLockStep, DequeueLockStep
     DEF Next
<1> QED
  BY <1>1, <1>3

-------------------------------------------------------------------------------
(* Theorems.                                                               *)

(* The inductive invariant holds always, whatever calls overlap: types,    *)
(* each thread inside a call of its own role, and RXBufferLock held by the *)
(* one thread that is between its locking and its unlocking.               *)
THEOREM IInvAlways == Spec => []IInv
<1>1. Init => IInv
  BY InitType, InitLock DEF IInv
<1>2. IInv /\ [Next]_vars => IInv'
  BY NextType, NextLock DEF IInv
<1> QED
  BY <1>1, <1>2, PTL DEF Spec

(* Every variable keeps its type in every interleaving: even when a reset  *)
(* races with the queue's users, no pointer leaves the buffer.             *)
THEOREM TypeCorrect == Spec => []TypeOK
<1>1. IInv => TypeOK
  BY DEF IInv
<1> QED
  BY <1>1, IInvAlways, PTL

(* One thread at a time is between the locking and the unlocking of        *)
(* RXBufferLock, and every path through sendData and dequeueData unlocks.  *)
THEOREM OneAtATime == Spec => []OneInRXSection
<1>1. IInv => OneInRXSection
  BY DEF IInv
<1> QED
  BY <1>1, IInvAlways, PTL

(* A step writes the state word under the lock, sets CAR in it, or leaves  *)
(* it and what the tester was sent alone.                                  *)
LEMMA StateChanges ==
  ASSUME [Next]_vars
  PROVE  \/ \E state, m : WritePortState(state, m)
         \/ State' = State \cup {"CAR"} /\ UNCHANGED notified
         \/ UNCHANGED <<State, notified>>
<1> USE DEF portVars
<1>1. CASE UNCHANGED vars
  BY <1>1 DEF vars
<1>2. ASSUME NEW s \in Sessions, SessionCall(s)
      PROVE  UNCHANGED <<State, notified>>
  BY <1>2 DEF SessionCall, AcquirePort, ReleasePort, SetState, Activate,
              Deactivate, LineBreak, SetFlowControl
<1>3. ASSUME NEW s \in Sessions, SessionStep(s)
      PROVE  \/ \E state, m : WritePortState(state, m)
             \/ UNCHANGED <<State, notified>>
  <2>1. CASE AcquireSet(s)
    BY <2>1 DEF AcquireSet
  <2>2. CASE AcquireReturn(s)
    BY <2>2 DEF AcquireReturn
  <2>3. CASE ReleaseClear(s)
    BY <2>3 DEF ReleaseClear
  <2>4. CASE AcquireRead(s) \/ AcquireWatch(s) \/ AcquireDefaults(s)
    BY <2>4 DEF AcquireRead, AcquireWatch, AcquireDefaults
  <2>5. CASE AcquireResetQueue(s) \/ ReleaseReturn(s) \/ ActivateDefaults(s)
    BY <2>5 DEF AcquireResetQueue, ReleaseReturn, ActivateDefaults
  <2>6. CASE StoreFlowControl(s)
    BY <2>6 DEF StoreFlowControl
  <2> QED
    BY <1>3, <2>1, <2>2, <2>3, <2>4, <2>5, <2>6 DEF SessionStep
<1>4. ASSUME NEW t \in Threads, WatchStep(t)
      PROVE  \/ State' = State \cup {"CAR"} /\ UNCHANGED notified
             \/ UNCHANGED <<State, notified>>
  BY <1>4 DEF WatchStep, WatchEnter, WatchRestart, WatchBroken
<1>5. ASSUME NEW t \in Threads, CheckStep(t)
      PROVE  \/ \E state, m : WritePortState(state, m)
             \/ UNCHANGED <<State, notified>>
  <2>1. CASE Write(t)
    BY <2>1 DEF Write
  <2>2. CASE CheckState(t) \/ CheckUsed(t) \/ CheckFree(t) \/ CheckDelta(t)
    BY <2>2 DEF CheckState, CheckUsed, CheckFree, CheckDelta
  <2> QED
    BY <1>5, <2>1, <2>2 DEF CheckStep
<1>6. ASSUME NEW t \in Testers,
             (\E msg \in Messages : SendData(t, msg)) \/ SendStep(t)
      PROVE  \/ \E state, m : WritePortState(state, m)
             \/ UNCHANGED <<State, notified>>
  BY <1>6 DEF SendData, SendStep, SendLock, SendAdd, SendReturn
<1>7. ASSUME NEW r \in Readers,
             (\E max \in ReadSizes : DequeueData(r, max)) \/ DequeueStep(r)
      PROVE  UNCHANGED <<State, notified>>
  BY <1>7 DEF DequeueData, DequeueStep, DequeueLock, DequeueGet, DequeueDone
<1>8. ASSUME NEW t, (\E arg \in WatchArgs : WatchState(t, arg)) \/ GetState(t)
      PROVE  UNCHANGED <<State, notified>>
  BY <1>8 DEF WatchState, GetState
<1> QED
  BY <1>1, <1>2, <1>3, <1>4, <1>5, <1>6, <1>7, <1>8 DEF Next

(* The state word the tester was last sent is the current one, up to the   *)
(* bit privateWatchState sets without telling it.                          *)
THEOREM TesterIsTold == Spec => []TesterSeesState
<1>1. Init => TesterSeesState
  BY DEF Init, TesterSeesState
<1>2. TesterSeesState /\ [Next]_vars => TesterSeesState'
  <2> SUFFICES ASSUME TesterSeesState, [Next]_vars PROVE TesterSeesState'
    OBVIOUS
  <2>1. ASSUME NEW state, NEW m, WritePortState(state, m)
        PROVE  TesterSeesState'
    <3> DEFINE new   == (State \ m) \cup (state \cap m)
               delta == (new \ State) \cup (State \ new)
    <3>1. State' = new /\ notified' = IF delta # {} THEN new ELSE notified
      BY <2>1 DEF WritePortState
    <3>2. CASE delta # {}
      BY <3>1, <3>2 DEF TesterSeesState
    <3>3. CASE delta = {}
      <4>1. new = State
        BY <3>3
      <4> QED
        BY <3>1, <3>3, <4>1 DEF TesterSeesState
    <3> QED
      BY <3>2, <3>3
  <2>2. CASE State' = State \cup {"CAR"} /\ UNCHANGED notified
    BY <2>2 DEF TesterSeesState
  <2>3. CASE UNCHANGED <<State, notified>>
    BY <2>3 DEF TesterSeesState
  <2> QED
    BY <2>1, <2>2, <2>3, StateChanges
<1> QED
  BY <1>1, <1>2, PTL DEF Spec

===============================================================================
