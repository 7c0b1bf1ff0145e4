--------------------------- MODULE VirtualSerialPort ---------------------------
(***************************************************************************)
(* The running driver: the port-state word, the receive queue and the      *)
(* watch mask, used by threads of the serial client (DTE) and of the       *)
(* tester's user client (DCE).                                             *)
(*                                                                         *)
(* A step is one access to shared state, or one critical section of        *)
(* serialRequestLock: that lock is never held across a step, so            *)
(* readPortState and writePortState are atomic and it needs no variable.   *)
(* The RX queue's lock is held across steps; adding or fetching a byte is  *)
(* one step, a reset is three.  The state word is the set of its one bits. *)
(* Only the TX queue is left out: enqueueData stores nothing, so it stays  *)
(* empty.                                                                  *)
(***************************************************************************)
EXTENDS SccQueue, FiniteSets

CONSTANTS
  Sessions,   \* threads that open, configure and close the port
  Readers,    \* threads that call dequeueData
  Watchers,   \* threads that call watchState
  Pollers,    \* threads that call getState
  Testers,    \* threads of the tester that call sendData
  Nobody,     \* the holder of a lock that is free
  OpenMode,   \* how the callers serialise acquirePort and releasePort
  Messages,   \* what a tester sends: sequences of bytes
  ReadSizes,  \* what a reader asks for
  WatchArgs,  \* arguments of watchState
  SetArgs,    \* arguments of setState
  FlowArgs,   \* data of PD_E_FLOW_CONTROL
  MaxSends,   \* bound: calls of sendData
  MaxRefs     \* bound: references held when acquirePort is called

Threads == Sessions \cup Readers \cup Watchers \cup Pollers \cup Testers

-------------------------------------------------------------------------------
(* The bits of the state word that something in the driver tells apart.    *)
(* ENABLE stands for the four bits of DEFAULT_STATE, CAR is 0x40 and DSR   *)
(* is 256 (IOKit's header numbers them).                                   *)

RXQ == [EMPTY |-> "RXQ_EMPTY", LOW_WATER |-> "RXQ_LOW_WATER",
        HIGH_WATER |-> "RXQ_HIGH_WATER", FULL |-> "RXQ_FULL"]
TXQ == [EMPTY |-> "TXQ_EMPTY", LOW_WATER |-> "TXQ_LOW_WATER",
        HIGH_WATER |-> "TXQ_HIGH_WATER", FULL |-> "TXQ_FULL"]

RXQ_MASK == {RXQ.EMPTY, RXQ.LOW_WATER, RXQ.HIGH_WATER, RXQ.FULL}
TXQ_MASK == {TXQ.EMPTY, TXQ.LOW_WATER, TXQ.HIGH_WATER, TXQ.FULL}
PD_S_MASK ==
  {"ACQUIRED", "ACTIVE", "ENABLE", "TX_EVENT"} \cup RXQ_MASK \cup TXQ_MASK
PD_RS232_A_MASK == {"DTR", "RFR", "CTS", "DSR", "CAR"}
PD_RS232_S_MASK == PD_RS232_A_MASK \cup {"BRK", "LOOP"}

STATE_ALL     == PD_S_MASK \cup PD_RS232_S_MASK
EXTERNAL_MASK == STATE_ALL \ {"LOOP"}
DEFAULT_STATE == {"ENABLE"}
DEFAULT_AUTO  == {"RFR", "CTS", "DSR"}

ASSUME PortAssumption ==
  /\ Sessions \cap (Readers \cup Watchers \cup Pollers \cup Testers) = {}
  /\ Readers \cap (Watchers \cup Pollers \cup Testers) = {}
  /\ Watchers \cap (Pollers \cup Testers) = {}
  /\ Pollers \cap Testers = {}
  /\ Nobody \notin Threads
  /\ OpenMode \in {"any", "serial", "quiescent"}
  /\ Messages \subseteq Seq(Byte)
  /\ ReadSizes \subseteq Nat
  /\ WatchArgs \subseteq [state : SUBSET STATE_ALL, mask : SUBSET STATE_ALL]
  /\ SetArgs \subseteq [state : SUBSET STATE_ALL, mask : SUBSET STATE_ALL]
  /\ FlowArgs \subseteq SUBSET STATE_ALL
  /\ MaxSends \in Nat
  /\ MaxRefs \in Nat

ASSUME FiniteSessions == IsFiniteSet(Sessions)

VARIABLES
  State,           \* fPort.State
  WatchStateMask,  \* fPort.WatchStateMask
  FlowControl,     \* fPort.FlowControl
  marksSet,        \* RXStats and TXStats hold their water marks, not zero
  RX,              \* fPort.RX
  RXBufferLock,    \* the thread that holds it, or Nobody
  refs,            \* references acquirePort holds on the driver
  notified,        \* the state last sent to the tester
  opened,          \* sessions whose acquirePort succeeded, until they close
  pc,              \* where each thread is
  want,            \* its local state or queuingState
  mask,            \* its local mask or deltaState
  used,            \* its local used, in checkQueues
  size,            \* MaxSize of its RemovefromQueue
  data,            \* bytes it has left to add, or has removed
  sleeper,         \* sessions whose acquirePort was called with sleep
  woken,           \* history: blocked watchers a wake-up was issued for
  taken,           \* history: what the last GetBytetoQueue handed out
  sends            \* calls of sendData so far

portVars  == <<State, WatchStateMask, notified, woken>>
queueVars == <<RX, RXBufferLock, taken>>
localVars == <<want, mask, used, size, data>>
openVars  == <<opened, refs, sleeper, FlowControl, marksSet>>
vars == <<portVars, queueVars, localVars, openVars, pc, sends>>

Goto(t, label) == pc' = [pc EXCEPT ![t] = label]

-------------------------------------------------------------------------------
(* Environment: which calls may overlap.  OpenMode "any" lets every call   *)
(* overlap every other; "serial" admits one acquirePort at a time;         *)
(* "quiescent" admits nothing else while a port is taken or given back,    *)
(* except an acquirePort asleep until it is given back.                    *)

Taking  == {"acq_read", "acq_set", "acq_defaults", "acq_next", "acq_last",
            "acq_inq", "acq_cts"}
Waiting == {"wat_check", "wat_enter", "wat_block"}
Giving  == {"rel_write", "rel_mask"}

MayAcquire(s) ==
  /\ pc[s] = "idle"
  /\ OpenMode # "any" =>
       \A u \in Sessions : pc[u] \notin Taking \cup Waiting \cup Giving
  /\ OpenMode = "quiescent" => \A t \in Threads : pc[t] = "idle"

MayRelease(s) ==
  /\ pc[s] = "idle"
  /\ OpenMode = "quiescent" =>
       \A t \in Threads : \/ pc[t] = "idle"
                          \/ t \in Sessions /\ pc[t] \in Waiting

MayCall(t) ==
  /\ pc[t] = "idle"
  /\ OpenMode = "quiescent" =>
       \A s \in Sessions : /\ pc[s] \notin Taking \cup Giving
                           /\ pc[s] \in Waiting => "ACQUIRED" \in State

-------------------------------------------------------------------------------
(* The critical sections of serialRequestLock.                             *)

Blocked == {t \in Threads : pc[t] = "wat_block"}

(* Mutant: the tester is told only of bits that are watched.               *)
WritePortState_TellsWatched(state, m) ==
  LET new   == (State \ m) \cup (state \cap m)
      delta == (new \ State) \cup (State \ new)
  IN  /\ State' = new
      /\ notified' = IF delta \cap WatchStateMask # {} THEN new ELSE notified
      /\ woken' = IF delta \cap WatchStateMask # {} THEN Blocked ELSE woken
      /\ UNCHANGED WatchStateMask

WritePortState(state, m) ==
  LET new   == (State \ m) \cup (state \cap m)
      delta == (new \ State) \cup (State \ new)
  IN  /\ State' = new
      /\ notified' = IF delta # {} THEN new ELSE notified
      /\ woken' = IF delta \cap WatchStateMask # {} THEN Blocked ELSE woken
      /\ UNCHANGED WatchStateMask

(* What the calling thread watches: without ACQUIRED or ACTIVE in its      *)
(* mask, a low ACTIVE as well.                                             *)
AutoActive(t) == mask[t] \cap {"ACQUIRED", "ACTIVE"} = {}
Watched(t)    == IF AutoActive(t) THEN mask[t] \cup {"ACTIVE"} ELSE mask[t]
Wanted(t)     == IF AutoActive(t) THEN want[t] \ {"ACTIVE"} ELSE want[t]
Found(t, st)  == {b \in Watched(t) : (b \in st) <=> (b \in Wanted(t))}

(* Mutant: the mask is cleared and nobody is woken.                        *)
LeaveWatch_NoWakeup(t, label) ==
  /\ WatchStateMask' = {}
  /\ woken' = woken \ {t}
  /\ Goto(t, label)
  /\ want' = [want EXCEPT ![t] = {}]
  /\ mask' = [mask EXCEPT ![t] = {}]

(* "We clear down the watch state mask and wakeup every sleeping thread."  *)
LeaveWatch(t, label) ==
  /\ WatchStateMask' = {}
  /\ woken' = Blocked \ {t}
  /\ Goto(t, label)
  /\ want' = [want EXCEPT ![t] = {}]
  /\ mask' = [mask EXCEPT ![t] = {}]

Block(t) ==
  /\ WatchStateMask' = WatchStateMask \cup Watched(t)
  /\ woken' = woken \ {t}
  /\ Goto(t, "wat_block")
  /\ UNCHANGED <<want, mask>>

WatchLoop(t, st) ==
  IF Found(t, st) # {}
    THEN LeaveWatch(t, IF t \in Sessions THEN "acq_read" ELSE "idle")
    ELSE Block(t)

-------------------------------------------------------------------------------
(* acquirePort                                                             *)

(* Mutant: no reference is taken.                                          *)
AcquirePort_NoRetain(s, sleep) ==
  /\ MayAcquire(s)
  /\ s \notin opened
  /\ refs < MaxRefs
  /\ sleeper' = IF sleep THEN sleeper \cup {s} ELSE sleeper \ {s}
  /\ Goto(s, "acq_read")
  /\ UNCHANGED <<portVars, queueVars, localVars, opened, refs, FlowControl,
                 marksSet, sends>>

AcquirePort(s, sleep) ==
  /\ MayAcquire(s)
  /\ s \notin opened
  /\ refs < MaxRefs
  /\ refs' = refs + 1
  /\ sleeper' = IF sleep THEN sleeper \cup {s} ELSE sleeper \ {s}
  /\ Goto(s, "acq_read")
  /\ UNCHANGED <<portVars, queueVars, localVars, opened, FlowControl,
                 marksSet, sends>>

(* Mutant: a failed acquirePort keeps its reference.                       *)
AcquireFails_NoRelease(s) ==
  /\ sleeper' = sleeper \ {s}
  /\ Goto(s, "idle")
  /\ UNCHANGED refs

AcquireFails(s) ==
  /\ refs' = refs - 1
  /\ sleeper' = sleeper \ {s}
  /\ Goto(s, "idle")

(* Mutant: the busy bit is not looked at.                                  *)
AcquireRead_IgnoresBusy(s) ==
  /\ pc[s] = "acq_read"
  /\ Goto(s, "acq_set")
  /\ UNCHANGED <<portVars, queueVars, localVars, openVars, sends>>

AcquireRead(s) ==
  /\ pc[s] = "acq_read"
  /\ \/ /\ "ACQUIRED" \notin State
        /\ Goto(s, "acq_set")
        /\ UNCHANGED <<refs, sleeper>>
     \/ /\ "ACQUIRED" \in State
        /\ s \notin sleeper
        /\ AcquireFails(s)
     \/ /\ "ACQUIRED" \in State
        /\ s \in sleeper
        /\ Goto(s, "wat_check")
        /\ UNCHANGED <<refs, sleeper>>
  /\ UNCHANGED <<portVars, queueVars, localVars, opened, FlowControl,
                 marksSet, sends>>

(* watchState called by acquirePort: kIOReturnNotOpen ends acquirePort.    *)
AcquireWatch(s) ==
  /\ pc[s] = "wat_check"
  /\ \/ /\ "ACQUIRED" \in State
        /\ Goto(s, "wat_enter")
        /\ mask' = [mask EXCEPT ![s] = {"ACQUIRED"}]
        /\ UNCHANGED <<refs, sleeper>>
     \/ /\ "ACQUIRED" \notin State
        /\ AcquireFails(s)
        /\ UNCHANGED mask
  /\ UNCHANGED <<portVars, queueVars, want, used, size, data, opened,
                 FlowControl, marksSet, sends>>

AcquireSet(s) ==
  /\ pc[s] = "acq_set"
  /\ WritePortState({"ACQUIRED"} \cup DEFAULT_STATE, STATE_ALL)
  /\ Goto(s, "acq_defaults")
  /\ UNCHANGED <<queueVars, localVars, openVars, sends>>

SetStructureDefaults ==
  /\ FlowControl' = DEFAULT_AUTO
  /\ marksSet' = TRUE

AcquireDefaults(s) ==
  /\ pc[s] = "acq_defaults"
  /\ SetStructureDefaults
  /\ Goto(s, "acq_next")
  /\ UNCHANGED <<portVars, queueVars, localVars, opened, refs, sleeper, sends>>

(* Mutant: the reset forgets the write pointer.                            *)
AcquireResetQueue_KeepsNextChar(s) ==
  /\ \/ /\ pc[s] = "acq_next"
        /\ Goto(s, "acq_last")
        /\ UNCHANGED RX
     \/ /\ pc[s] = "acq_last"
        /\ RX' = [RX EXCEPT !.LastChar = 0]
        /\ Goto(s, "acq_inq")
     \/ /\ pc[s] = "acq_inq"
        /\ RX' = [RX EXCEPT !.InQueue = 0]
        /\ Goto(s, "acq_cts")
  /\ UNCHANGED <<portVars, RXBufferLock, taken, localVars, openVars, sends>>

(* ResetQueue(&fPort.RX), store by store: RXBufferLock is not held.        *)
AcquireResetQueue(s) ==
  /\ \/ /\ pc[s] = "acq_next"
        /\ RX' = [RX EXCEPT !.NextChar = 0]
        /\ Goto(s, "acq_last")
     \/ /\ pc[s] = "acq_last"
        /\ RX' = [RX EXCEPT !.LastChar = 0]
        /\ Goto(s, "acq_inq")
     \/ /\ pc[s] = "acq_inq"
        /\ RX' = [RX EXCEPT !.InQueue = 0]
        /\ Goto(s, "acq_cts")
  /\ UNCHANGED <<portVars, RXBufferLock, taken, localVars, openVars, sends>>

AcquireReturn(s) ==
  /\ pc[s] = "acq_cts"
  /\ WritePortState({"CTS"}, {"CTS"})
  /\ opened' = opened \cup {s}
  /\ sleeper' = sleeper \ {s}
  /\ Goto(s, "idle")
  /\ UNCHANGED <<queueVars, localVars, refs, FlowControl, marksSet, sends>>

-------------------------------------------------------------------------------
(* releasePort                                                             *)

ReleasePort(s) ==
  /\ MayRelease(s)
  /\ s \in opened
  /\ IF "ACQUIRED" \in State
       THEN /\ Goto(s, "rel_write")
            /\ UNCHANGED opened
       ELSE /\ opened' = opened \ {s}      \* kIOReturnNotOpen
            /\ UNCHANGED pc
  /\ UNCHANGED <<portVars, queueVars, localVars, refs, sleeper, FlowControl,
                 marksSet, sends>>

ReleaseClear(s) ==
  /\ pc[s] = "rel_write"
  /\ WritePortState({}, STATE_ALL)
  /\ Goto(s, "rel_mask")
  /\ UNCHANGED <<queueVars, localVars, openVars, sends>>

ReleaseReturn(s) ==
  /\ pc[s] = "rel_mask"
  /\ WatchStateMask' = {}
  /\ refs' = refs - 1
  /\ opened' = opened \ {s}
  /\ Goto(s, "idle")
  /\ UNCHANGED <<State, notified, woken, queueVars, localVars, sleeper,
                 FlowControl, marksSet, sends>>

-------------------------------------------------------------------------------
(* setState and executeEvent, called by a session that has the port open.  *)
(* A call that is refused changes nothing and is left out.                 *)

MaySet(s) == MayCall(s) /\ s \in opened /\ "ACQUIRED" \in State

(* A pending writePortState(want, mask).                                   *)
Pend(t, label, state, m) ==
  /\ Goto(t, label)
  /\ want' = [want EXCEPT ![t] = state]
  /\ mask' = [mask EXCEPT ![t] = m]

SetState(s, arg) ==
  /\ MaySet(s)
  /\ arg.mask \cap ({"ACQUIRED", "ACTIVE"} \cup (STATE_ALL \ EXTERNAL_MASK)) = {}
  /\ LET m == arg.mask \cap ((PD_RS232_A_MASK \ FlowControl) \cup PD_S_MASK)
     IN  m # {} /\ Pend(s, "write", arg.state, m)
  /\ UNCHANGED <<portVars, queueVars, used, size, data, openVars, sends>>

Activate(s) ==
  /\ MaySet(s)
  /\ "ACTIVE" \notin State
  /\ Pend(s, "ev_defaults", {"ACTIVE"}, {"ACTIVE"})
  /\ UNCHANGED <<portVars, queueVars, used, size, data, openVars, sends>>

ActivateDefaults(s) ==
  /\ pc[s] = "ev_defaults"
  /\ SetStructureDefaults
  /\ Goto(s, "write")
  /\ UNCHANGED <<portVars, queueVars, localVars, opened, refs, sleeper, sends>>

Deactivate(s) ==
  /\ MaySet(s)
  /\ "ACTIVE" \in State
  /\ Pend(s, "write", {}, {"ACTIVE"})
  /\ UNCHANGED <<portVars, queueVars, used, size, data, openVars, sends>>

(* PD_RS232_E_LINE_BREAK clears BRK whatever its data.                     *)
LineBreak(s) ==
  /\ MaySet(s)
  /\ Pend(s, "write", State \ {"BRK"}, {"BRK"})
  /\ UNCHANGED <<portVars, queueVars, used, size, data, openVars, sends>>

SetFlowControl(s, flow) ==
  /\ MaySet(s)
  /\ Pend(s, "ev_flow", flow, {})
  /\ UNCHANGED <<portVars, queueVars, used, size, data, openVars, sends>>

StoreFlowControl(s) ==
  /\ pc[s] = "ev_flow"
  /\ FlowControl' = want[s]
  /\ Pend(s, "idle", {}, {})
  /\ UNCHANGED <<portVars, queueVars, used, size, data, opened, refs, sleeper,
                 marksSet, sends>>

-------------------------------------------------------------------------------
(* watchState                                                              *)

WatchState(w, arg) ==
  /\ MayCall(w)
  /\ "ACQUIRED" \in State
  /\ Pend(w, "wat_enter", arg.state, arg.mask \cap EXTERNAL_MASK)
  /\ UNCHANGED <<portVars, queueVars, used, size, data, openVars, sends>>

(* privateWatchState: "*state | 0x40" is never zero.                       *)
WatchEnter(t) ==
  /\ pc[t] = "wat_enter"
  /\ State' = State \cup {"CAR"}
  /\ WatchLoop(t, State')
  /\ UNCHANGED <<notified, queueVars, used, size, data, openVars, sends>>

(* thread_block without assert_wait: it may return at once, with whatever  *)
(* wait result the thread has left over.                                   *)
WatchRestart(t) ==
  /\ pc[t] = "wat_block"
  /\ WatchLoop(t, State)
  /\ UNCHANGED <<State, notified, queueVars, used, size, data, openVars, sends>>

WatchBroken(t) ==
  /\ pc[t] = "wat_block"
  /\ LeaveWatch(t, "idle")
  /\ IF t \in Sessions
       THEN refs' = refs - 1 /\ sleeper' = sleeper \ {t}
       ELSE UNCHANGED <<refs, sleeper>>
  /\ UNCHANGED <<State, notified, queueVars, used, size, data, opened,
                 FlowControl, marksSet, sends>>

-------------------------------------------------------------------------------
(* checkQueues: called by getState without a lock, by sendData and         *)
(* dequeueData under RXBufferLock.                                         *)

HighWater == IF marksSet THEN (kMaxCirBufferSize * 2) \div 3 ELSE 0
LowWater  == HighWater \div 2

QueueBits(Q, inUse, free) ==
  (IF free = 0 THEN {Q.FULL} ELSE IF inUse = 0 THEN {Q.EMPTY} ELSE {})
    \cup (IF inUse < LowWater THEN {Q.LOW_WATER} ELSE {})
    \cup (IF inUse > HighWater THEN {Q.HIGH_WATER} ELSE {})

GetState(p) ==
  /\ MayCall(p)
  /\ Goto(p, "cq_state")
  /\ UNCHANGED <<portVars, queueVars, localVars, openVars, sends>>

CheckState(t) ==
  /\ pc[t] = "cq_state"
  /\ want' = [want EXCEPT ![t] = State]
  /\ Goto(t, "cq_used")
  /\ UNCHANGED <<portVars, queueVars, mask, used, size, data, openVars, sends>>

CheckUsed(t) ==
  /\ pc[t] = "cq_used"
  /\ used' = [used EXCEPT ![t] = UsedSpaceinQueue(RX)]
  /\ Goto(t, "cq_free")
  /\ UNCHANGED <<portVars, queueVars, want, mask, size, data, openVars, sends>>

CheckFree(t) ==
  /\ pc[t] = "cq_free"
  /\ want' = [want EXCEPT ![t] =
                (@ \ (RXQ_MASK \cup TXQ_MASK))
                  \cup QueueBits(TXQ, 0, kMaxCirBufferSize)
                  \cup QueueBits(RXQ, used[t], FreeSpaceinQueue(RX))]
  /\ used' = [used EXCEPT ![t] = 0]
  /\ Goto(t, "cq_delta")
  /\ UNCHANGED <<portVars, queueVars, mask, size, data, openVars, sends>>

CheckDelta(t) ==
  /\ pc[t] = "cq_delta"
  /\ mask' = [mask EXCEPT ![t] = (want[t] \ State) \cup (State \ want[t])]
  /\ Goto(t, "write")
  /\ UNCHANGED <<portVars, queueVars, want, used, size, data, openVars, sends>>

(* The writePortState a thread has pending, and what follows it: a reader  *)
(* unlocks and returns, a tester raises DSR.                               *)
Write(t) ==
  /\ pc[t] = "write"
  /\ WritePortState(want[t], mask[t])
  /\ want' = [want EXCEPT ![t] = {}]
  /\ mask' = [mask EXCEPT ![t] = {}]
  /\ Goto(t, IF t \in Testers THEN "send_dsr" ELSE "idle")
  /\ RXBufferLock' = IF t \in Readers THEN Nobody ELSE RXBufferLock
  /\ UNCHANGED <<RX, taken, used, size, data, openVars, sends>>

-------------------------------------------------------------------------------
(* sendData                                                                *)

SendData(t, msg) ==
  /\ MayCall(t)
  /\ sends < MaxSends
  /\ data' = [data EXCEPT ![t] = msg]
  /\ sends' = sends + 1
  /\ Goto(t, "send_lock")
  /\ UNCHANGED <<portVars, queueVars, want, mask, used, size, openVars>>

SendLock(t) ==
  /\ pc[t] = "send_lock"
  /\ RXBufferLock = Nobody
  /\ RXBufferLock' = t
  /\ Goto(t, "send_add")
  /\ UNCHANGED <<portVars, RX, taken, localVars, openVars, sends>>

SendAdd(t) ==
  /\ pc[t] = "send_add"
  /\ IF FreeSpaceinQueue(RX) # 0 /\ data[t] # <<>>
       THEN /\ RX' = AddBytetoQueue(RX, Head(data[t]))
            /\ data' = [data EXCEPT ![t] = Tail(@)]
            /\ UNCHANGED pc
       ELSE /\ data' = [data EXCEPT ![t] = <<>>]
            /\ Goto(t, "cq_state")
            /\ UNCHANGED RX
  /\ UNCHANGED <<portVars, RXBufferLock, taken, want, mask, used, size,
                 openVars, sends>>

(* Mutant: sendData returns with the lock held.                            *)
SendReturn_NoUnlock(t) ==
  /\ pc[t] = "send_dsr"
  /\ WritePortState({"DSR"}, {"DSR"})
  /\ Goto(t, "idle")
  /\ UNCHANGED <<queueVars, localVars, openVars, sends>>

SendReturn(t) ==
  /\ pc[t] = "send_dsr"
  /\ WritePortState({"DSR"}, {"DSR"})
  /\ RXBufferLock' = Nobody
  /\ Goto(t, "idle")
  /\ UNCHANGED <<RX, taken, localVars, openVars, sends>>

-------------------------------------------------------------------------------
(* dequeueData                                                             *)

DequeueData(r, max) ==
  /\ MayCall(r)
  /\ "ACTIVE" \in State
  /\ size' = [size EXCEPT ![r] = max]
  /\ Goto(r, "deq_lock")
  /\ UNCHANGED <<portVars, queueVars, want, mask, used, data, openVars, sends>>

DequeueLock(r) ==
  /\ pc[r] = "deq_lock"
  /\ RXBufferLock = Nobody
  /\ RXBufferLock' = r
  /\ Goto(r, "deq_get")
  /\ UNCHANGED <<portVars, RX, taken, localVars, openVars, sends>>

(* Mutant: the last byte asked for is not fetched.                         *)
DequeueContinues_Early(r) ==
  size[r] > Len(data[r]) + 1 /\ GetQueueStatus(RX) # "queueEmpty"

DequeueContinues(r) ==
  size[r] > Len(data[r]) /\ GetQueueStatus(RX) # "queueEmpty"

DequeueGet(r) ==
  /\ pc[r] = "deq_get"
  /\ DequeueContinues(r)
  /\ data' = [data EXCEPT ![r] = Append(@, GotByte(RX))]
  /\ taken' = <<GotByte(RX)>>
  /\ RX' = GetBytetoQueue(RX)
  /\ UNCHANGED <<portVars, RXBufferLock, want, mask, used, size, openVars, pc,
                 sends>>

(* Mutant: the queue bits are not updated after a read.                    *)
DequeueDone_NoCheckQueues(r) ==
  /\ pc[r] = "deq_get"
  /\ ~DequeueContinues(r)
  /\ Goto(r, "idle")
  /\ RXBufferLock' = Nobody
  /\ data' = [data EXCEPT ![r] = <<>>]
  /\ size' = [size EXCEPT ![r] = 0]
  /\ UNCHANGED <<portVars, RX, taken, want, mask, used, openVars, sends>>

(* Mutant: a read that finds nothing returns with the lock held.           *)
DequeueDone_NoUnlock(r) ==
  /\ pc[r] = "deq_get"
  /\ ~DequeueContinues(r)
  /\ Goto(r, IF data[r] # <<>> THEN "cq_state" ELSE "idle")
  /\ data' = [data EXCEPT ![r] = <<>>]
  /\ size' = [size EXCEPT ![r] = 0]
  /\ UNCHANGED <<portVars, queueVars, want, mask, used, openVars, sends>>

DequeueDone(r) ==
  /\ pc[r] = "deq_get"
  /\ ~DequeueContinues(r)
  /\ IF data[r] # <<>>
       THEN Goto(r, "cq_state") /\ UNCHANGED RXBufferLock
       ELSE Goto(r, "idle") /\ RXBufferLock' = Nobody
  /\ data' = [data EXCEPT ![r] = <<>>]
  /\ size' = [size EXCEPT ![r] = 0]
  /\ UNCHANGED <<portVars, RX, taken, want, mask, used, openVars, sends>>

-------------------------------------------------------------------------------

Init ==
  /\ State = {TXQ.EMPTY, TXQ.LOW_WATER, RXQ.EMPTY, RXQ.LOW_WATER}
  /\ WatchStateMask = {}
  /\ FlowControl = {}
  /\ marksSet = FALSE
  /\ RX = InitQueue
  /\ RXBufferLock = Nobody
  /\ refs = 0
  /\ notified = State
  /\ opened = {}
  /\ pc = [t \in Threads |-> "idle"]
  /\ want = [t \in Threads |-> {}]
  /\ mask = [t \in Threads |-> {}]
  /\ used = [t \in Threads |-> 0]
  /\ size = [t \in Threads |-> 0]
  /\ data = [t \in Threads |-> <<>>]
  /\ sleeper = {}
  /\ woken = {}
  /\ taken = <<>>
  /\ sends = 0

SessionCall(s) ==
  \/ \E sleep \in BOOLEAN : AcquirePort(s, sleep)
  \/ ReleasePort(s)
  \/ \E arg \in SetArgs : SetState(s, arg)
  \/ Activate(s)
  \/ Deactivate(s)
  \/ LineBreak(s)
  \/ \E flow \in FlowArgs : SetFlowControl(s, flow)

SessionStep(s) ==
  \/ AcquireRead(s)
  \/ AcquireWatch(s)
  \/ AcquireSet(s)
  \/ AcquireDefaults(s)
  \/ AcquireResetQueue(s)
  \/ AcquireReturn(s)
  \/ ReleaseClear(s)
  \/ ReleaseReturn(s)
  \/ ActivateDefaults(s)
  \/ StoreFlowControl(s)

WatchStep(t) == WatchEnter(t) \/ WatchRestart(t) \/ WatchBroken(t)

CheckStep(t) ==
  CheckState(t) \/ CheckUsed(t) \/ CheckFree(t) \/ CheckDelta(t) \/ Write(t)

SendStep(t) == SendLock(t) \/ SendAdd(t) \/ SendReturn(t)

DequeueStep(r) == DequeueLock(r) \/ DequeueGet(r) \/ DequeueDone(r)

Next ==
  \/ \E s \in Sessions : SessionCall(s) \/ SessionStep(s)
  \/ \E w \in Watchers : \E arg \in WatchArgs : WatchState(w, arg)
  \/ \E p \in Pollers : GetState(p)
  \/ \E t \in Testers : \E msg \in Messages : SendData(t, msg)
  \/ \E t \in Testers : SendStep(t)
  \/ \E r \in Readers : \E max \in ReadSizes : DequeueData(r, max)
  \/ \E r \in Readers : DequeueStep(r)
  \/ \E t \in Threads : WatchStep(t) \/ CheckStep(t)

Spec == Init /\ [][Next]_vars

(* What the system gives: a thread that has begun a call is scheduled and  *)
(* goes on with it, and the lock it waits for is handed to it if it is     *)
(* free again and again.  dequeueData is called over and over while the    *)
(* port is active.  Nothing else is promised: no caller has to begin       *)
(* anything, and a watcher may never be woken.                             *)
Fairness ==
  /\ \A s \in Sessions : WF_vars(SessionStep(s))
  /\ \A t \in Threads : WF_vars(CheckStep(t))
  /\ \A t \in Testers :
       /\ SF_vars(SendLock(t))
       /\ WF_vars(SendAdd(t) \/ SendReturn(t))
  /\ \A r \in Readers :
       /\ SF_vars(DequeueLock(r))
       /\ WF_vars(DequeueGet(r) \/ DequeueDone(r))

ReadersKeepReading ==
  \A r \in Readers : SF_vars(\E max \in ReadSizes : DequeueData(r, max))

FairSpec == Spec /\ Fairness /\ ReadersKeepReading

-------------------------------------------------------------------------------
(* Properties.                                                             *)

Labels ==
  {"idle", "ev_defaults", "ev_flow", "write", "cq_state", "cq_used", "cq_free",
   "cq_delta", "send_lock", "send_add", "send_dsr", "deq_lock", "deq_get"}
    \cup Taking \cup Waiting \cup Giving

(* Every variable has its type.                                            *)
TypeOK ==
  /\ State \subseteq STATE_ALL
  /\ WatchStateMask \subseteq STATE_ALL
  /\ FlowControl \subseteq STATE_ALL
  /\ marksSet \in BOOLEAN
  /\ RX \in CirQueue
  /\ RXBufferLock \in Threads \cup {Nobody}
  /\ refs \in Int
  /\ notified \subseteq STATE_ALL
  /\ opened \subseteq Sessions
  /\ pc \in [Threads -> Labels]
  /\ want \in [Threads -> SUBSET STATE_ALL]
  /\ mask \in [Threads -> SUBSET STATE_ALL]
  /\ used \in [Threads -> UInt32]
  /\ size \in [Threads -> Nat]
  /\ data \in [Threads -> Seq(Byte \cup {Garbage})]
  /\ sleeper \subseteq Sessions
  /\ woken \subseteq Threads
  /\ taken \in Seq(Byte \cup {Garbage})
  /\ sends \in 0 .. MaxSends

(* A session owns the port from the moment acquirePort sets the busy bit   *)
(* until releasePort clears the state word.                                *)
Owns(s) ==
  \/ s \in opened /\ pc[s] # "rel_mask"
  \/ pc[s] \in Taking \ {"acq_read", "acq_set"}

(* The port has at most one owner, and the ACQUIRED bit says whether it    *)
(* has one.                                                                *)
ExclusiveOwner ==
  /\ \A s, u \in Sessions : Owns(s) /\ Owns(u) => s = u
  /\ "ACQUIRED" \in State <=> \E s \in Sessions : Owns(s)

HoldsReference(s) == s \in opened \/ pc[s] \in Taking \cup Waiting

(* acquirePort holds a reference "till releasePort(), unless we fail to    *)
(* acquire": there is one for each session that has or is getting the port.*)
RefsBalanced == refs = Cardinality({s \in Sessions : HoldsReference(s)})

(* However the calls overlap, the driver is never released more often than *)
(* it was retained for sessions that still count on it.                    *)
NoOverRelease == refs >= Cardinality({s \in Sessions : HoldsReference(s)})

(* The port passes from one session to another only through being free,    *)
(* from hand to hand of sessions that asked for it, and each gives back    *)
(* the reference it took: acquirePort, watchState's wait for it and        *)
(* releasePort are the steps of ExclusivePort.                             *)
Port == INSTANCE ExclusivePort
          WITH owners <- {s \in Sessions : Owns(s)},
               holders <- {s \in Sessions : HoldsReference(s)},
               busy <- "ACQUIRED" \in State

PortChangesHands == Port!Spec

(* The threads between the locking and the unlocking of RXBufferLock.      *)
InRXSection(t) ==
  \/ t \in Testers /\ pc[t] \notin {"idle", "send_lock"}
  \/ t \in Readers /\ pc[t] \notin {"idle", "deq_lock"}

(* One thread at a time adds to or removes from the RX queue and updates   *)
(* the queue bits for it, and the lock is given back on every path.        *)
OneInRXSection == \A t \in Threads : InRXSection(t) <=> RXBufferLock = t

Resetting == \E s \in Sessions : pc[s] \in {"acq_last", "acq_inq"}

(* Between two resets the queue's pointers and its count agree.            *)
QueueCoherent == ~Resetting => Coherent(RX)

(* The bytes a tester sends reach dequeueData in order, each once; only    *)
(* acquirePort discards any.                                               *)
Fifo == INSTANCE ByteFifo
          WITH contents <- IF Resetting THEN <<>> ELSE Contents(RX),
               Capacity <- kMaxCirBufferSize

DeliversInOrder == Fifo!Spec

(* The tester was sent the current state word; only the bit that           *)
(* privateWatchState sets behind its back can be missing from what it got. *)
TesterSeesState == State \ {"CAR"} = notified \ {"CAR"} /\ notified \subseteq State

(* The bits some thread watches are in WatchStateMask, and a thread that   *)
(* blocked and was not woken since is still waiting for its bits: the only *)
(* change it can have missed is the one privateWatchState itself makes.    *)
NoLostWakeup ==
  \A t \in Blocked \ woken :
    /\ Watched(t) \subseteq WatchStateMask
    /\ Found(t, State) \subseteq {"CAR"}

(* What was sent is read as long as the port stays active.                 *)
DataDrains ==
  <>[]("ACTIVE" \in State) => []<>(Contents(RX) = <<>>)

(* Every call but a watch returns, however the calls overlap.              *)
CallsReturn ==
  \A t \in Threads :
    (pc[t] \notin {"idle"} \cup Waiting) ~> (pc[t] \in {"idle"} \cup Waiting)

-------------------------------------------------------------------------------
(* What comments of the source say and the code does not do.               *)

(* VirtualSerialPort.cpp:72: "Hold reference till releasePort(), unless we *)
(* fail to acquire": no reference is left when no session has the port.    *)
NoReferenceLeaks ==
  (\A s \in Sessions : s \notin opened /\ pc[s] = "idle") => refs = 0

(* VirtualSerialPort.cpp:122: "Clear the entire state word": a port nobody *)
(* has or is getting is not marked ACQUIRED.                               *)
ReleasedPortIsFree ==
  (\A s \in Sessions : s \notin opened /\ pc[s] = "idle")
    => "ACQUIRED" \notin State

(* VirtualSerialPort.cpp:626: "any event that could affect the             *)
(* WatchStateMask must wakeup all watch state threads."                    *)
MaskChangeWakes ==
  [][ WatchStateMask \ WatchStateMask' # {} => Blocked' \subseteq woken' ]_vars

(* SccQueue.cpp:37: "If they match we are either Empty or full."           *)
MatchMeansEmptyOrFull ==
  (RX.NextChar = RX.LastChar /\ ~Resetting) => RX.InQueue \in {0, RX.Size}
===============================================================================
