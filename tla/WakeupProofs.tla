------------------------------ MODULE WakeupProofs ------------------------------
(***************************************************************************)
(* Proof that no thread blocked in watchState misses the change it waits   *)
(* for, when nothing else is called while the port is taken or given back. *)
(***************************************************************************)
EXTENDS OwnershipProofs

(* releasePort clears the state word, then WatchStateMask: between the two *)
(* a session waiting for the port finds it free, and nobody sleeps on      *)
(* unwoken.                                                                *)
Hoping == Waiting \cup {"acq_read", "acq_set"}

Midway ==
  \A s, u \in Sessions : pc[s] = "rel_mask" /\ pc[u] \in Hoping => ~Acquired

Roused == \A s \in Sessions : pc[s] = "rel_mask" => Blocked \subseteq woken

WakeInv == OwnerInv /\ Midway /\ Roused /\ NoLostWakeup

WakeupKept == Midway' /\ Roused' /\ NoLostWakeup'

-------------------------------------------------------------------------------
(* Steps that leave watchState alone.                                      *)

LEMMA BlockedNext == \A t : t \in Blocked' <=> t \in Threads /\ pc'[t] = "wat_block"
  BY DEF Blocked

LEMMA WatchedNext ==
  ASSUME NEW u, want'[u] = want[u], mask'[u] = mask[u]
  PROVE  /\ Watched(u)' = Watched(u)
         /\ Found(u, State)' = {b \in Watched(u) : (b \in State') <=> (b \in Wanted(u))}
  BY DEF Found, Watched, Wanted, AutoActive

(* writePortState wakes everybody if it changes a watched bit.             *)
LEMMA WriteWakes ==
  ASSUME NoLostWakeup, NEW state, NEW m,
         WritePortState(state, m) \/ UNCHANGED <<State, WatchStateMask, woken>>,
         NEW u \in Blocked \ woken', want'[u] = want[u], mask'[u] = mask[u]
  PROVE  Watched(u)' \subseteq WatchStateMask' /\ Found(u, State)' \subseteq {"CAR"}
<1>1. CASE UNCHANGED <<State, WatchStateMask, woken>>
  BY <1>1, WatchedNext DEF NoLostWakeup, Found
<1>2. CASE WritePortState(state, m)
  <2> DEFINE new   == (State \ m) \cup (state \cap m)
             delta == (new \ State) \cup (State \ new)
  <2>1. /\ State' = new /\ WatchStateMask' = WatchStateMask
        /\ woken' = IF delta \cap WatchStateMask # {} THEN Blocked ELSE woken
    BY <1>2 DEF WritePortState
  <2>2. delta \cap WatchStateMask = {} /\ woken' = woken
    BY <2>1
  <2>3. \A b \in WatchStateMask : b \in State' <=> b \in State
    BY <2>1, <2>2
  <2>4. Watched(u) \subseteq WatchStateMask /\ Found(u, State) \subseteq {"CAR"}
    BY <2>2 DEF NoLostWakeup
  <2> QED
    BY <2>1, <2>3, <2>4, WatchedNext DEF Found
<1> QED
  BY <1>1, <1>2

LEMMA MoveKeeps ==
  ASSUME WakeInv, NEW t \in Threads, NEW label, Moves(t, label),
         label \notin {"wat_block", "rel_mask"},
         t \in Sessions /\ label \in Hoping => pc[t] \in Hoping,
         Acquired' <=> Acquired,
         \/ UNCHANGED <<State, WatchStateMask, woken>>
         \/ \E state, m : WritePortState(state, m)
  PROVE  WakeupKept
<1>1. \A u \in Sessions : u \in Threads
  BY ThreadRoles
<1>2. Midway'
  BY <1>1 DEF Moves, WakeInv, Midway
<1>3. \A u \in Blocked' : /\ u \in Blocked
                          /\ want'[u] = want[u] /\ mask'[u] = mask[u]
  BY BlockedNext DEF Moves, Blocked
<1>4. \A u \in Blocked : u \in woken => u \in woken'
  BY DEF WritePortState
<1>5. Roused'
  BY <1>1, <1>3, <1>4 DEF Moves, WakeInv, Roused
<1>6. ASSUME NEW u \in Blocked' \ woken'
      PROVE  Watched(u)' \subseteq WatchStateMask' /\ Found(u, State)' \subseteq {"CAR"}
  BY <1>3, <1>6, WriteWakes DEF WakeInv
<1>7. NoLostWakeup'
  BY <1>6 DEF NoLostWakeup
<1> QED
  BY <1>2, <1>5, <1>7 DEF WakeupKept

LEMMA StillKeeps ==
  ASSUME WakeInv, UNCHANGED <<pc, want, mask, State, WatchStateMask, woken>>
  PROVE  WakeupKept
<1>1. Blocked' = Blocked
  BY DEF Blocked
<1>2. Midway' /\ Roused'
  BY <1>1 DEF WakeInv, Midway, Roused, Acquired
<1>3. NoLostWakeup'
  BY <1>1, WatchedNext DEF WakeInv, NoLostWakeup, Found
<1> QED
  BY <1>2, <1>3 DEF WakeupKept

-------------------------------------------------------------------------------
(* watchState.                                                             *)

LEMMA WatchWakeup ==
  ASSUME WakeInv, OpenMode = "quiescent", NEW t \in Threads, WatchStep(t)
  PROVE  WakeupKept
<1> /\ TypeOK /\ OwnerInv
    /\ \A s \in Sessions : s \in Threads
  BY ThreadRoles DEF OwnerInv, WakeInv
<1>1. /\ pc[t] \in {"wat_enter", "wat_block"} /\ (Acquired' <=> Acquired)
      /\ State' = State \/ State' = State \cup {"CAR"}
      /\ \/ \E label \in {"acq_read", "idle"} :
              LeaveWatch(t, label) /\ (label = "acq_read" => t \in Sessions)
         \/ Block(t) /\ Found(t, State') = {}
  BY DEF WatchStep, WatchEnter, WatchRestart, WatchBroken, WatchLoop, Acquired
<1>2. pc[t] \in Waiting /\ pc[t] \in Hoping
  BY <1>1 DEF Waiting, Hoping
<1>3. CASE \E label \in {"acq_read", "idle"} : LeaveWatch(t, label)
  <2>1. PICK label \in {"acq_read", "idle"} : Moves(t, label)
    BY <1>3, GotoMoves DEF LeaveWatch
  <2>2. woken' = Blocked \ {t}
    BY <1>3 DEF LeaveWatch
  <2>3. Blocked' \subseteq woken'
    BY <2>1, <2>2, BlockedNext DEF Moves, Blocked
  <2>4. Roused' /\ NoLostWakeup'
    BY <2>3 DEF Roused, NoLostWakeup
  <2>5. Midway'
    BY <1>1, <1>2, <2>1 DEF Moves, WakeInv, Midway
  <2> QED
    BY <2>4, <2>5 DEF WakeupKept
<1>4. CASE Block(t) /\ Found(t, State') = {}
  <2>1. /\ Moves(t, "wat_block") /\ UNCHANGED <<want, mask>>
        /\ WatchStateMask' = WatchStateMask \cup Watched(t) /\ woken' = woken \ {t}
    BY <1>4, GotoMoves DEF Block
  <2>2. \A u \in Blocked' : u # t => u \in Blocked
    BY <2>1, BlockedNext DEF Moves, Blocked
  <2>3. ASSUME NEW u \in Blocked' \ woken'
        PROVE  Watched(u)' \subseteq WatchStateMask' /\ Found(u, State)' \subseteq {"CAR"}
    <3>1. /\ Watched(u)' = Watched(u)
          /\ Found(u, State)' = {b \in Watched(u) : (b \in State') <=> (b \in Wanted(u))}
      BY <2>1, WatchedNext
    <3>2. CASE u = t
      BY <1>4, <2>1, <3>1, <3>2 DEF Found
    <3>3. CASE u # t
      <4>1. Watched(u) \subseteq WatchStateMask /\ Found(u, State) \subseteq {"CAR"}
        BY <2>1, <2>2, <2>3, <3>3 DEF WakeInv, NoLostWakeup
      <4> QED
        BY <1>1, <2>1, <3>1, <4>1 DEF Found
    <3> QED
      BY <3>2, <3>3
  <2>4. Midway'
    BY <1>1, <1>2, <2>1 DEF Moves, WakeInv, Midway, Hoping, Waiting
  <2>5. ASSUME NEW s \in Sessions, pc'[s] = "rel_mask" PROVE FALSE
    <3>1. pc[s] = "rel_mask" /\ s # t
      BY <2>1, <2>5 DEF Moves
    <3>2. t \in Sessions
      BY <1>1, <3>1 DEF OwnerInv, Undisturbed, Arriving, AtRest
    <3>3. ~Acquired
      BY <1>2, <3>1, <3>2 DEF WakeInv, Midway
    <3>4. mask[t] = {"ACQUIRED"} /\ want[t] = {}
      BY <1>1, <3>2, LabelsApart DEF OwnerInv, SessionsOK
    <3>5. ~AutoActive(t)
      BY <3>4 DEF AutoActive
    <3>6. Watched(t) = {"ACQUIRED"} /\ Wanted(t) = {}
      BY <3>4, <3>5 DEF Watched, Wanted
    <3> QED
      BY <1>1, <1>4, <3>3, <3>6 DEF Found, Acquired
  <2>6. Roused' /\ NoLostWakeup'
    BY <2>3, <2>5 DEF Roused, NoLostWakeup
  <2> QED
    BY <2>4, <2>6 DEF WakeupKept
<1> QED
  BY <1>1, <1>3, <1>4

-------------------------------------------------------------------------------
(* Taking the port and giving it back.                                     *)

LEMMA AcquireWakeup ==
  ASSUME WakeInv, OpenMode = "quiescent", NEW s \in Sessions,
         \/ \E sleep \in BOOLEAN : AcquirePort(s, sleep)
         \/ AcquireRead(s) \/ AcquireWatch(s) \/ AcquireSet(s)
         \/ AcquireDefaults(s) \/ AcquireResetQueue(s) \/ AcquireReturn(s)
  PROVE  WakeupKept
<1> /\ s \in Threads /\ TypeOK /\ OwnerInv
    /\ \A u \in Sessions : u \in Threads
  BY ThreadRoles DEF OwnerInv, WakeInv
<1> USE DEF portVars, localVars, openVars
<1>1. ASSUME NEW sleep \in BOOLEAN, AcquirePort(s, sleep)
      PROVE  WakeupKept
  <2>1. /\ \A t \in Threads : pc[t] = "idle"
        /\ Goto(s, "acq_read") /\ UNCHANGED <<want, mask, State, WatchStateMask, woken>>
    BY <1>1 DEF AcquirePort, MayAcquire
  <2>2. \A t \in Threads : pc'[t] \in {"idle", "acq_read"}
    BY <2>1 DEF Goto, TypeOK
  <2>3. Blocked' = {}
    BY <2>2, BlockedNext
  <2> QED
    BY <2>2, <2>3 DEF WakeupKept, Midway, Roused, NoLostWakeup
<1>2. CASE AcquireRead(s) \/ AcquireWatch(s)
  <2>1. /\ pc[s] \in Hoping /\ UNCHANGED <<want, State, WatchStateMask, woken>>
        /\ \E label \in {"acq_set", "wat_check", "wat_enter", "idle"} : Goto(s, label)
        /\ UNCHANGED mask \/ \E y : mask' = [mask EXCEPT ![s] = y]
    BY <1>2 DEF AcquireRead, AcquireWatch, AcquireFails, Hoping, Waiting
  <2>2. PICK label \in {"acq_set", "wat_check", "wat_enter", "idle"} : Moves(s, label)
    BY <2>1, GotoMoves
  <2> QED
    BY <2>1, <2>2, MoveKeeps DEF Acquired
<1>3. CASE AcquireSet(s)
  <2>1. /\ pc[s] = "acq_set" /\ Goto(s, "acq_defaults") /\ UNCHANGED <<want, mask>>
        /\ WritePortState({"ACQUIRED"} \cup DEFAULT_STATE, STATE_ALL)
    BY <1>3 DEF AcquireSet
  <2>2. Moves(s, "acq_defaults")
    BY <2>1, GotoMoves
  <2>3. pc[s] \in Taking
    BY <2>1 DEF Taking
  <2>4. \A t \in Threads : pc'[t] \in {"acq_defaults", "idle", "rel_mask"}
    BY <2>2, <2>3, TakerAlone DEF Moves, Leaving, AtRest
  <2>5. Blocked' = {}
    BY <2>4, BlockedNext
  <2> QED
    BY <2>4, <2>5 DEF WakeupKept, Midway, Roused, NoLostWakeup, Hoping, Waiting
<1>4. CASE AcquireDefaults(s) \/ AcquireResetQueue(s)
  <2>1. /\ UNCHANGED <<want, mask, State, WatchStateMask, woken>>
        /\ \E label \in {"acq_next", "acq_last", "acq_inq", "acq_cts"} : Goto(s, label)
    BY <1>4 DEF AcquireDefaults, AcquireResetQueue
  <2>2. PICK label \in {"acq_next", "acq_last", "acq_inq", "acq_cts"} : Moves(s, label)
    BY <2>1, GotoMoves
  <2> QED
    BY <2>1, <2>2, MoveKeeps DEF Acquired, Hoping, Waiting
<1>5. CASE AcquireReturn(s)
  <2>1. Goto(s, "idle") /\ UNCHANGED <<want, mask>> /\ WritePortState({"CTS"}, {"CTS"})
    BY <1>5 DEF AcquireReturn
  <2>2. Moves(s, "idle") /\ (Acquired' <=> Acquired)
    BY <2>1, GotoMoves, WriteAcquired
  <2> QED
    BY <2>1, <2>2, MoveKeeps DEF Hoping, Waiting
<1> QED
  BY <1>1, <1>2, <1>3, <1>4, <1>5

LEMMA ReleaseWakeup ==
  ASSUME WakeInv, OpenMode = "quiescent", NEW s \in Sessions,
         ReleasePort(s) \/ ReleaseClear(s) \/ ReleaseReturn(s)
  PROVE  WakeupKept
<1> /\ s \in Threads /\ TypeOK /\ OwnerInv
    /\ \A u \in Sessions : u \in Threads
  BY ThreadRoles DEF OwnerInv, WakeInv
<1> USE DEF portVars, localVars, openVars
<1>1. CASE ReleasePort(s)
  <2>1. /\ UNCHANGED <<want, mask, State, WatchStateMask, woken>>
        /\ Goto(s, "rel_write") \/ UNCHANGED pc
    BY <1>1 DEF ReleasePort
  <2>2. CASE Goto(s, "rel_write")
    <3>1. Moves(s, "rel_write")
      BY <2>1, <2>2, GotoMoves
    <3> QED
      BY <2>1, <3>1, MoveKeeps DEF Acquired, Hoping, Waiting
  <2> QED
    BY <2>1, <2>2, StillKeeps
<1>2. CASE ReleaseClear(s)
  <2>1. /\ pc[s] = "rel_write" /\ Goto(s, "rel_mask") /\ UNCHANGED <<want, mask>>
        /\ WritePortState({}, STATE_ALL)
    BY <1>2 DEF ReleaseClear
  <2>2. Moves(s, "rel_mask") /\ ~Acquired'
    BY <2>1, GotoMoves, WriteAcquired, Bits
  <2>3. Acquired
    <3>1. Owns(s)
      BY <2>1, LabelsApart DEF OwnerInv, SessionsOK, Owns, Giving
    <3> QED
      BY <3>1 DEF OwnerInv, ExclusiveOwner, Acquired
  <2>4. ASSUME NEW u \in Blocked' PROVE u \in woken'
    <3>1. u \in Threads \ {s} /\ pc[u] = "wat_block" /\ u \in Blocked
      BY <2>2, BlockedNext DEF Moves, Blocked
    <3>2. u \in Sessions
      BY <2>1, <3>1 DEF OwnerInv, Undisturbed, Standby, AtRest
    <3>3. mask[u] = {"ACQUIRED"}
      BY <3>1, <3>2, LabelsApart DEF OwnerInv, SessionsOK
    <3>4. "ACQUIRED" \in Watched(u)
      BY <3>3 DEF Watched, AutoActive
    <3>5. CASE u \in woken
      BY <2>1, <3>1, <3>5 DEF WritePortState
    <3>6. CASE u \notin woken
      <4>1. "ACQUIRED" \in WatchStateMask
        BY <3>1, <3>4, <3>6 DEF WakeInv, NoLostWakeup
      <4> DEFINE new   == (State \ STATE_ALL) \cup ({} \cap STATE_ALL)
                 delta == (new \ State) \cup (State \ new)
      <4>2. "ACQUIRED" \in delta
        BY <2>3, Bits DEF Acquired
      <4>3. woken' = IF delta \cap WatchStateMask # {} THEN Blocked ELSE woken
        BY <2>1 DEF WritePortState
      <4> HIDE DEF delta
      <4> QED
        BY <3>1, <4>1, <4>2, <4>3
    <3> QED
      BY <3>5, <3>6
  <2> QED
    BY <2>2, <2>4 DEF WakeupKept, Midway, Roused, NoLostWakeup
<1>3. CASE ReleaseReturn(s)
  <2>1. /\ pc[s] = "rel_mask" /\ Goto(s, "idle") /\ UNCHANGED <<want, mask, State, woken>>
    BY <1>3 DEF ReleaseReturn
  <2>2. Moves(s, "idle")
    BY <2>1, GotoMoves
  <2>3. Blocked' \subseteq woken'
    BY <2>1, <2>2, BlockedNext DEF Moves, Blocked, WakeInv, Roused
  <2>4. Midway'
    BY <2>1, <2>2, LabelsApart DEF Moves, WakeInv, Midway, Hoping, Waiting, Acquired
  <2> QED
    BY <2>3, <2>4 DEF WakeupKept, Roused, NoLostWakeup
<1> QED
  BY <1>1, <1>2, <1>3

-------------------------------------------------------------------------------
(* Everything else.                                                        *)

(* Plainly(t): t begins, goes on with or ends a call other than those.     *)
Plainly(t) ==
  /\ \/ UNCHANGED <<pc, want, mask, State, WatchStateMask, woken>>
     \/ \E label \in {"ev_defaults", "ev_flow", "write", "cq_state", "cq_used",
                      "cq_free", "cq_delta", "send_lock", "send_add", "send_dsr",
                      "deq_lock", "deq_get",
                      "idle", "wat_enter"} :
          Goto(t, label) /\ (t \in Sessions => label # "wat_enter")
  /\ \/ UNCHANGED <<want, mask>>
     \/ \E x, y : want' = [want EXCEPT ![t] = x] /\ mask' = [mask EXCEPT ![t] = y]
     \/ \E x : want' = [want EXCEPT ![t] = x] /\ UNCHANGED mask
     \/ \E y : mask' = [mask EXCEPT ![t] = y] /\ UNCHANGED want
  /\ \/ UNCHANGED <<State, WatchStateMask, woken>>
     \/ \E state, m : WritePortState(state, m) /\ "ACQUIRED" \notin m

LEMMA PlainWakeup ==
  ASSUME WakeInv, NEW t \in Threads, Plainly(t)
  PROVE  WakeupKept
<1> TypeOK
  BY DEF WakeInv, OwnerInv
<1>1. CASE UNCHANGED <<pc, want, mask, State, WatchStateMask, woken>>
  BY <1>1, StillKeeps
<1>2. Acquired' <=> Acquired
  BY WriteAcquired DEF Plainly, Acquired
<1>3. CASE \E label \in {"ev_defaults", "ev_flow", "write", "cq_state", "cq_used",
                         "cq_free", "cq_delta", "send_lock", "send_add", "send_dsr",
                         "deq_lock", "deq_get",
                         "idle", "wat_enter"} :
             Goto(t, label) /\ (t \in Sessions => label # "wat_enter")
  <2>1. PICK label \in {"ev_defaults", "ev_flow", "write", "cq_state", "cq_used",
                        "cq_free", "cq_delta", "send_lock", "send_add", "send_dsr",
                        "deq_lock", "deq_get",
                        "idle", "wat_enter"} :
          Moves(t, label) /\ (t \in Sessions => label # "wat_enter")
    BY <1>3, GotoMoves DEF Plainly
  <2>2. /\ label \notin {"wat_block", "rel_mask"}
        /\ t \in Sessions => label \notin Hoping
    BY <2>1 DEF Hoping, Waiting
  <2> QED
    BY <1>2, <2>1, <2>2, MoveKeeps DEF Plainly
<1> QED
  BY <1>1, <1>3 DEF Plainly

LEMMA SessionWakeup ==
  ASSUME WakeInv, NEW s \in Sessions,
         \/ \E arg \in SetArgs : SetState(s, arg)
         \/ Activate(s) \/ Deactivate(s) \/ LineBreak(s) \/ ActivateDefaults(s)
         \/ (\E flow \in FlowArgs : SetFlowControl(s, flow)) \/ StoreFlowControl(s)
  PROVE  WakeupKept
<1> s \in Threads
  BY ThreadRoles
<1>1. Plainly(s)
  BY DEF Plainly, SetState, Activate, Deactivate, LineBreak, ActivateDefaults,
         SetFlowControl, StoreFlowControl, Pend, portVars, localVars
<1> QED
  BY <1>1, PlainWakeup

LEMMA CheckWakeup ==
  ASSUME WakeInv, NEW t \in Threads, CheckStep(t)
  PROVE  WakeupKept
<1>1. CASE Write(t)
  <2>1. WritePortState(want[t], mask[t]) /\ "ACQUIRED" \notin mask[t]
    BY <1>1 DEF Write, WakeInv, OwnerInv, PendingOK
  <2>2. /\ want' = [want EXCEPT ![t] = {}] /\ mask' = [mask EXCEPT ![t] = {}]
        /\ \E label \in {"idle", "send_dsr"} : Goto(t, label)
    BY <1>1 DEF Write
  <2>3. Plainly(t)
    BY <2>1, <2>2 DEF Plainly
  <2> QED
    BY <2>3, PlainWakeup
<1>2. CASE CheckState(t) \/ CheckUsed(t) \/ CheckFree(t) \/ CheckDelta(t)
  <2>1. Plainly(t)
    BY <1>2 DEF Plainly, CheckState, CheckUsed, CheckFree, CheckDelta, portVars
  <2> QED
    BY <2>1, PlainWakeup
<1> QED
  BY <1>1, <1>2 DEF CheckStep

LEMMA CallerWakeup ==
  ASSUME WakeInv, NEW t \in Threads \ Sessions,
         \/ \E arg \in WatchArgs : WatchState(t, arg)
         \/ GetState(t)
         \/ \E msg \in Messages : SendData(t, msg)
         \/ SendStep(t)
         \/ \E max \in ReadSizes : DequeueData(t, max)
         \/ DequeueStep(t)
  PROVE  WakeupKept
<1>1. CASE SendReturn(t)
  <2>1. /\ WritePortState({"DSR"}, {"DSR"}) /\ "ACQUIRED" \notin {"DSR"}
        /\ Goto(t, "idle") /\ UNCHANGED <<want, mask>>
    BY <1>1 DEF SendReturn, localVars
  <2>2. Plainly(t)
    BY <2>1 DEF Plainly
  <2> QED
    BY <2>2, PlainWakeup
<1>2. CASE ~SendReturn(t)
  <2>1. Plainly(t)
    BY <1>2 DEF Plainly, WatchState, Pend, GetState, SendData, SendStep, SendLock, SendAdd,
                DequeueData, DequeueStep, DequeueLock, DequeueGet, DequeueDone, portVars, localVars
  <2> QED
    BY <2>1, PlainWakeup
<1> QED
  BY <1>1, <1>2

LEMMA NextWakeup ==
  ASSUME OpenMode = "quiescent"
  PROVE  WakeInv /\ [Next]_vars => WakeInv'
<1> SUFFICES ASSUME WakeInv, [Next]_vars PROVE WakeupKept
  BY NextOwner DEF WakeInv, WakeupKept
<1>1. CASE UNCHANGED vars
  BY <1>1, StillKeeps DEF vars, portVars, localVars
<1>2. CASE \E s \in Sessions : SessionCall(s) \/ SessionStep(s)
  BY <1>2, AcquireWakeup, ReleaseWakeup, SessionWakeup DEF SessionCall, SessionStep
<1>3. CASE \E t \in Threads : WatchStep(t) \/ CheckStep(t)
  BY <1>3, WatchWakeup, CheckWakeup
<1>4. CASE \/ \E w \in Watchers : \E arg \in WatchArgs : WatchState(w, arg)
           \/ \E p \in Pollers : GetState(p)
           \/ \E t \in Testers : \E msg \in Messages : SendData(t, msg)
           \/ \E t \in Testers : SendStep(t)
           \/ \E r \in Readers : \E max \in ReadSizes : DequeueData(r, max)
           \/ \E r \in Readers : DequeueStep(r)
  <2>1. Watchers \cup Pollers \cup Testers \cup Readers \subseteq Threads \ Sessions
    BY ThreadRoles, PortAssumption
  <2> QED
    BY <1>4, <2>1, CallerWakeup
<1> QED
  BY <1>1, <1>2, <1>3, <1>4 DEF Next

LEMMA InitWakeup == Init => WakeInv
<1> SUFFICES ASSUME Init PROVE WakeInv
  OBVIOUS
<1>1. \A t \in Threads : pc[t] = "idle"
  BY DEF Init
<1>2. Blocked = {}
  BY <1>1 DEF Blocked
<1> QED
  BY <1>1, <1>2, ThreadRoles, InitOwner
     DEF WakeInv, Midway, Roused, NoLostWakeup, Hoping, Waiting

(* When no call is in progress while the port is taken or given back, a    *)
(* thread blocked in watchState whose bits change has been woken since it  *)
(* blocked, whoever changed them and whoever cleared the shared mask; only *)
(* the bit that watchState itself sets escapes.                            *)
THEOREM WakeupsReach ==
  ASSUME OpenMode = "quiescent"
  PROVE  Spec => []NoLostWakeup
<1>1. WakeInv => NoLostWakeup
  BY DEF WakeInv
<1> QED
  BY <1>1, InitWakeup, NextWakeup, PTL DEF Spec

(* While nothing else is called as the port is taken or given back, every  *)
(* step that takes bits out of WatchStateMask leaves no thread asleep that *)
(* was not woken: releasePort clears the mask without a wake-up, but no    *)
(* thread has blocked since it cleared the state word.                     *)
THEOREM ClearedMaskWakes ==
  ASSUME OpenMode = "quiescent"
  PROVE  Spec => MaskChangeWakes
<1>1. ASSUME WakeInv, [Next]_vars, WatchStateMask \ WatchStateMask' # {}
      PROVE  Blocked' \subseteq woken'
  <2>1. CASE \E t \in Threads : WatchStep(t)
    <3>1. PICK t \in Threads : WatchStep(t)
      BY <2>1
    <3>2. ~Block(t)
      BY <1>1 DEF Block
    <3>3. \E label \in {"acq_read", "idle"} : LeaveWatch(t, label)
      BY <3>1, <3>2 DEF WatchStep, WatchEnter, WatchRestart, WatchBroken, WatchLoop
    <3>4. pc'[t] # "wat_block" /\ \A u \in Threads \ {t} : pc'[u] = pc[u]
      <4>1. PICK label \in {"acq_read", "idle"} : Goto(t, label)
        BY <3>3 DEF LeaveWatch
      <4> QED
        BY <1>1, <4>1 DEF Goto, WakeInv, OwnerInv, TypeOK
    <3>5. woken' = Blocked \ {t}
      BY <3>3 DEF LeaveWatch
    <3> QED
      BY <3>4, <3>5, BlockedNext DEF Blocked
  <2>2. CASE \E s \in Sessions : ReleaseReturn(s)
    <3>1. PICK s \in Sessions : ReleaseReturn(s)
      BY <2>2
    <3>2. pc[s] = "rel_mask" /\ Goto(s, "idle") /\ woken' = woken
      BY <3>1 DEF ReleaseReturn
    <3>3. \A u \in Threads : pc'[u] = "wat_block" => pc[u] = "wat_block"
      BY <1>1, <3>2, ThreadRoles DEF Goto, WakeInv, OwnerInv, TypeOK
    <3>4. Blocked \subseteq woken
      BY <1>1, <3>2 DEF WakeInv, Roused
    <3> QED
      BY <3>2, <3>3, <3>4, BlockedNext DEF Blocked
  <2>3. CASE /\ ~(\E t \in Threads : WatchStep(t))
             /\ ~(\E s \in Sessions : ReleaseReturn(s))
    <3>1. UNCHANGED WatchStateMask
      <4> USE DEF portVars
      <4>1. CASE UNCHANGED vars
        BY <4>1 DEF vars
      <4>2. CASE \E s \in Sessions : SessionCall(s)
        BY <4>2 DEF SessionCall, AcquirePort, ReleasePort, SetState, Activate, Deactivate,
                    LineBreak, SetFlowControl
      <4>3. CASE \E s \in Sessions : SessionStep(s)
        BY <2>3, <4>3
           DEF SessionStep, AcquireRead, AcquireWatch, AcquireSet, AcquireDefaults,
               AcquireResetQueue, AcquireReturn, ReleaseClear, ActivateDefaults,
               StoreFlowControl, WritePortState
      <4>4. CASE \E t \in Threads : CheckStep(t)
        BY <4>4 DEF CheckStep, CheckState, CheckUsed, CheckFree, CheckDelta, Write,
                    WritePortState
      <4>5. CASE \/ \E w \in Watchers : \E arg \in WatchArgs : WatchState(w, arg)
                 \/ \E p \in Pollers : GetState(p)
                 \/ \E t \in Testers : \E msg \in Messages : SendData(t, msg)
                 \/ \E t \in Testers : SendStep(t)
                 \/ \E r \in Readers : \E max \in ReadSizes : DequeueData(r, max)
                 \/ \E r \in Readers : DequeueStep(r)
        BY <4>5 DEF WatchState, GetState, SendData, SendStep, SendLock, SendAdd, SendReturn,
                    DequeueData, DequeueStep, DequeueLock, DequeueGet, DequeueDone, WritePortState
      <4> QED
        BY <1>1, <2>3, <4>1, <4>2, <4>3, <4>4, <4>5 DEF Next
    <3> QED
      BY <1>1, <3>1
  <2> QED
    BY <2>1, <2>2, <2>3
<1>2. WakeInv /\ [Next]_vars =>
        [WatchStateMask \ WatchStateMask' # {} => Blocked' \subseteq woken']_vars
  BY <1>1
<1> QED
  BY <1>2, InitWakeup, NextWakeup, PTL DEF Spec, MaskChangeWakes

===============================================================================
