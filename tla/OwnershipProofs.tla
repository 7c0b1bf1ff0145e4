---------------------------- MODULE OwnershipProofs ----------------------------
(***************************************************************************)
(* Proofs about who has the port and the references acquirePort holds, and *)
(* that the driver implements ExclusivePort, for any finite set of         *)
(* sessions and any other threads.                                         *)
(***************************************************************************)
EXTENDS VirtualSerialPortProofs, FiniteSetTheorems

-------------------------------------------------------------------------------
(* References.                                                             *)

Holders == {s \in Sessions : HoldsReference(s)}

(* A session that has the port is not getting it, and one that gives it    *)
(* back has it.                                                            *)
OpenedOK ==
  \A s \in Sessions :
    /\ s \in opened => pc[s] \notin Taking \cup Waiting
    /\ pc[s] \in Giving => s \in opened

RefInv == TypeOK /\ OpenedOK /\ NoOverRelease

LEMMA LabelsApart ==
  /\ "idle" \notin Taking \cup Waiting \cup Giving
  /\ Taking \cap Waiting = {} /\ Giving \cap (Taking \cup Waiting) = {}
  /\ \A label \in {"idle", "ev_defaults", "ev_flow", "write", "cq_state",
                   "cq_used", "cq_free", "cq_delta", "send_lock", "send_add",
                   "send_dsr", "deq_lock", "deq_get"} :
       label \notin Taking \cup Waiting \cup Giving
  BY DEF Taking, Waiting, Giving

LEMMA HoldersFinite ==
  /\ IsFiniteSet(Holders) /\ Cardinality(Holders) \in Nat
  /\ NoOverRelease <=> refs >= Cardinality(Holders)
  /\ RefsBalanced <=> refs = Cardinality(Holders)
<1>1. Holders \in SUBSET Sessions
  BY DEF Holders
<1>2. IsFiniteSet(Holders)
  BY <1>1, FiniteSessions, FS_Subset
<1> QED
  BY <1>2, FS_CardinalityType DEF NoOverRelease, RefsBalanced, Holders

LEMMA CountsNext ==
  /\ NoOverRelease' <=> refs' >= Cardinality(Holders')
  /\ RefsBalanced' <=> refs' = Cardinality(Holders')
  BY DEF NoOverRelease, RefsBalanced, Holders

(* A port somebody has open is marked busy when nobody gives it back.      *)
Marked == \A s \in opened : pc[s] = "idle" => "ACQUIRED" \in State

CountKept ==
  /\ OpenedOK' /\ NoOverRelease'
  /\ Marked /\ RefsBalanced => RefsBalanced'

(* The ways a step changes the holders and the count.                      *)
LEMMA Retained ==
  ASSUME RefInv, NEW s \in Sessions, Holders' = Holders \cup {s}, refs' = refs + 1
  PROVE  NoOverRelease' /\ (s \notin Holders /\ RefsBalanced => RefsBalanced')
<1>1. /\ Cardinality(Holders') =< Cardinality(Holders) + 1
      /\ s \notin Holders => Cardinality(Holders') = Cardinality(Holders) + 1
  BY HoldersFinite, FS_AddElement
<1>2. Cardinality(Holders') \in Nat
  <2>1. IsFiniteSet(Holders')
    BY HoldersFinite, FS_AddElement
  <2> QED
    BY <2>1, FS_CardinalityType
<1> QED
  BY <1>1, <1>2, HoldersFinite, CountsNext DEF RefInv, TypeOK

LEMMA Released ==
  ASSUME RefInv, NEW s \in Holders, Holders' = Holders \ {s}, refs' = refs - 1
  PROVE  NoOverRelease' /\ (RefsBalanced => RefsBalanced')
<1>1. Cardinality(Holders') = Cardinality(Holders) - 1
  BY HoldersFinite, FS_RemoveElement
<1> QED
  BY <1>1, HoldersFinite, CountsNext DEF RefInv, TypeOK

LEMMA Dropped ==
  ASSUME RefInv, Holders' \subseteq Holders, refs' = refs
  PROVE  NoOverRelease' /\ (Holders' = Holders /\ RefsBalanced => RefsBalanced')
<1>1. /\ Cardinality(Holders') =< Cardinality(Holders)
      /\ IsFiniteSet(Holders')
  BY HoldersFinite, FS_Subset
<1>2. Cardinality(Holders') \in Nat
  BY <1>1, FS_CardinalityType
<1> QED
  BY <1>1, <1>2, HoldersFinite, CountsNext DEF RefInv, TypeOK

(* A step of one thread that is none of these.                             *)
LEMMA PlainMove ==
  ASSUME RefInv, NEW t \in Threads, NEW label,
         Goto(t, label) \/ UNCHANGED pc,
         UNCHANGED <<opened, refs>>,
         t \in Sessions => /\ label \in Taking \cup Waiting <=> pc[t] \in Taking \cup Waiting
                           /\ label \in Giving => t \in opened
  PROVE  CountKept
<1> USE DEF CountKept
<1>1. \A s \in Sessions :
        /\ pc'[s] \in Taking \cup Waiting <=> pc[s] \in Taking \cup Waiting
        /\ pc'[s] \in Giving => s \in opened
  BY ThreadRoles DEF RefInv, OpenedOK, TypeOK, Goto
<1>2. OpenedOK'
  BY <1>1 DEF RefInv, OpenedOK
<1>3. Holders' = Holders
  BY <1>1 DEF Holders, HoldsReference
<1> QED
  BY <1>2, <1>3, Dropped

LEMMA CallReferences ==
  ASSUME RefInv, NEW s \in Sessions, SessionCall(s)
  PROVE  CountKept
<1> USE DEF CountKept
<1> s \in Threads
  BY ThreadRoles
<1>1. ASSUME NEW sleep \in BOOLEAN, AcquirePort(s, sleep)
      PROVE  CountKept
  <2>1. /\ pc[s] = "idle" /\ s \notin opened /\ refs' = refs + 1
        /\ UNCHANGED opened /\ Goto(s, "acq_read")
    BY <1>1 DEF AcquirePort, MayAcquire
  <2>2. pc'[s] = "acq_read" /\ \A u \in Sessions \ {s} : pc'[u] = pc[u]
    BY <2>1, ThreadRoles DEF RefInv, TypeOK, Goto
  <2>3. OpenedOK'
    BY <2>1, <2>2 DEF RefInv, OpenedOK, Giving
  <2>4. Holders' = Holders \cup {s} /\ s \notin Holders
    BY <2>1, <2>2, LabelsApart DEF Holders, HoldsReference, Taking
  <2> QED
    BY <2>1, <2>3, <2>4, Retained
<1>2. CASE ReleasePort(s)
  <2>1. CASE "ACQUIRED" \in State
    BY <1>2, <2>1, PlainMove, LabelsApart DEF ReleasePort, MayRelease, Giving
  <2>2. CASE "ACQUIRED" \notin State
    <3>1. opened' = opened \ {s} /\ UNCHANGED <<pc, refs>> /\ pc[s] = "idle"
      BY <1>2, <2>2 DEF ReleasePort, MayRelease
    <3>2. OpenedOK'
      BY <3>1, LabelsApart DEF RefInv, OpenedOK
    <3>3. Holders' \subseteq Holders
      BY <3>1 DEF Holders, HoldsReference
    <3>4. ~Marked
      BY <1>2, <2>2, <3>1 DEF ReleasePort, Marked
    <3> QED
      BY <3>1, <3>2, <3>3, <3>4, Dropped
  <2> QED
    BY <2>1, <2>2
<1>3. CASE \/ \E arg \in SetArgs : SetState(s, arg)
           \/ Activate(s) \/ Deactivate(s) \/ LineBreak(s)
           \/ \E flow \in FlowArgs : SetFlowControl(s, flow)
  <2>1. /\ pc[s] = "idle" /\ UNCHANGED <<opened, refs>>
        /\ Goto(s, "write") \/ Goto(s, "ev_defaults") \/ Goto(s, "ev_flow")
    BY <1>3 DEF SetState, Activate, Deactivate, LineBreak, SetFlowControl, Pend,
                MaySet, MayCall, openVars
  <2> QED
    BY <2>1, PlainMove, LabelsApart
<1> QED
  BY <1>1, <1>2, <1>3 DEF SessionCall

LEMMA StepReferences ==
  ASSUME RefInv, NEW s \in Sessions, SessionStep(s)
  PROVE  CountKept
<1> USE DEF CountKept
<1> s \in Threads
  BY ThreadRoles
<1> USE DEF openVars
<1>1. ASSUME pc[s] \in Taking \cup Waiting, Goto(s, "idle"),
             \/ refs' = refs - 1 /\ UNCHANGED opened
             \/ refs' = refs /\ opened' = opened \cup {s}
      PROVE  CountKept
  <2>1. pc'[s] = "idle" /\ \A u \in Sessions \ {s} : pc'[u] = pc[u]
    BY <1>1, ThreadRoles DEF RefInv, TypeOK, Goto
  <2>2. OpenedOK'
    BY <1>1, <2>1, LabelsApart DEF RefInv, OpenedOK
  <2>3. s \in Holders /\ s \notin opened
    BY <1>1 DEF Holders, HoldsReference, RefInv, OpenedOK
  <2>4. CASE refs' = refs - 1 /\ UNCHANGED opened
    <3>1. Holders' = Holders \ {s}
      BY <2>1, <2>3, <2>4, LabelsApart DEF Holders, HoldsReference
    <3> QED
      BY <2>2, <2>3, <2>4, <3>1, Released
  <2>5. CASE refs' = refs /\ opened' = opened \cup {s}
    <3>1. Holders' = Holders
      BY <2>1, <2>3, <2>5, LabelsApart DEF Holders, HoldsReference
    <3> QED
      BY <2>2, <2>5, <3>1, Dropped
  <2> QED
    BY <1>1, <2>4, <2>5
<1>2. CASE AcquireRead(s)
  <2>1. /\ pc[s] \in Taking /\ UNCHANGED opened
        /\ \/ refs' = refs /\ (Goto(s, "acq_set") \/ Goto(s, "wat_check"))
           \/ refs' = refs - 1 /\ Goto(s, "idle")
    BY <1>2 DEF AcquireRead, AcquireFails, Taking
  <2> QED
    BY <1>1, <2>1, PlainMove, LabelsApart DEF Taking, Waiting
<1>3. CASE AcquireWatch(s)
  <2>1. /\ pc[s] \in Waiting /\ UNCHANGED opened
        /\ \/ refs' = refs /\ Goto(s, "wat_enter")
           \/ refs' = refs - 1 /\ Goto(s, "idle")
    BY <1>3 DEF AcquireWatch, AcquireFails, Waiting
  <2> QED
    BY <1>1, <2>1, PlainMove, LabelsApart DEF Waiting
<1>4. CASE AcquireSet(s) \/ AcquireDefaults(s) \/ AcquireResetQueue(s)
  <2>1. /\ pc[s] \in Taking /\ UNCHANGED <<opened, refs>>
        /\ \E label \in Taking : Goto(s, label)
    BY <1>4 DEF AcquireSet, AcquireDefaults, AcquireResetQueue, Taking
  <2> QED
    BY <2>1, PlainMove, LabelsApart
<1>5. CASE AcquireReturn(s)
  BY <1>1, <1>5 DEF AcquireReturn, Taking
<1>6. CASE ReleaseClear(s)
  BY <1>6, PlainMove, LabelsApart DEF ReleaseClear, Giving, RefInv, OpenedOK
<1>7. CASE ReleaseReturn(s)
  <2>1. /\ pc[s] \in Giving /\ refs' = refs - 1 /\ opened' = opened \ {s}
        /\ Goto(s, "idle")
    BY <1>7 DEF ReleaseReturn, Giving
  <2>2. pc'[s] = "idle" /\ \A u \in Sessions \ {s} : pc'[u] = pc[u]
    BY <2>1, ThreadRoles DEF RefInv, TypeOK, Goto
  <2>3. OpenedOK'
    BY <2>1, <2>2, LabelsApart DEF RefInv, OpenedOK
  <2>4. s \in Holders /\ Holders' = Holders \ {s}
    BY <2>1, <2>2, LabelsApart DEF Holders, HoldsReference, RefInv, OpenedOK
  <2> QED
    BY <2>1, <2>3, <2>4, Released
<1>8. CASE ActivateDefaults(s)
  BY <1>8, PlainMove, LabelsApart DEF ActivateDefaults
<1>9. CASE StoreFlowControl(s)
  BY <1>9, PlainMove, LabelsApart DEF StoreFlowControl, Pend
<1> QED
  BY <1>2, <1>3, <1>4, <1>5, <1>6, <1>7, <1>8, <1>9 DEF SessionStep

LEMMA WatchReferences ==
  ASSUME RefInv, NEW t \in Threads, WatchStep(t)
  PROVE  CountKept
<1> USE DEF CountKept
<1>1. CASE WatchEnter(t) \/ WatchRestart(t)
  <2>1. /\ pc[t] \in Waiting /\ UNCHANGED <<opened, refs>>
        /\ \E label : /\ Goto(t, label)
                      /\ t \in Sessions => label \in {"acq_read", "wat_block"}
    BY <1>1 DEF WatchEnter, WatchRestart, WatchLoop, LeaveWatch, Block, Waiting,
                openVars
  <2> QED
    BY <2>1, PlainMove, LabelsApart DEF Taking, Waiting
<1>2. CASE WatchBroken(t)
  <2>1. pc[t] \in Waiting /\ Goto(t, "idle") /\ UNCHANGED opened
    BY <1>2 DEF WatchBroken, LeaveWatch, Waiting
  <2>2. CASE t \notin Sessions
    <3>1. UNCHANGED refs
      BY <1>2, <2>2 DEF WatchBroken
    <3> QED
      BY <2>1, <2>2, <3>1, PlainMove
  <2>3. CASE t \in Sessions
    <3>1. refs' = refs - 1
      BY <1>2, <2>3 DEF WatchBroken
    <3>2. pc'[t] = "idle" /\ \A u \in Sessions \ {t} : pc'[u] = pc[u]
      BY <2>1, ThreadRoles DEF RefInv, TypeOK, Goto
    <3>3. OpenedOK'
      BY <2>1, <3>2, LabelsApart DEF RefInv, OpenedOK
    <3>4. t \in Holders /\ Holders' = Holders \ {t}
      BY <2>1, <2>3, <3>2, LabelsApart
         DEF Holders, HoldsReference, RefInv, OpenedOK
    <3> QED
      BY <3>1, <3>3, <3>4, Released
  <2> QED
    BY <2>2, <2>3
<1> QED
  BY <1>1, <1>2 DEF WatchStep

LEMMA CheckReferences ==
  ASSUME RefInv, NEW t \in Threads, CheckStep(t)
  PROVE  CountKept
<1> USE DEF CountKept
<1>1. /\ UNCHANGED <<opened, refs>>
      /\ pc[t] \in {"cq_state", "cq_used", "cq_free", "cq_delta", "write"}
      /\ \E label \in {"cq_used", "cq_free", "cq_delta", "write", "idle", "send_dsr"} :
           Goto(t, label)
  BY DEF CheckStep, CheckState, CheckUsed, CheckFree, CheckDelta, Write, openVars
<1> QED
  BY <1>1, PlainMove, LabelsApart

(* The threads that are not sessions.                                      *)
LEMMA OtherReferences ==
  ASSUME RefInv, NEW t \in Threads, t \notin Sessions,
         (\E label : Goto(t, label)) \/ UNCHANGED pc,
         UNCHANGED <<opened, refs>>
  PROVE  CountKept
  BY PlainMove

LEMMA NextReferences ==
  RefInv /\ [Next]_vars =>
    RefInv' /\ (Marked /\ RefsBalanced => RefsBalanced')
<1> SUFFICES ASSUME RefInv, [Next]_vars PROVE CountKept
  BY NextType DEF RefInv, CountKept
<1> USE DEF CountKept
<1> USE DEF openVars
<1>1. CASE UNCHANGED vars
  BY <1>1, Dropped DEF vars, RefInv, OpenedOK, Holders, HoldsReference
<1>2. ASSUME NEW t \in Watchers \cup Pollers,
             (\E arg \in WatchArgs : WatchState(t, arg)) \/ GetState(t)
      PROVE  CountKept
  <2>1. t \in Threads /\ t \notin Sessions
    BY ThreadRoles, PortAssumption
  <2>2. UNCHANGED <<opened, refs>> /\ \E label : Goto(t, label)
    BY <1>2 DEF WatchState, GetState, Pend
  <2> QED
    BY <2>1, <2>2, OtherReferences
<1>3. ASSUME NEW t \in Testers,
             (\E msg \in Messages : SendData(t, msg)) \/ SendStep(t)
      PROVE  CountKept
  <2>1. t \in Threads /\ t \notin Sessions
    BY ThreadRoles, RolesApart
  <2>2. UNCHANGED <<opened, refs>> /\ ((\E label : Goto(t, label)) \/ UNCHANGED pc)
    BY <1>3 DEF SendData, SendStep, SendLock, SendAdd, SendReturn
  <2> QED
    BY <2>1, <2>2, OtherReferences
<1>4. ASSUME NEW r \in Readers,
             (\E max \in ReadSizes : DequeueData(r, max)) \/ DequeueStep(r)
      PROVE  CountKept
  <2>1. r \in Threads /\ r \notin Sessions
    BY ThreadRoles, RolesApart
  <2>2. UNCHANGED <<opened, refs>> /\ ((\E label : Goto(r, label)) \/ UNCHANGED pc)
    BY <1>4 DEF DequeueData, DequeueStep, DequeueLock, DequeueGet, DequeueDone
  <2> QED
    BY <2>1, <2>2, OtherReferences
<1>5. CASE Next
  BY <1>2, <1>3, <1>4, <1>5, CallReferences, StepReferences, WatchReferences,
     CheckReferences DEF Next
<1> QED
  BY <1>1, <1>5

LEMMA InitReferences == Init => RefInv /\ RefsBalanced
<1> SUFFICES ASSUME Init PROVE RefInv /\ RefsBalanced
  OBVIOUS
<1>1. OpenedOK
  BY LabelsApart, ThreadRoles DEF Init, OpenedOK
<1>2. Holders = {} /\ refs = 0
  BY LabelsApart, ThreadRoles DEF Init, Holders, HoldsReference
<1>3. NoOverRelease /\ RefsBalanced
  BY <1>2, HoldersFinite, FS_EmptySet
<1> QED
  BY <1>1, <1>3, InitType DEF RefInv

(* However the calls overlap, the driver has been retained at least as     *)
(* often as there are sessions that count on it: no interleaving of        *)
(* acquirePort, its failures, watchState and releasePort releases it twice *)
(* for one session.                                                        *)
THEOREM NeverOverReleased == Spec => []NoOverRelease
<1>1. RefInv => NoOverRelease
  BY DEF RefInv
<1> QED
  BY <1>1, InitReferences, NextReferences, PTL DEF Spec

-------------------------------------------------------------------------------
(* Who has the port, when nothing else is called while it is taken or      *)
(* given back.                                                             *)

Acquired == "ACQUIRED" \in State

AtRest(t) == pc[t] = "idle"

SessionsOK ==
  \A s \in Sessions :
    /\ pc[s] \in {"idle", "ev_defaults", "ev_flow", "write"}
               \cup Taking \cup Waiting \cup Giving
    /\ s \in opened => pc[s] \notin Taking \cup Waiting
    /\ pc[s] \in {"ev_defaults", "ev_flow", "write"} \cup Giving => s \in opened
    /\ pc[s] \notin {"ev_defaults", "ev_flow", "write"} => want[s] = {}
    /\ pc[s] \in {"wat_enter", "wat_block"} => mask[s] = {"ACQUIRED"}
    /\ pc[s] = "acq_set" => ~Acquired

(* While a session takes the port, waits for a free one or gives it back,  *)
(* what the other threads are doing.                                       *)
Leaving(t)  == AtRest(t) \/ (t \in Sessions /\ pc[t] = "rel_mask")
Standby(t)  == AtRest(t) \/ (t \in Sessions /\ pc[t] \in Waiting)
Arriving(t) == AtRest(t) \/ (t \in Sessions /\ pc[t] \in Waiting \cup Taking)

Undisturbed ==
  \A s \in Sessions : \A t \in Threads \ {s} :
    /\ pc[s] \in Taking => Leaving(t)
    /\ pc[s] \in Waiting /\ t \in Sessions => pc[t] \notin Taking \cup Waiting
    /\ pc[s] \in Waiting /\ ~Acquired => Leaving(t)
    /\ pc[s] = "rel_write" => Standby(t)
    /\ pc[s] = "rel_mask" => Arriving(t)

(* No pending write of the state word touches the busy bit.                *)
PendingOK ==
  \A t \in Threads :
    /\ pc[t] \in {"cq_used", "cq_free", "cq_delta"} => ("ACQUIRED" \in want[t] <=> Acquired)
    /\ pc[t] \in {"write", "ev_defaults"} => "ACQUIRED" \notin mask[t]

OwnerInv == TypeOK /\ SessionsOK /\ Undisturbed /\ PendingOK /\ ExclusiveOwner

(* Only t moves.                                                           *)
Moves(t, label) ==
  /\ pc'[t] = label
  /\ \A u \in Threads \ {t} :
       pc'[u] = pc[u] /\ want'[u] = want[u] /\ mask'[u] = mask[u]

LEMMA GotoMoves ==
  ASSUME TypeOK, NEW t \in Threads, NEW label, Goto(t, label),
         \/ UNCHANGED <<want, mask>>
         \/ \E x, y : want' = [want EXCEPT ![t] = x] /\ mask' = [mask EXCEPT ![t] = y]
         \/ \E x : want' = [want EXCEPT ![t] = x] /\ UNCHANGED mask
         \/ \E y : mask' = [mask EXCEPT ![t] = y] /\ UNCHANGED want
  PROVE  Moves(t, label)
  BY DEF TypeOK, Goto, Moves

LEMMA WriteAcquired ==
  ASSUME NEW state, NEW m, WritePortState(state, m)
  PROVE  Acquired' <=> IF "ACQUIRED" \in m THEN "ACQUIRED" \in state ELSE Acquired
  BY DEF WritePortState, Acquired

LEMMA OwnersKept ==
  ASSUME ExclusiveOwner, Acquired' <=> Acquired,
         \A u \in Sessions : Owns(u)' <=> Owns(u)
  PROVE  ExclusiveOwner'
  BY DEF ExclusiveOwner, Acquired

LEMMA PendingKept ==
  ASSUME OwnerInv, NEW t \in Threads, NEW label, Moves(t, label), Acquired' <=> Acquired,
         label \in {"cq_used", "cq_free", "cq_delta"} => ("ACQUIRED" \in want'[t] <=> Acquired),
         label \in {"write", "ev_defaults"} => "ACQUIRED" \notin mask'[t]
  PROVE  PendingOK'
  BY DEF OwnerInv, PendingOK, Moves

(* A thread that is no session begins, goes on with or ends a call.        *)
LEMMA OthersMove ==
  ASSUME OwnerInv, OpenMode = "quiescent", NEW t \in Threads \ Sessions, NEW label,
         Moves(t, label), pc[t] # "idle" \/ MayCall(t),
         UNCHANGED opened, Acquired' <=> Acquired
  PROVE  SessionsOK' /\ Undisturbed' /\ ExclusiveOwner'
<1>1. \A s \in Sessions : /\ s \in Threads /\ s # t
                          /\ pc'[s] = pc[s] /\ want'[s] = want[s] /\ mask'[s] = mask[s]
  BY ThreadRoles DEF Moves
<1>2. SessionsOK'
  BY <1>1 DEF OwnerInv, SessionsOK
<1>3. \A s \in Sessions : /\ pc[s] \notin Taking \cup Giving
                          /\ pc[s] \in Waiting => Acquired
  <2>1. CASE MayCall(t)
    BY <2>1 DEF MayCall, Acquired
  <2>2. CASE pc[t] # "idle"
    BY <1>1, <2>2 DEF OwnerInv, Undisturbed, Leaving, Standby, Arriving, AtRest, Giving
  <2> QED
    BY <2>1, <2>2
<1>4. Undisturbed'
  <2> SUFFICES ASSUME NEW u \in Sessions, NEW v \in Threads \ {u}
               PROVE  /\ pc'[u] \in Taking => Leaving(v)'
                      /\ pc'[u] \in Waiting /\ v \in Sessions => pc'[v] \notin Taking \cup Waiting
                      /\ pc'[u] \in Waiting /\ ~Acquired' => Leaving(v)'
                      /\ pc'[u] = "rel_write" => Standby(v)'
                      /\ pc'[u] = "rel_mask" => Arriving(v)'
    BY DEF Undisturbed
  <2>1. pc'[u] \notin Taking \cup Giving /\ (pc'[u] \in Waiting => Acquired')
    BY <1>1, <1>3
  <2>2. pc'[u] \in Waiting /\ v \in Sessions => pc'[v] \notin Taking \cup Waiting
    BY <1>1 DEF OwnerInv, Undisturbed
  <2> QED
    BY <2>1, <2>2 DEF Giving
<1>5. \A u \in Sessions : Owns(u)' <=> Owns(u)
  BY <1>1 DEF Owns
<1> QED
  BY <1>2, <1>4, <1>5, OwnersKept DEF OwnerInv

(* A session that has the port calls setState or executeEvent.             *)
LEMMA OwnerMoves ==
  ASSUME OwnerInv, OpenMode = "quiescent", NEW s \in Sessions, NEW label,
         Moves(s, label),
         pc[s] \in {"ev_defaults", "ev_flow", "write"} \/ MaySet(s),
         label \in {"idle", "ev_defaults", "ev_flow", "write"},
         label = "idle" => want'[s] = {},
         UNCHANGED opened, Acquired' <=> Acquired
  PROVE  SessionsOK' /\ Undisturbed' /\ ExclusiveOwner'
<1> s \in Threads
  BY ThreadRoles
<1>1. \A u \in Sessions \ {s} :
        /\ u \in Threads
        /\ pc'[u] = pc[u] /\ want'[u] = want[u] /\ mask'[u] = mask[u]
  BY ThreadRoles DEF Moves
<1>2. /\ pc'[s] = label /\ s \in opened
      /\ pc[s] \in {"idle", "ev_defaults", "ev_flow", "write"}
  BY DEF Moves, MaySet, MayCall, OwnerInv, SessionsOK
<1>3. SessionsOK'
  BY <1>1, <1>2, LabelsApart DEF OwnerInv, SessionsOK, Taking, Waiting
<1>4. \A u \in Sessions \ {s} : /\ pc[u] \notin Taking \cup Giving
                                /\ pc[u] \in Waiting => Acquired
  <2>1. CASE MaySet(s)
    BY <2>1 DEF MaySet, MayCall, Acquired
  <2>2. CASE pc[s] \in {"ev_defaults", "ev_flow", "write"}
    BY <1>1, <2>2 DEF OwnerInv, Undisturbed, Leaving, Standby, Arriving, AtRest,
                      Giving, Waiting, Taking
  <2> QED
    BY <2>1, <2>2
<1>5. Undisturbed'
  <2> SUFFICES ASSUME NEW u \in Sessions, NEW t \in Threads \ {u}
               PROVE  /\ pc'[u] \in Taking => Leaving(t)'
                      /\ pc'[u] \in Waiting /\ t \in Sessions => pc'[t] \notin Taking \cup Waiting
                      /\ pc'[u] \in Waiting /\ ~Acquired' => Leaving(t)'
                      /\ pc'[u] = "rel_write" => Standby(t)'
                      /\ pc'[u] = "rel_mask" => Arriving(t)'
    BY DEF Undisturbed
  <2>1. CASE u = s
    BY <1>2, <2>1, LabelsApart DEF Giving
  <2>2. CASE u # s
    <3>1. pc'[u] \notin Taking \cup Giving /\ (pc'[u] \in Waiting => Acquired')
      BY <1>1, <1>4, <2>2
    <3>2. pc'[u] \in Waiting /\ t \in Sessions => pc'[t] \notin Taking \cup Waiting
      BY <1>1, <1>2, <2>2, LabelsApart DEF OwnerInv, Undisturbed
    <3> QED
      BY <3>1, <3>2 DEF Giving
  <2> QED
    BY <2>1, <2>2
<1>6. \A u \in Sessions : Owns(u)' <=> Owns(u)
  BY <1>1, <1>2, LabelsApart DEF Owns, Taking
<1> QED
  BY <1>3, <1>5, <1>6, OwnersKept DEF OwnerInv

(* A session on its way to the port, or giving up: nobody else takes or    *)
(* waits for the port, and nobody uses it while this one takes it.         *)
LEMMA TakerAlone ==
  ASSUME OwnerInv, NEW s \in Sessions, pc[s] \in Taking \cup Waiting
  PROVE  /\ \A u \in Sessions \ {s} : pc[u] \notin Taking \cup Waiting
         /\ pc[s] \in Taking \/ ~Acquired => \A t \in Threads \ {s} : Leaving(t)
<1>1. \A u \in Sessions \ {s} : u \in Threads
  BY ThreadRoles
<1>2. CASE pc[s] \in Taking
  <2>1. \A t \in Threads \ {s} : Leaving(t)
    BY <1>2 DEF OwnerInv, Undisturbed
  <2> QED
    BY <1>1, <2>1, LabelsApart DEF Leaving, AtRest, Giving
<1>3. CASE pc[s] \in Waiting
  BY <1>1, <1>3, LabelsApart DEF OwnerInv, Undisturbed
<1> QED
  BY <1>2, <1>3

LEMMA TakerMoves ==
  ASSUME OwnerInv, NEW s \in Sessions, NEW label, Moves(s, label),
         pc[s] \in Taking \cup Waiting, label \in {"idle"} \cup Taking \cup Waiting,
         label \in Waiting => Acquired',
         label \in Taking /\ pc[s] \in Waiting => ~Acquired,
         (Acquired' <=> Acquired) \/ pc[s] \in Taking
  PROVE  Undisturbed'
<1> s \in Threads
  BY ThreadRoles
<1>1. /\ pc'[s] = label
      /\ \A t \in Threads \ {s} : pc'[t] = pc[t]
  BY DEF Moves
<1>2. \A u \in Sessions \ {s} : u \in Threads /\ pc[u] \notin Taking \cup Waiting
  BY TakerAlone, ThreadRoles
<1>3. pc[s] \in Taking \/ ~Acquired => \A t \in Threads \ {s} : Leaving(t)
  BY TakerAlone
<1>4. Undisturbed'
  <2> SUFFICES ASSUME NEW u \in Sessions, NEW v \in Threads \ {u}
               PROVE  /\ pc'[u] \in Taking => Leaving(v)'
                      /\ pc'[u] \in Waiting /\ v \in Sessions => pc'[v] \notin Taking \cup Waiting
                      /\ pc'[u] \in Waiting /\ ~Acquired' => Leaving(v)'
                      /\ pc'[u] = "rel_write" => Standby(v)'
                      /\ pc'[u] = "rel_mask" => Arriving(v)'
    BY DEF Undisturbed
  <2>1. CASE u = s
    <3>1. pc'[u] \notin Giving
      BY <1>1, <2>1, LabelsApart
    <3>2. pc'[u] \in Taking => pc[s] \in Taking \/ ~Acquired
      BY <1>1, <2>1
    <3>3. pc'[u] \in Taking => Leaving(v)'
      BY <1>1, <1>3, <2>1, <3>2 DEF Leaving, AtRest
    <3>4. v \in Sessions => pc'[v] \notin Taking \cup Waiting
      BY <1>1, <1>2, <2>1
    <3> QED
      BY <1>1, <2>1, <3>1, <3>3, <3>4 DEF Giving
  <2>2. CASE u # s
    <3>1. pc'[u] = pc[u] /\ pc'[u] \notin Taking \cup Waiting
      BY <1>1, <1>2, <2>2
    <3>2. pc'[u] = "rel_write" => Standby(v)'
      <4>1. CASE v # s
        BY <1>1, <3>1, <4>1 DEF OwnerInv, Undisturbed, Standby, AtRest
      <4>2. CASE v = s /\ pc[u] = "rel_write"
        <5>1. Owns(u)
          BY <4>2, LabelsApart DEF OwnerInv, SessionsOK, Owns, Giving
        <5>2. Acquired
          BY <5>1 DEF OwnerInv, ExclusiveOwner, Acquired
        <5>3. pc[s] \notin Taking
          BY <1>2, <1>3, <2>2, <4>2 DEF Leaving, AtRest
        <5> QED
          BY <1>1, <4>2, <5>2, <5>3 DEF Standby, AtRest
      <4> QED
        BY <3>1, <4>1, <4>2
    <3>3. pc'[u] = "rel_mask" => Arriving(v)'
      <4>1. CASE v # s
        BY <1>1, <3>1, <4>1 DEF OwnerInv, Undisturbed, Arriving, AtRest
      <4>2. CASE v = s
        BY <1>1, <4>2 DEF Arriving, AtRest
      <4> QED
        BY <4>1, <4>2
    <3> QED
      BY <3>1, <3>2, <3>3
  <2> QED
    BY <2>1, <2>2
<1> QED
  BY <1>4

LEMMA TakerSessions ==
  ASSUME OwnerInv, NEW s \in Sessions, NEW label, Moves(s, label),
         pc[s] \in Taking \cup Waiting, label \in {"idle"} \cup Taking \cup Waiting,
         want'[s] = {}, label \in {"wat_enter", "wat_block"} => mask'[s] = {"ACQUIRED"},
         label = "acq_set" => ~Acquired',
         opened' = opened \/ (label = "idle" /\ opened' = opened \cup {s})
  PROVE  SessionsOK'
<1>1. \A u \in Sessions \ {s} :
        /\ pc'[u] = pc[u] /\ want'[u] = want[u] /\ mask'[u] = mask[u]
        /\ u \in opened' <=> u \in opened
        /\ pc[u] # "acq_set"
  BY TakerAlone, ThreadRoles DEF Moves, Taking
<1>2. pc'[s] = label /\ s \notin opened
  BY DEF Moves, OwnerInv, SessionsOK
<1> QED
  BY <1>1, <1>2, LabelsApart DEF OwnerInv, SessionsOK

(* The steps of acquirePort that leave the busy bit and the owner alone.   *)
LEMMA TakerKeeps ==
  ASSUME OwnerInv, NEW s \in Sessions, NEW label, Moves(s, label),
         pc[s] \in Taking \cup Waiting, label \in {"idle"} \cup Taking \cup Waiting,
         label \in Waiting => Acquired,
         label \in Taking /\ pc[s] \in Waiting => ~Acquired,
         want'[s] = {}, label \in {"wat_enter", "wat_block"} => mask'[s] = {"ACQUIRED"},
         label = "acq_set" => ~Acquired,
         Acquired' <=> Acquired,
         opened' = opened \/ (label = "idle" /\ opened' = opened \cup {s}),
         Owns(s)' <=> Owns(s)
  PROVE  SessionsOK' /\ Undisturbed' /\ PendingOK' /\ ExclusiveOwner'
<1> s \in Threads
  BY ThreadRoles
<1>1. SessionsOK' /\ Undisturbed'
  BY TakerSessions, TakerMoves
<1>2. PendingOK'
  BY PendingKept, LabelsApart
<1>3. \A u \in Sessions \ {s} : Owns(u)' <=> Owns(u)
  BY ThreadRoles DEF Moves, Owns
<1> QED
  BY <1>1, <1>2, <1>3, OwnersKept DEF OwnerInv

LEMMA AcquireOwner ==
  ASSUME OwnerInv, OpenMode = "quiescent", NEW s \in Sessions,
         \/ \E sleep \in BOOLEAN : AcquirePort(s, sleep)
         \/ AcquireRead(s) \/ AcquireWatch(s) \/ AcquireSet(s)
         \/ AcquireDefaults(s) \/ AcquireResetQueue(s) \/ AcquireReturn(s)
  PROVE  SessionsOK' /\ Undisturbed' /\ PendingOK' /\ ExclusiveOwner'
<1> s \in Threads /\ TypeOK
  BY ThreadRoles DEF OwnerInv
<1> USE DEF portVars, localVars
<1>0. pc[s] \in Taking \cup Waiting => s \notin opened /\ want[s] = {}
  BY LabelsApart DEF OwnerInv, SessionsOK
<1>1. ASSUME NEW sleep \in BOOLEAN, AcquirePort(s, sleep)
      PROVE  SessionsOK' /\ Undisturbed' /\ PendingOK' /\ ExclusiveOwner'
  <2>1. /\ \A t \in Threads : pc[t] = "idle"
        /\ s \notin opened /\ UNCHANGED <<opened, want, mask, State>>
        /\ Goto(s, "acq_read")
    BY <1>1 DEF AcquirePort, MayAcquire
  <2>2. Moves(s, "acq_read")
    BY <2>1, GotoMoves
  <2>3. /\ pc'[s] = "acq_read"
        /\ \A t \in Threads \ {s} : pc'[t] = "idle"
    BY <2>1, <2>2 DEF Moves
  <2>4. SessionsOK'
    BY <2>1, <2>3, ThreadRoles, LabelsApart DEF OwnerInv, SessionsOK, Taking
  <2>5. Undisturbed'
    BY <2>3, ThreadRoles, LabelsApart
       DEF Undisturbed, Leaving, Standby, Arriving, AtRest, Taking
  <2>6. PendingOK'
    BY <2>1, <2>2, PendingKept DEF Acquired
  <2>7. \A u \in Sessions : Owns(u)' <=> Owns(u)
    BY <2>1, <2>3, ThreadRoles, LabelsApart DEF Owns
  <2> QED
    BY <2>1, <2>4, <2>5, <2>6, <2>7, OwnersKept DEF OwnerInv, Acquired
<1>2. CASE AcquireRead(s)
  <2>1. /\ pc[s] = "acq_read" /\ UNCHANGED <<opened, want, mask, State>>
        /\ \E label : /\ Goto(s, label)
                      /\ \/ label = "acq_set" /\ ~Acquired
                         \/ label = "idle"
                         \/ label = "wat_check" /\ Acquired
    BY <1>2 DEF AcquireRead, AcquireFails, Acquired
  <2>2. PICK label : /\ Moves(s, label)
                     /\ \/ label = "acq_set" /\ ~Acquired
                        \/ label = "idle"
                        \/ label = "wat_check" /\ Acquired
    BY <2>1, GotoMoves
  <2>3. Owns(s)' <=> Owns(s)
    BY <1>0, <2>1, <2>2, LabelsApart DEF Owns, Moves, Taking, Waiting
  <2>4. /\ pc[s] \in Taking /\ label \in {"idle"} \cup Taking \cup Waiting
        /\ label \in Waiting => Acquired
        /\ label \notin {"wat_enter", "wat_block"} /\ want'[s] = {}
        /\ (Acquired' <=> Acquired) /\ pc[s] \notin Waiting
        /\ label = "acq_set" => ~Acquired
    BY <1>0, <2>1, <2>2, LabelsApart DEF Taking, Waiting, Acquired
  <2> QED
    BY <2>1, <2>2, <2>3, <2>4, TakerKeeps
<1>3. CASE AcquireWatch(s)
  <2>1. /\ pc[s] = "wat_check" /\ UNCHANGED <<opened, want, State>>
        /\ \/ /\ Acquired /\ Goto(s, "wat_enter")
              /\ mask' = [mask EXCEPT ![s] = {"ACQUIRED"}]
           \/ Goto(s, "idle") /\ UNCHANGED mask
    BY <1>3 DEF AcquireWatch, AcquireFails, Acquired
  <2>2. PICK label : /\ Moves(s, label)
                     /\ \/ label = "wat_enter" /\ Acquired /\ mask'[s] = {"ACQUIRED"}
                        \/ label = "idle"
    BY <2>1, GotoMoves DEF TypeOK
  <2>3. Owns(s)' <=> Owns(s)
    BY <1>0, <2>1, <2>2, LabelsApart DEF Owns, Moves, Taking, Waiting
  <2>4. /\ pc[s] \in Waiting /\ label \in {"idle"} \cup Taking \cup Waiting
        /\ label \notin Taking /\ label # "acq_set" /\ want'[s] = {}
        /\ label \in Waiting => Acquired
        /\ label \in {"wat_enter", "wat_block"} => mask'[s] = {"ACQUIRED"}
        /\ Acquired' <=> Acquired
    BY <1>0, <2>1, <2>2, LabelsApart DEF Taking, Waiting, Acquired
  <2> QED
    BY <2>1, <2>2, <2>3, <2>4, TakerKeeps
<1>4. CASE AcquireSet(s)
  <2>1. /\ pc[s] = "acq_set" /\ UNCHANGED <<opened, want, mask>>
        /\ Goto(s, "acq_defaults")
        /\ WritePortState({"ACQUIRED"} \cup DEFAULT_STATE, STATE_ALL)
    BY <1>4 DEF AcquireSet, openVars
  <2>2. Moves(s, "acq_defaults") /\ Acquired' /\ ~Acquired
    BY <2>1, GotoMoves, WriteAcquired, Bits DEF OwnerInv, SessionsOK
  <2>3. pc[s] \in Taking /\ "acq_defaults" \in Taking /\ want'[s] = {}
    BY <1>0, <2>1 DEF Taking
  <2>4. SessionsOK' /\ Undisturbed'
    BY <2>1, <2>2, <2>3, TakerSessions, TakerMoves, LabelsApart DEF Waiting
  <2>5. /\ pc'[s] = "acq_defaults"
        /\ \A t \in Threads \ {s} : pc'[t] \in {"idle", "rel_mask"}
    BY <2>2, <2>3, TakerAlone DEF Moves, Leaving, AtRest
  <2>6. PendingOK'
    BY <2>5 DEF PendingOK
  <2>7. \A u \in Sessions : ~Owns(u)
    BY <2>2 DEF OwnerInv, ExclusiveOwner, Acquired
  <2>8. \A u \in Sessions : Owns(u)' <=> u = s
    <3>1. Owns(s)'
      BY <2>5 DEF Owns, Taking
    <3>2. ASSUME NEW u \in Sessions, u # s PROVE ~Owns(u)'
      <4>1. pc'[u] = pc[u] /\ ~Owns(u)
        BY <2>2, <2>7, <3>2, ThreadRoles DEF Moves
      <4> QED
        BY <2>1, <4>1 DEF Owns
    <3> QED
      BY <3>1, <3>2
  <2> QED
    BY <2>2, <2>4, <2>6, <2>8 DEF ExclusiveOwner, Acquired
<1>5. CASE AcquireDefaults(s) \/ AcquireResetQueue(s)
  <2>1. /\ pc[s] \in Taking \ {"acq_read", "acq_set"}
        /\ UNCHANGED <<opened, want, mask, State>>
        /\ \E label \in Taking \ {"acq_read", "acq_set"} : Goto(s, label)
    BY <1>5 DEF AcquireDefaults, AcquireResetQueue, Taking, openVars
  <2>2. PICK label \in Taking \ {"acq_read", "acq_set"} : Moves(s, label)
    BY <2>1, GotoMoves
  <2>3. Owns(s)' <=> Owns(s)
    BY <1>0, <2>1, <2>2 DEF Owns, Moves
  <2>4. /\ pc[s] \notin Waiting /\ label \notin Waiting /\ label # "acq_set"
        /\ label \notin {"wat_enter", "wat_block"} /\ want'[s] = {}
        /\ Acquired' <=> Acquired
    BY <1>0, <2>1, <2>2, LabelsApart DEF Waiting, Acquired
  <2> QED
    BY <2>1, <2>2, <2>3, <2>4, TakerKeeps
<1>6. CASE AcquireReturn(s)
  <2>1. /\ pc[s] = "acq_cts" /\ opened' = opened \cup {s} /\ UNCHANGED <<want, mask>>
        /\ Goto(s, "idle") /\ WritePortState({"CTS"}, {"CTS"})
    BY <1>6 DEF AcquireReturn
  <2>2. Moves(s, "idle") /\ (Acquired' <=> Acquired)
    BY <2>1, GotoMoves, WriteAcquired
  <2>3. Owns(s)' <=> Owns(s)
    BY <2>1, <2>2 DEF Owns, Moves, Taking
  <2>4. pc[s] \in Taking /\ want'[s] = {} /\ "idle" \notin Taking \cup Waiting
    BY <1>0, <2>1, LabelsApart DEF Taking
  <2> QED
    BY <2>1, <2>2, <2>3, <2>4, TakerKeeps
<1> QED
  BY <1>1, <1>2, <1>3, <1>4, <1>5, <1>6

LEMMA Unmoved ==
  ASSUME OwnerInv, UNCHANGED <<pc, opened, want, mask, State>>
  PROVE  SessionsOK' /\ Undisturbed' /\ PendingOK' /\ ExclusiveOwner'
<1>1. SessionsOK'
  BY DEF OwnerInv, SessionsOK, Acquired
<1>2. Undisturbed'
  BY DEF OwnerInv, Undisturbed, Leaving, Standby, Arriving, AtRest, Acquired
<1>3. PendingOK'
  BY DEF OwnerInv, PendingOK, Acquired
<1>4. ExclusiveOwner'
  BY DEF OwnerInv, ExclusiveOwner, Owns
<1> QED
  BY <1>1, <1>2, <1>3, <1>4

(* releasePort is called only by the owner, and nobody uses the port       *)
(* between its two steps.                                                  *)
LEMMA ReleaseOwner ==
  ASSUME OwnerInv, OpenMode = "quiescent", NEW s \in Sessions,
         ReleasePort(s) \/ ReleaseClear(s) \/ ReleaseReturn(s)
  PROVE  SessionsOK' /\ Undisturbed' /\ PendingOK' /\ ExclusiveOwner'
<1> s \in Threads /\ TypeOK /\ Sessions \subseteq Threads
  BY ThreadRoles DEF OwnerInv
<1> USE DEF portVars, localVars
<1>1. CASE ReleasePort(s)
  <2>1. /\ pc[s] = "idle" /\ s \in opened
        /\ \A t \in Threads : pc[t] = "idle" \/ (t \in Sessions /\ pc[t] \in Waiting)
        /\ UNCHANGED <<want, mask, State>>
    BY <1>1 DEF ReleasePort, MayRelease
  <2>2. Owns(s) /\ Acquired
    BY <2>1 DEF Owns, OwnerInv, ExclusiveOwner, Acquired
  <2>3. Goto(s, "rel_write") /\ UNCHANGED opened
    BY <1>1, <2>2 DEF ReleasePort, Acquired
  <2>4. Moves(s, "rel_write")
    BY <2>1, <2>3, GotoMoves
  <2>5. /\ pc'[s] = "rel_write"
        /\ \A t \in Threads \ {s} :
             pc'[t] = pc[t] /\ want'[t] = want[t] /\ mask'[t] = mask[t]
    BY <2>4 DEF Moves
  <2>6. SessionsOK'
    BY <2>1, <2>3, <2>5, LabelsApart DEF OwnerInv, SessionsOK, Giving, Acquired
  <2>7. Undisturbed'
    <3> SUFFICES ASSUME NEW u \in Sessions, NEW v \in Threads \ {u}
                 PROVE  /\ pc'[u] \in Taking => Leaving(v)'
                        /\ pc'[u] \in Waiting /\ v \in Sessions => pc'[v] \notin Taking \cup Waiting
                        /\ pc'[u] \in Waiting /\ ~Acquired' => Leaving(v)'
                        /\ pc'[u] = "rel_write" => Standby(v)'
                        /\ pc'[u] = "rel_mask" => Arriving(v)'
      BY DEF Undisturbed
    <3>1. Acquired'
      BY <2>1, <2>2 DEF Acquired
    <3>2. CASE u = s
      BY <2>1, <2>5, <3>2, LabelsApart DEF Standby, AtRest, Giving
    <3>3. CASE u # s
      <4>1. pc'[u] = pc[u] /\ pc[u] \in {"idle"} \cup Waiting
        BY <2>1, <2>5, <3>3
      <4>2. pc'[u] \in Waiting /\ v \in Sessions => pc'[v] \notin Taking \cup Waiting
        BY <2>5, <4>1, LabelsApart DEF OwnerInv, Undisturbed, Giving
      <4> QED
        BY <3>1, <4>1, <4>2, LabelsApart DEF Giving
    <3> QED
      BY <3>2, <3>3
  <2>8. PendingOK'
    BY <2>1, <2>4, PendingKept DEF Acquired
  <2>9. \A u \in Sessions : Owns(u)' <=> Owns(u)
    BY <2>1, <2>3, <2>5, LabelsApart DEF Owns
  <2> QED
    BY <2>1, <2>6, <2>7, <2>8, <2>9, OwnersKept DEF OwnerInv, Acquired
<1>2. CASE ReleaseClear(s)
  <2>1. /\ pc[s] = "rel_write" /\ UNCHANGED <<opened, want, mask>>
        /\ Goto(s, "rel_mask") /\ WritePortState({}, STATE_ALL)
    BY <1>2 DEF ReleaseClear, openVars
  <2>2. Moves(s, "rel_mask") /\ ~Acquired'
    BY <2>1, GotoMoves, WriteAcquired, Bits
  <2>3. s \in opened /\ want[s] = {} /\ Owns(s)
    BY <2>1, LabelsApart DEF OwnerInv, SessionsOK, Owns, Giving
  <2>4. \A t \in Threads \ {s} : /\ pc'[t] = pc[t] /\ want'[t] = want[t]
                                  /\ mask'[t] = mask[t] /\ Standby(t)
    BY <2>1, <2>2 DEF Moves, OwnerInv, Undisturbed
  <2>5. pc'[s] = "rel_mask"
    BY <2>2 DEF Moves
  <2>6. SessionsOK'
    BY <2>1, <2>2, <2>3, <2>4, <2>5, LabelsApart DEF OwnerInv, SessionsOK, Giving
  <2>7. Undisturbed'
    <3> SUFFICES ASSUME NEW u \in Sessions, NEW v \in Threads \ {u}
                 PROVE  /\ pc'[u] \in Taking => Leaving(v)'
                        /\ pc'[u] \in Waiting /\ v \in Sessions => pc'[v] \notin Taking \cup Waiting
                        /\ pc'[u] \in Waiting /\ ~Acquired' => Leaving(v)'
                        /\ pc'[u] = "rel_write" => Standby(v)'
                        /\ pc'[u] = "rel_mask" => Arriving(v)'
      BY DEF Undisturbed
    <3>1. CASE u = s
      BY <2>4, <2>5, <3>1, LabelsApart DEF Standby, Arriving, AtRest, Giving
    <3>2. CASE u # s
      <4>1. pc'[u] = pc[u] /\ pc[u] \in {"idle"} \cup Waiting
        BY <2>4, <3>2 DEF Standby, AtRest
      <4>2. pc'[u] \in Waiting /\ v \in Sessions => pc'[v] \notin Taking \cup Waiting
        BY <2>4, <2>5, <4>1, LabelsApart DEF OwnerInv, Undisturbed, Giving
      <4>3. pc'[u] \in Waiting => Leaving(v)'
        BY <2>4, <2>5, <4>2 DEF Leaving, Standby, AtRest
      <4> QED
        BY <4>1, <4>2, <4>3, LabelsApart DEF Giving
    <3> QED
      BY <3>1, <3>2
  <2>8. PendingOK'
    BY <2>4, <2>5, LabelsApart DEF PendingOK, Standby, AtRest
  <2>9. \A u \in Sessions : ~Owns(u)'
    <3>1. ~Owns(s)'
      BY <2>5, LabelsApart DEF Owns, Giving
    <3>2. ASSUME NEW u \in Sessions, u # s PROVE ~Owns(u)'
      <4>1. pc'[u] = pc[u] /\ ~Owns(u)
        BY <2>3, <2>4, <3>2 DEF OwnerInv, ExclusiveOwner
      <4> QED
        BY <2>1, <4>1 DEF Owns
    <3> QED
      BY <3>1, <3>2
  <2> QED
    BY <2>2, <2>6, <2>7, <2>8, <2>9 DEF ExclusiveOwner, Acquired
<1>3. CASE ReleaseReturn(s)
  <2>1. /\ pc[s] = "rel_mask" /\ opened' = opened \ {s}
        /\ UNCHANGED <<State, want, mask>> /\ Goto(s, "idle")
    BY <1>3 DEF ReleaseReturn
  <2>2. Moves(s, "idle")
    BY <2>1, GotoMoves
  <2>3. /\ pc'[s] = "idle" /\ want'[s] = {}
        /\ \A t \in Threads \ {s} :
             pc'[t] = pc[t] /\ want'[t] = want[t] /\ mask'[t] = mask[t]
    BY <2>1, <2>2, LabelsApart DEF Moves, OwnerInv, SessionsOK, Giving
  <2>4. SessionsOK'
    BY <2>1, <2>3, LabelsApart DEF OwnerInv, SessionsOK, Acquired
  <2>5. Undisturbed'
    BY <2>1, <2>3, LabelsApart
       DEF OwnerInv, Undisturbed, Leaving, Standby, Arriving, AtRest, Acquired
  <2>6. PendingOK'
    BY <2>1, <2>2, PendingKept DEF Acquired
  <2>7. \A u \in Sessions : Owns(u)' <=> Owns(u)
    BY <2>1, <2>3, LabelsApart DEF Owns, Giving
  <2> QED
    BY <2>1, <2>4, <2>5, <2>6, <2>7, OwnersKept DEF OwnerInv, Acquired
<1> QED
  BY <1>1, <1>2, <1>3

(* The calls of a session that has the port, and their steps.              *)
LEMMA SessionOwner ==
  ASSUME OwnerInv, OpenMode = "quiescent", NEW s \in Sessions,
         \/ \E arg \in SetArgs : SetState(s, arg)
         \/ Activate(s) \/ Deactivate(s) \/ LineBreak(s) \/ ActivateDefaults(s)
         \/ (\E flow \in FlowArgs : SetFlowControl(s, flow)) \/ StoreFlowControl(s)
  PROVE  SessionsOK' /\ Undisturbed' /\ PendingOK' /\ ExclusiveOwner'
<1> s \in Threads /\ TypeOK
  BY ThreadRoles DEF OwnerInv
<1> USE DEF portVars, localVars, openVars
<1>1. ASSUME NEW label \in {"write", "ev_defaults", "ev_flow"}, NEW state, NEW m,
             MaySet(s), Pend(s, label, state, m), "ACQUIRED" \notin m,
             UNCHANGED <<opened, State>>
      PROVE  SessionsOK' /\ Undisturbed' /\ PendingOK' /\ ExclusiveOwner'
  <2>1. Moves(s, label)
    BY <1>1, GotoMoves DEF Pend
  <2>2. mask'[s] = m
    BY <1>1 DEF Pend, TypeOK
  <2> QED
    BY <1>1, <2>1, <2>2, OwnerMoves, PendingKept DEF Acquired
<1>2. ASSUME NEW arg \in SetArgs, SetState(s, arg)
      PROVE  SessionsOK' /\ Undisturbed' /\ PendingOK' /\ ExclusiveOwner'
  <2> DEFINE m == arg.mask \cap ((PD_RS232_A_MASK \ FlowControl) \cup PD_S_MASK)
  <2>1. MaySet(s) /\ Pend(s, "write", arg.state, m) /\ UNCHANGED <<opened, State>>
    BY <1>2 DEF SetState
  <2>2. "ACQUIRED" \notin m
    BY <1>2 DEF SetState
  <2> QED
    BY <1>1, <2>1, <2>2
<1>3. CASE Activate(s)
  BY <1>1, <1>3 DEF Activate
<1>4. CASE Deactivate(s)
  BY <1>1, <1>4 DEF Deactivate
<1>5. CASE LineBreak(s)
  <2>1. MaySet(s) /\ Pend(s, "write", State \ {"BRK"}, {"BRK"})
        /\ UNCHANGED <<opened, State>>
    BY <1>5 DEF LineBreak
  <2> QED
    BY <1>1, <2>1
<1>6. CASE ActivateDefaults(s)
  <2>1. /\ pc[s] = "ev_defaults" /\ Goto(s, "write")
        /\ UNCHANGED <<opened, want, mask, State>>
    BY <1>6 DEF ActivateDefaults
  <2>2. Moves(s, "write")
    BY <2>1, GotoMoves
  <2>3. "ACQUIRED" \notin mask'[s]
    BY <2>1 DEF OwnerInv, PendingOK
  <2> QED
    BY <2>1, <2>2, <2>3, OwnerMoves, PendingKept DEF Acquired
<1>7. ASSUME NEW flow \in FlowArgs, SetFlowControl(s, flow)
      PROVE  SessionsOK' /\ Undisturbed' /\ PendingOK' /\ ExclusiveOwner'
  BY <1>1, <1>7 DEF SetFlowControl
<1>8. CASE StoreFlowControl(s)
  <2>1. /\ pc[s] = "ev_flow" /\ Pend(s, "idle", {}, {})
        /\ UNCHANGED <<opened, State>>
    BY <1>8 DEF StoreFlowControl
  <2>2. Moves(s, "idle") /\ want'[s] = {}
    BY <2>1, GotoMoves DEF Pend, TypeOK
  <2> QED
    BY <2>1, <2>2, OwnerMoves, PendingKept DEF Acquired
<1> QED
  BY <1>2, <1>3, <1>4, <1>5, <1>6, <1>7, <1>8

LEMMA OtherStep ==
  ASSUME OwnerInv, OpenMode = "quiescent", NEW t \in Threads \ Sessions, NEW label,
         Moves(t, label), pc[t] # "idle" \/ MayCall(t),
         label \notin {"cq_used", "cq_free", "cq_delta", "write", "ev_defaults"},
         UNCHANGED opened, Acquired' <=> Acquired
  PROVE  SessionsOK' /\ Undisturbed' /\ PendingOK' /\ ExclusiveOwner'
  BY OthersMove, PendingKept

LEMMA WatchOwner ==
  ASSUME OwnerInv, OpenMode = "quiescent", NEW t \in Threads, WatchStep(t)
  PROVE  SessionsOK' /\ Undisturbed' /\ PendingOK' /\ ExclusiveOwner'
<1> TypeOK
  BY DEF OwnerInv
<1>1. /\ pc[t] \in {"wat_enter", "wat_block"} /\ UNCHANGED opened
      /\ Acquired' <=> Acquired
      /\ \/ \E st : WatchLoop(t, st) /\ ("ACQUIRED" \in st <=> Acquired)
         \/ LeaveWatch(t, "idle")
  <2>1. CASE WatchEnter(t)
    BY <2>1 DEF WatchEnter, Acquired, openVars
  <2>2. CASE WatchRestart(t)
    BY <2>2 DEF WatchRestart, Acquired, openVars
  <2>3. CASE WatchBroken(t)
    BY <2>3 DEF WatchBroken, Acquired
  <2> QED
    BY <2>1, <2>2, <2>3 DEF WatchStep
<1>2. CASE t \in Sessions
  <2>1. /\ mask[t] = {"ACQUIRED"} /\ want[t] = {} /\ t \notin opened
        /\ pc[t] \in Waiting
    BY <1>1, <1>2, LabelsApart DEF OwnerInv, SessionsOK, Waiting
  <2>2. ASSUME NEW st PROVE Found(t, st) # {} <=> "ACQUIRED" \notin st
    <3>1. ~AutoActive(t)
      BY <2>1 DEF AutoActive
    <3>2. Watched(t) = {"ACQUIRED"} /\ Wanted(t) = {}
      BY <2>1, <3>1 DEF Watched, Wanted
    <3> QED
      BY <3>2 DEF Found
  <2>3. \E label : /\ Goto(t, label)
                   /\ \/ /\ label \in {"acq_read", "idle"}
                         /\ label = "acq_read" => ~Acquired
                         /\ want' = [want EXCEPT ![t] = {}]
                         /\ mask' = [mask EXCEPT ![t] = {}]
                      \/ label = "wat_block" /\ Acquired /\ UNCHANGED <<want, mask>>
    <3>1. CASE LeaveWatch(t, "idle")
      BY <3>1 DEF LeaveWatch
    <3>2. ASSUME NEW st, WatchLoop(t, st), "ACQUIRED" \in st <=> Acquired
          PROVE  \/ LeaveWatch(t, "acq_read") /\ ~Acquired
                 \/ Block(t) /\ Acquired
      BY <1>2, <2>2, <3>2 DEF WatchLoop
    <3> QED
      BY <1>1, <3>1, <3>2 DEF LeaveWatch, Block
  <2>4. PICK label : /\ Moves(t, label) /\ want'[t] = {}
                     /\ label = "wat_block" => mask'[t] = {"ACQUIRED"} /\ Acquired
                     /\ label = "acq_read" => ~Acquired
                     /\ label \in {"acq_read", "idle", "wat_block"}
    BY <2>1, <2>3, GotoMoves DEF TypeOK
  <2>5. Owns(t)' <=> Owns(t)
    BY <1>1, <2>1, <2>4, LabelsApart DEF Owns, Moves, Waiting
  <2>6. /\ label \in {"idle"} \cup Taking \cup Waiting /\ label # "acq_set"
        /\ label \in Waiting => Acquired
        /\ label \in Taking => ~Acquired
        /\ label \in {"wat_enter", "wat_block"} => mask'[t] = {"ACQUIRED"}
    BY <2>4 DEF Taking, Waiting
  <2> QED
    BY <1>1, <1>2, <2>1, <2>4, <2>5, <2>6, TakerKeeps
<1>3. CASE t \notin Sessions
  <2>1. \E label \in {"idle", "wat_block"} :
          /\ Goto(t, label)
          /\ \/ UNCHANGED <<want, mask>>
             \/ want' = [want EXCEPT ![t] = {}] /\ mask' = [mask EXCEPT ![t] = {}]
    BY <1>1, <1>3 DEF WatchLoop, LeaveWatch, Block
  <2>2. PICK label \in {"idle", "wat_block"} : Moves(t, label)
    BY <2>1, GotoMoves
  <2>3. /\ pc[t] # "idle"
        /\ label \notin {"cq_used", "cq_free", "cq_delta", "write", "ev_defaults"}
    BY <1>1, <2>2
  <2> QED
    BY <1>1, <1>3, <2>2, <2>3, OtherStep
<1> QED
  BY <1>2, <1>3

LEMMA CheckOwner ==
  ASSUME OwnerInv, OpenMode = "quiescent", NEW t \in Threads, CheckStep(t)
  PROVE  SessionsOK' /\ Undisturbed' /\ PendingOK' /\ ExclusiveOwner'
<1> TypeOK
  BY DEF OwnerInv
<1> USE DEF portVars, openVars
<1>1. CASE Write(t)
  <2>1. /\ pc[t] = "write" /\ UNCHANGED opened /\ WritePortState(want[t], mask[t])
        /\ want' = [want EXCEPT ![t] = {}] /\ mask' = [mask EXCEPT ![t] = {}]
        /\ \E label \in {"idle", "send_dsr"} :
             Goto(t, label) /\ (t \notin Testers => label = "idle")
    BY <1>1 DEF Write
  <2>2. PICK label \in {"idle", "send_dsr"} :
          Moves(t, label) /\ (t \notin Testers => label = "idle")
    BY <2>1, GotoMoves
  <2>3. (Acquired' <=> Acquired) /\ want'[t] = {}
    BY <2>1, WriteAcquired DEF OwnerInv, PendingOK, TypeOK
  <2>4. label \notin {"cq_used", "cq_free", "cq_delta", "write", "ev_defaults"}
    BY <2>2
  <2>5. CASE t \in Sessions
    <3>1. label = "idle"
      BY <2>2, <2>5, RolesApart
    <3> QED
      BY <2>1, <2>2, <2>3, <2>4, <2>5, <3>1, OwnerMoves, PendingKept
  <2> QED
    BY <2>1, <2>2, <2>3, <2>4, <2>5, OtherStep
<1>2. CASE CheckState(t) \/ CheckUsed(t) \/ CheckFree(t) \/ CheckDelta(t)
  <2>1. /\ pc[t] \in {"cq_state", "cq_used", "cq_free", "cq_delta"}
        /\ UNCHANGED <<opened, State>>
    BY <1>2 DEF CheckState, CheckUsed, CheckFree, CheckDelta
  <2>2. t \in Threads \ Sessions
    BY <2>1, LabelsApart DEF OwnerInv, SessionsOK
  <2>3. \E label : /\ Moves(t, label)
                   /\ label \in {"cq_used", "cq_free", "cq_delta"}
                        => ("ACQUIRED" \in want'[t] <=> Acquired)
                   /\ label \in {"write", "ev_defaults"} => "ACQUIRED" \notin mask'[t]
    <3>1. CASE CheckState(t)
      <4>1. Moves(t, "cq_used") /\ want'[t] = State
        BY <3>1, GotoMoves DEF CheckState, TypeOK
      <4> QED
        BY <4>1 DEF Acquired
    <3>2. CASE CheckUsed(t)
      <4>1. Moves(t, "cq_free") /\ want'[t] = want[t] /\ pc[t] = "cq_used"
        BY <3>2, GotoMoves DEF CheckUsed
      <4> QED
        BY <4>1 DEF OwnerInv, PendingOK
    <3>3. CASE CheckFree(t)
      <4> DEFINE new == (want[t] \ (RXQ_MASK \cup TXQ_MASK))
                          \cup QueueBits(TXQ, 0, kMaxCirBufferSize)
                          \cup QueueBits(RXQ, used[t], FreeSpaceinQueue(RX))
      <4>1. want' = [want EXCEPT ![t] = new] /\ UNCHANGED mask /\ pc[t] = "cq_free"
            /\ Goto(t, "cq_delta")
        BY <3>3 DEF CheckFree
      <4>2. ASSUME NEW inUse, NEW free
            PROVE  /\ "ACQUIRED" \notin QueueBits(TXQ, inUse, free)
                   /\ "ACQUIRED" \notin QueueBits(RXQ, inUse, free)
        BY DEF QueueBits, TXQ, RXQ
      <4>3. "ACQUIRED" \notin RXQ_MASK \cup TXQ_MASK
        BY DEF RXQ_MASK, TXQ_MASK, RXQ, TXQ
      <4>4. "ACQUIRED" \in new <=> "ACQUIRED" \in want[t]
        BY <4>2, <4>3
      <4>5. Moves(t, "cq_delta") /\ want'[t] = new
        <5> HIDE DEF new
        <5> QED
          BY <4>1, GotoMoves DEF TypeOK
      <4> QED
        BY <4>1, <4>4, <4>5 DEF OwnerInv, PendingOK
    <3>4. CASE CheckDelta(t)
      <4>1. /\ Moves(t, "write") /\ pc[t] = "cq_delta"
            /\ mask'[t] = (want[t] \ State) \cup (State \ want[t])
        BY <3>4, GotoMoves DEF CheckDelta, TypeOK
      <4>2. "ACQUIRED" \in want[t] <=> Acquired
        BY <4>1 DEF OwnerInv, PendingOK
      <4> QED
        BY <4>1, <4>2 DEF Acquired
    <3> QED
      BY <1>2, <3>1, <3>2, <3>3, <3>4
  <2>4. PICK label : /\ Moves(t, label)
                     /\ label \in {"cq_used", "cq_free", "cq_delta"}
                          => ("ACQUIRED" \in want'[t] <=> Acquired)
                     /\ label \in {"write", "ev_defaults"} => "ACQUIRED" \notin mask'[t]
    BY <2>3
  <2>5. pc[t] # "idle" /\ (Acquired' <=> Acquired)
    BY <2>1 DEF Acquired
  <2> QED
    BY <2>1, <2>2, <2>4, <2>5, OthersMove, PendingKept
<1> QED
  BY <1>1, <1>2 DEF CheckStep

(* watchState, getState, sendData and dequeueData.                         *)
LEMMA CallerOwner ==
  ASSUME OwnerInv, OpenMode = "quiescent", NEW t \in Threads \ Sessions,
         \/ \E arg \in WatchArgs : WatchState(t, arg)
         \/ GetState(t)
         \/ \E msg \in Messages : SendData(t, msg)
         \/ SendStep(t)
         \/ \E max \in ReadSizes : DequeueData(t, max)
         \/ DequeueStep(t)
  PROVE  SessionsOK' /\ Undisturbed' /\ PendingOK' /\ ExclusiveOwner'
<1> TypeOK
  BY DEF OwnerInv
<1> USE DEF portVars, localVars, openVars
<1>1. /\ pc[t] # "idle" \/ MayCall(t)
      /\ UNCHANGED opened
      /\ Acquired' <=> Acquired
  <2>1. CASE SendReturn(t)
    BY <2>1, WriteAcquired DEF SendReturn
  <2> QED
    BY <2>1 DEF WatchState, GetState, SendData, SendStep, SendLock, SendAdd, DequeueData,
                DequeueStep, DequeueLock, DequeueGet, DequeueDone, Acquired
<1>2. \/ UNCHANGED <<pc, want, mask, State>>
      \/ \E label \in {"wat_enter", "cq_state", "send_lock", "send_add", "idle",
                    "deq_lock", "deq_get"} :
           /\ Goto(t, label)
           /\ \/ UNCHANGED <<want, mask>>
              \/ \E x, y : want' = [want EXCEPT ![t] = x] /\ mask' = [mask EXCEPT ![t] = y]
  BY DEF WatchState, Pend, GetState, SendData, SendStep, SendLock, SendAdd, SendReturn, DequeueData,
         DequeueStep, DequeueLock, DequeueGet, DequeueDone
<1>3. CASE UNCHANGED <<pc, want, mask, State>>
  BY <1>1, <1>3, Unmoved
<1>4. CASE \E label \in {"wat_enter", "cq_state", "send_lock", "send_add", "idle",
                    "deq_lock", "deq_get"} :
             /\ Goto(t, label)
             /\ \/ UNCHANGED <<want, mask>>
                \/ \E x, y : want' = [want EXCEPT ![t] = x] /\ mask' = [mask EXCEPT ![t] = y]
  <2>1. PICK label \in {"wat_enter", "cq_state", "send_lock", "send_add", "idle",
                    "deq_lock", "deq_get"} :
          Moves(t, label)
    BY <1>4, GotoMoves
  <2>2. label \notin {"cq_used", "cq_free", "cq_delta", "write", "ev_defaults"}
    BY <2>1
  <2> QED
    BY <1>1, <2>1, <2>2, OtherStep
<1> QED
  BY <1>2, <1>3, <1>4

LEMMA InitOwner == Init => OwnerInv
<1> SUFFICES ASSUME Init PROVE OwnerInv
  OBVIOUS
<1>1. /\ \A t \in Threads : pc[t] = "idle" /\ want[t] = {} /\ mask[t] = {}
      /\ opened = {} /\ ~Acquired
  BY DEF Init, Acquired, TXQ, RXQ
<1>2. SessionsOK
  BY <1>1, ThreadRoles, LabelsApart DEF SessionsOK
<1>3. Undisturbed
  BY <1>1, ThreadRoles, LabelsApart DEF Undisturbed, Giving
<1>4. PendingOK
  BY <1>1 DEF PendingOK
<1>5. \A s \in Sessions : ~Owns(s)
  BY <1>1, ThreadRoles, LabelsApart DEF Owns
<1> QED
  BY <1>1, <1>2, <1>3, <1>4, <1>5, InitType DEF OwnerInv, ExclusiveOwner, Acquired

LEMMA NextOwner ==
  ASSUME OpenMode = "quiescent"
  PROVE  OwnerInv /\ [Next]_vars => OwnerInv'
<1> SUFFICES ASSUME OwnerInv, [Next]_vars
             PROVE  SessionsOK' /\ Undisturbed' /\ PendingOK' /\ ExclusiveOwner'
  BY NextType DEF OwnerInv
<1>1. CASE UNCHANGED vars
  BY <1>1, Unmoved DEF vars, portVars, localVars, openVars
<1>2. CASE \E s \in Sessions : SessionCall(s) \/ SessionStep(s)
  BY <1>2, AcquireOwner, ReleaseOwner, SessionOwner DEF SessionCall, SessionStep
<1>3. CASE \E t \in Threads : WatchStep(t) \/ CheckStep(t)
  BY <1>3, WatchOwner, CheckOwner
<1>4. CASE \/ \E w \in Watchers : \E arg \in WatchArgs : WatchState(w, arg)
           \/ \E p \in Pollers : GetState(p)
           \/ \E t \in Testers : \E msg \in Messages : SendData(t, msg)
           \/ \E t \in Testers : SendStep(t)
           \/ \E r \in Readers : \E max \in ReadSizes : DequeueData(r, max)
           \/ \E r \in Readers : DequeueStep(r)
  <2>1. Watchers \cup Pollers \cup Testers \cup Readers \subseteq Threads \ Sessions
    BY ThreadRoles, PortAssumption
  <2> QED
    BY <1>4, <2>1, CallerOwner
<1> QED
  BY <1>1, <1>2, <1>3, <1>4 DEF Next

(* When no call is in progress while the port is taken or given back, it   *)
(* has at most one owner and its busy bit tells whether it has one: no     *)
(* pending write of the state word, by setState, checkQueues or a watcher, *)
(* sets or clears that bit under the owner.                                *)
THEOREM OnlyOneOwner ==
  ASSUME OpenMode = "quiescent"
  PROVE  Spec => []ExclusiveOwner
<1>1. OwnerInv => ExclusiveOwner
  BY DEF OwnerInv
<1> QED
  BY <1>1, InitOwner, NextOwner, PTL DEF Spec

(* When no call is in progress while the port is taken or given back, there*)
(* is exactly one reference for each session that has the port or is       *)
(* getting it, whatever way acquirePort ends: a leaked one would keep the  *)
(* driver from unloading.                                                  *)
THEOREM ReferencesBalance ==
  ASSUME OpenMode = "quiescent"
  PROVE  Spec => []RefsBalanced
<1>1. OwnerInv => Marked
  <2> SUFFICES ASSUME OwnerInv, NEW s \in opened, pc[s] = "idle" PROVE Acquired
    BY DEF Marked, Acquired
  <2>1. s \in Sessions /\ Owns(s)
    BY DEF OwnerInv, TypeOK, Owns
  <2> QED
    BY <2>1 DEF OwnerInv, ExclusiveOwner, Acquired
<1> QED
  BY <1>1, InitReferences, NextReferences, InitOwner, NextOwner, PTL DEF Spec

(* What releasePort and acquirePort's comments promise holds of callers    *)
(* that do not overlap them: when no session has or is getting the port,   *)
(* the driver's reference has been given back and the state word is clear  *)
(* of the busy bit.                                                        *)
THEOREM NoReferenceIsLeft ==
  ASSUME OpenMode = "quiescent"
  PROVE  Spec => []NoReferenceLeaks
<1>1. ASSUME RefsBalanced, \A s \in Sessions : s \notin opened /\ pc[s] = "idle"
      PROVE  refs = 0
  <2>1. Holders = {}
    BY <1>1, LabelsApart DEF Holders, HoldsReference
  <2> QED
    BY <1>1, <2>1, HoldersFinite, FS_EmptySet
<1>2. RefsBalanced => NoReferenceLeaks
  BY <1>1 DEF NoReferenceLeaks
<1> QED
  BY <1>2, ReferencesBalance, PTL

(* A port that nobody has or is getting can be acquired: no write of the   *)
(* state word is left over to mark it busy.                                *)
THEOREM ReleasedIsFree ==
  ASSUME OpenMode = "quiescent"
  PROVE  Spec => []ReleasedPortIsFree
<1>1. ExclusiveOwner => ReleasedPortIsFree
  BY LabelsApart DEF ExclusiveOwner, ReleasedPortIsFree, Owns
<1> QED
  BY <1>1, OnlyOneOwner, PTL

-------------------------------------------------------------------------------
(* The port implements ExclusivePort, when nothing else is called while it *)
(* is taken or given back.                                                 *)

(* A session between the setting of the busy bit and acquirePort's return. *)
Fresh == {"acq_defaults", "acq_next", "acq_last", "acq_inq", "acq_cts"}

LEMMA FreshLabels ==
  /\ Fresh = Taking \ {"acq_read", "acq_set"}
  /\ Fresh = {"acq_defaults", "acq_next", "acq_last", "acq_inq", "acq_cts"}
  /\ \A label \in Fresh : label \in Taking /\ label # "rel_mask"
  BY DEF Fresh, Taking

(* What ExclusivePort sees of one session.                                 *)
SeenAlike(u) == (Owns(u)' <=> Owns(u)) /\ (HoldsReference(u)' <=> HoldsReference(u))

LEMMA SeenNext ==
  \A u : /\ Owns(u)' <=> (u \in opened' /\ pc'[u] # "rel_mask") \/ pc'[u] \in Fresh
         /\ HoldsReference(u)' <=> u \in opened' \/ pc'[u] \in Taking \cup Waiting
         /\ Owns(u) <=> (u \in opened /\ pc[u] # "rel_mask") \/ pc[u] \in Fresh
         /\ HoldsReference(u) <=> u \in opened \/ pc[u] \in Taking \cup Waiting
  BY FreshLabels DEF Owns, HoldsReference

(* The mapped variables, in this state and the next.                       *)
OwnerSet == {s \in Sessions : Owns(s)}

LEMMA BusyIsOwned == ExclusiveOwner => (Acquired <=> OwnerSet # {})
  BY DEF ExclusiveOwner, Acquired, OwnerSet

LEMMA BusyIsOwnedNext == ExclusiveOwner' => (Acquired' <=> OwnerSet' # {})
  BY DEF ExclusiveOwner, Acquired, OwnerSet

PortStep == [Port!Next]_(Port!vars)

LEMMA NothingSeen ==
  ASSUME ExclusiveOwner, ExclusiveOwner', refs' = refs,
         \A u \in Sessions : SeenAlike(u)
  PROVE  PortStep
<1>1. OwnerSet' = OwnerSet /\ Holders' = Holders
  BY DEF OwnerSet, Holders, SeenAlike
<1>2. Acquired' <=> Acquired
  BY <1>1, BusyIsOwned, BusyIsOwnedNext
<1> QED
  BY <1>1, <1>2 DEF PortStep, Port!vars, OwnerSet, Holders, Acquired

(* A thread that moves from one label to another that looks the same.      *)
LEMMA PlainPort ==
  ASSUME TypeOK, ExclusiveOwner, ExclusiveOwner', NEW t \in Threads, NEW label,
         Goto(t, label) \/ UNCHANGED pc,
         UNCHANGED <<opened, refs>>,
         t \in Sessions =>
           /\ label \in Taking \cup Waiting <=> pc[t] \in Taking \cup Waiting
           /\ label \in Fresh <=> pc[t] \in Fresh
           /\ label = "rel_mask" <=> pc[t] = "rel_mask"
  PROVE  PortStep
<1>1. \A u \in Sessions :
        /\ pc'[u] \in Taking \cup Waiting <=> pc[u] \in Taking \cup Waiting
        /\ pc'[u] \in Fresh <=> pc[u] \in Fresh
        /\ pc'[u] = "rel_mask" <=> pc[u] = "rel_mask"
  BY ThreadRoles DEF TypeOK, Goto
<1>2. \A u \in Sessions : SeenAlike(u)
  BY <1>1, SeenNext DEF SeenAlike
<1> QED
  BY <1>2, NothingSeen

LEMMA OthersAlike ==
  ASSUME TypeOK, NEW s \in Sessions, NEW label, Goto(s, label),
         opened' \ {s} = opened \ {s}
  PROVE  pc'[s] = label /\ \A u \in Sessions \ {s} : SeenAlike(u)
<1>1. pc'[s] = label /\ \A u \in Sessions \ {s} : pc'[u] = pc[u]
  BY ThreadRoles DEF TypeOK, Goto
<1>2. \A u \in Sessions \ {s} : u \in opened' <=> u \in opened
  OBVIOUS
<1> QED
  BY <1>1, <1>2, SeenNext DEF SeenAlike

(* An acquirePort that fails, and releasePort's last step.                 *)
LEMMA LettingGo ==
  ASSUME TypeOK, ExclusiveOwner, ExclusiveOwner', NEW s \in Sessions, Goto(s, "idle"),
         refs' = refs - 1, opened' = opened \ {s},
         HoldsReference(s), ~Owns(s)
  PROVE  PortStep
<1>1. pc'[s] = "idle" /\ \A u \in Sessions \ {s} : SeenAlike(u)
  BY OthersAlike
<1>2. ~HoldsReference(s)' /\ ~Owns(s)'
  BY <1>1, SeenNext, FreshLabels, LabelsApart
<1>3. OwnerSet' = OwnerSet /\ Holders' = Holders \ {s} /\ s \in Holders \ OwnerSet
  BY <1>1, <1>2 DEF OwnerSet, Holders, SeenAlike
<1>4. Acquired' <=> Acquired
  BY <1>3, BusyIsOwned, BusyIsOwnedNext
<1>5. Port!LetGo(s)
  BY <1>3, <1>4 DEF Port!LetGo, OwnerSet, Holders, Acquired
<1> QED
  BY <1>5 DEF PortStep, Port!Next

LEMMA FailsLettingGo ==
  ASSUME TypeOK, SessionsOK, ExclusiveOwner, ExclusiveOwner', NEW s \in Sessions,
         pc[s] \in Waiting \cup {"acq_read"}, Goto(s, "idle"),
         refs' = refs - 1, UNCHANGED opened
  PROVE  PortStep
<1>1. s \notin opened /\ HoldsReference(s)
  BY SeenNext DEF SessionsOK, Taking
<1>2. ~Owns(s)
  BY <1>1, SeenNext, FreshLabels DEF Waiting
<1>3. opened' = opened \ {s}
  BY <1>1
<1> QED
  BY <1>1, <1>2, <1>3, LettingGo

LEMMA SessionPort ==
  ASSUME OwnerInv, OwnerInv', NEW s \in Sessions, SessionCall(s) \/ SessionStep(s)
  PROVE  PortStep
<1> s \in Threads
  BY ThreadRoles
<1> USE DEF openVars
<1>0. TypeOK /\ SessionsOK /\ ExclusiveOwner /\ ExclusiveOwner'
  BY DEF OwnerInv
<1>1. ASSUME NEW sleep \in BOOLEAN, AcquirePort(s, sleep)
      PROVE  PortStep
  <2>1. /\ pc[s] = "idle" /\ s \notin opened /\ refs' = refs + 1
        /\ UNCHANGED <<opened, State>> /\ Goto(s, "acq_read")
    BY <1>1 DEF AcquirePort, MayAcquire, portVars
  <2>2. pc'[s] = "acq_read" /\ \A u \in Sessions \ {s} : SeenAlike(u)
    BY <1>0, <2>1, OthersAlike
  <2>3. /\ HoldsReference(s)' /\ ~HoldsReference(s)
        /\ ~Owns(s)' /\ ~Owns(s)
    BY <2>1, <2>2, SeenNext, FreshLabels, LabelsApart DEF Taking
  <2>4. Holders' = Holders \cup {s} /\ s \notin Holders /\ OwnerSet' = OwnerSet
    BY <2>2, <2>3 DEF Holders, OwnerSet, SeenAlike
  <2>5. Port!Ask(s)
    BY <2>1, <2>4 DEF Port!Ask, Holders, OwnerSet
  <2> QED
    BY <2>5 DEF PortStep, Port!Next
<1>2. CASE ReleasePort(s)
  <2>1. pc[s] = "idle" /\ s \in opened
    BY <1>2 DEF ReleasePort, MayRelease
  <2>2. Acquired
    BY <1>0, <2>1 DEF Owns, ExclusiveOwner, Acquired
  <2>3. Goto(s, "rel_write") /\ UNCHANGED <<opened, refs>>
    BY <1>2, <2>2 DEF ReleasePort, Acquired
  <2> QED
    BY <1>0, <2>1, <2>3, PlainPort, FreshLabels, LabelsApart DEF Giving
<1>3. CASE \/ \E arg \in SetArgs : SetState(s, arg)
           \/ Activate(s) \/ Deactivate(s) \/ LineBreak(s)
           \/ \E flow \in FlowArgs : SetFlowControl(s, flow)
  <2>1. /\ pc[s] = "idle" /\ UNCHANGED <<opened, refs>>
        /\ Goto(s, "write") \/ Goto(s, "ev_defaults") \/ Goto(s, "ev_flow")
    BY <1>3 DEF SetState, Activate, Deactivate, LineBreak, SetFlowControl, Pend,
                MaySet, MayCall
  <2> QED
    BY <1>0, <2>1, PlainPort, FreshLabels, LabelsApart
<1>4. CASE StoreFlowControl(s)
  <2>1. pc[s] = "ev_flow" /\ Goto(s, "idle") /\ UNCHANGED <<opened, refs>>
    BY <1>4 DEF StoreFlowControl, Pend
  <2> QED
    BY <1>0, <2>1, PlainPort, FreshLabels, LabelsApart
<1>5. CASE AcquireRead(s)
  <2>1. /\ pc[s] = "acq_read" /\ UNCHANGED opened
        /\ \/ refs' = refs /\ (Goto(s, "acq_set") \/ Goto(s, "wat_check"))
           \/ refs' = refs - 1 /\ Goto(s, "idle")
    BY <1>5 DEF AcquireRead, AcquireFails
  <2> QED
    BY <1>0, <2>1, PlainPort, FailsLettingGo, FreshLabels, LabelsApart
       DEF Taking, Waiting
<1>6. CASE AcquireWatch(s)
  <2>1. /\ pc[s] = "wat_check" /\ UNCHANGED opened
        /\ \/ refs' = refs /\ Goto(s, "wat_enter")
           \/ refs' = refs - 1 /\ Goto(s, "idle")
    BY <1>6 DEF AcquireWatch, AcquireFails
  <2> QED
    BY <1>0, <2>1, PlainPort, FailsLettingGo, FreshLabels, LabelsApart DEF Waiting
<1>7. CASE AcquireSet(s)
  <2>1. /\ pc[s] = "acq_set" /\ Goto(s, "acq_defaults") /\ UNCHANGED <<opened, refs>>
    BY <1>7 DEF AcquireSet
  <2>2. ~Acquired /\ OwnerSet = {}
    BY <1>0, <2>1, BusyIsOwned DEF SessionsOK
  <2>3. Acquired'
    BY <1>7, WriteAcquired DEF AcquireSet, STATE_ALL, PD_S_MASK
  <2>4. pc'[s] = "acq_defaults" /\ \A u \in Sessions \ {s} : SeenAlike(u)
    BY <1>0, <2>1, OthersAlike
  <2>5. /\ HoldsReference(s) /\ HoldsReference(s)' /\ Owns(s)'
    BY <2>1, <2>4, SeenNext, FreshLabels DEF Taking
  <2>6. Holders' = Holders /\ s \in Holders /\ OwnerSet' = {s}
    BY <2>2, <2>4, <2>5 DEF Holders, OwnerSet, SeenAlike
  <2>7. Port!Take(s)
    BY <2>1, <2>2, <2>3, <2>6 DEF Port!Take, Holders, OwnerSet, Acquired
  <2> QED
    BY <2>7 DEF PortStep, Port!Next
<1>8. CASE AcquireDefaults(s) \/ AcquireResetQueue(s)
  <2>1. /\ pc[s] \in Fresh /\ UNCHANGED <<opened, refs>>
        /\ \E label \in Fresh : Goto(s, label)
    BY <1>8, FreshLabels DEF AcquireDefaults, AcquireResetQueue
  <2> QED
    BY <1>0, <2>1, PlainPort, FreshLabels
<1>9. CASE AcquireReturn(s)
  <2>1. /\ pc[s] = "acq_cts" /\ Goto(s, "idle") /\ opened' = opened \cup {s}
        /\ refs' = refs
    BY <1>9 DEF AcquireReturn
  <2>2. pc'[s] = "idle" /\ \A u \in Sessions \ {s} : SeenAlike(u)
    BY <1>0, <2>1, OthersAlike
  <2>3. SeenAlike(s)
    BY <2>1, <2>2, SeenNext, FreshLabels DEF SeenAlike
  <2> QED
    BY <1>0, <2>1, <2>2, <2>3, NothingSeen
<1>10. CASE ReleaseClear(s)
  <2>1. pc[s] = "rel_write" /\ Goto(s, "rel_mask") /\ UNCHANGED <<opened, refs>>
    BY <1>10 DEF ReleaseClear
  <2>2. s \in opened
    BY <1>0, <2>1 DEF SessionsOK, Giving
  <2>3. ~Acquired'
    BY <1>10, WriteAcquired DEF ReleaseClear, STATE_ALL, PD_S_MASK
  <2>4. pc'[s] = "rel_mask" /\ \A u \in Sessions \ {s} : SeenAlike(u)
    BY <1>0, <2>1, OthersAlike
  <2>5. HoldsReference(s) /\ HoldsReference(s)' /\ Owns(s)
    BY <2>1, <2>2, SeenNext
  <2>6. Holders' = Holders /\ OwnerSet = {s} /\ OwnerSet' = {}
    <3>1. Holders' = Holders
      BY <2>4, <2>5 DEF Holders, SeenAlike
    <3>2. OwnerSet = {s}
      BY <1>0, <2>5 DEF OwnerSet, ExclusiveOwner
    <3>3. OwnerSet' = {}
      BY <1>0, <2>3, BusyIsOwnedNext
    <3> QED
      BY <3>1, <3>2, <3>3
  <2>7. Port!GiveBack(s)
    BY <2>1, <2>3, <2>6 DEF Port!GiveBack, Holders, OwnerSet, Acquired
  <2> QED
    BY <2>7 DEF PortStep, Port!Next
<1>11. CASE ReleaseReturn(s)
  <2>1. /\ pc[s] = "rel_mask" /\ Goto(s, "idle") /\ refs' = refs - 1
        /\ opened' = opened \ {s}
    BY <1>11 DEF ReleaseReturn
  <2>2. HoldsReference(s) /\ ~Owns(s)
    BY <1>0, <2>1, SeenNext, FreshLabels DEF SessionsOK, Giving
  <2> QED
    BY <1>0, <2>1, <2>2, LettingGo
<1>12. CASE ActivateDefaults(s)
  <2>1. pc[s] = "ev_defaults" /\ Goto(s, "write") /\ UNCHANGED <<opened, refs>>
    BY <1>12 DEF ActivateDefaults
  <2> QED
    BY <1>0, <2>1, PlainPort, FreshLabels, LabelsApart
<1> QED
  BY <1>1, <1>2, <1>3, <1>4, <1>5, <1>6, <1>7, <1>8, <1>9, <1>10, <1>11, <1>12
     DEF SessionCall, SessionStep

LEMMA WatchPort ==
  ASSUME OwnerInv, OwnerInv', NEW t \in Threads, WatchStep(t)
  PROVE  PortStep
<1>0. TypeOK /\ SessionsOK /\ ExclusiveOwner /\ ExclusiveOwner'
  BY DEF OwnerInv
<1> USE DEF openVars
<1>1. CASE WatchEnter(t) \/ WatchRestart(t)
  <2>1. /\ pc[t] \in Waiting /\ UNCHANGED <<opened, refs>>
        /\ \E label : /\ Goto(t, label)
                      /\ t \in Sessions => label \in {"acq_read", "wat_block"}
    BY <1>1 DEF WatchEnter, WatchRestart, WatchLoop, LeaveWatch, Block, Waiting
  <2> QED
    BY <1>0, <2>1, PlainPort, FreshLabels, LabelsApart DEF Taking, Waiting
<1>2. CASE WatchBroken(t)
  <2>1. pc[t] \in Waiting /\ Goto(t, "idle") /\ UNCHANGED opened
    BY <1>2 DEF WatchBroken, LeaveWatch, Waiting
  <2>2. CASE t \notin Sessions
    <3>1. UNCHANGED refs
      BY <1>2, <2>2 DEF WatchBroken
    <3> QED
      BY <1>0, <2>1, <2>2, <3>1, PlainPort
  <2>3. CASE t \in Sessions
    <3>1. refs' = refs - 1
      BY <1>2, <2>3 DEF WatchBroken
    <3> QED
      BY <1>0, <2>1, <2>3, <3>1, FailsLettingGo
  <2> QED
    BY <2>2, <2>3
<1> QED
  BY <1>1, <1>2 DEF WatchStep

LEMMA CheckPort ==
  ASSUME OwnerInv, OwnerInv', NEW t \in Threads, CheckStep(t)
  PROVE  PortStep
<1>1. /\ UNCHANGED <<opened, refs>>
      /\ pc[t] \in {"cq_state", "cq_used", "cq_free", "cq_delta", "write"}
      /\ \E label \in {"cq_used", "cq_free", "cq_delta", "write", "idle", "send_dsr"} :
           Goto(t, label)
  BY DEF CheckStep, CheckState, CheckUsed, CheckFree, CheckDelta, Write, openVars
<1> QED
  BY <1>1, PlainPort, FreshLabels, LabelsApart DEF OwnerInv

LEMMA NextPort == OwnerInv /\ OwnerInv' /\ [Next]_vars => [Port!Next]_(Port!vars)
<1> SUFFICES ASSUME OwnerInv, OwnerInv', [Next]_vars PROVE PortStep
  BY DEF PortStep
<1> USE DEF openVars
<1>0. TypeOK /\ ExclusiveOwner /\ ExclusiveOwner'
  BY DEF OwnerInv
<1>1. CASE UNCHANGED vars
  BY <1>0, <1>1, NothingSeen, SeenNext DEF vars, SeenAlike
<1>2. CASE \E s \in Sessions : SessionCall(s) \/ SessionStep(s)
  BY <1>2, SessionPort
<1>3. CASE \E t \in Threads : WatchStep(t) \/ CheckStep(t)
  BY <1>3, WatchPort, CheckPort
<1>4. ASSUME NEW t \in Threads \ Sessions,
             \/ \E arg \in WatchArgs : WatchState(t, arg)
             \/ GetState(t)
             \/ \E msg \in Messages : SendData(t, msg)
             \/ SendStep(t)
             \/ \E max \in ReadSizes : DequeueData(t, max)
             \/ DequeueStep(t)
      PROVE  PortStep
  <2>1. UNCHANGED <<opened, refs>> /\ ((\E label : Goto(t, label)) \/ UNCHANGED pc)
    BY <1>4 DEF WatchState, GetState, Pend, SendData, SendStep, SendLock, SendAdd, SendReturn,
                DequeueData, DequeueStep, DequeueLock, DequeueGet, DequeueDone
  <2> QED
    BY <1>0, <2>1, PlainPort
<1>5. CASE \/ \E w \in Watchers : \E arg \in WatchArgs : WatchState(w, arg)
           \/ \E p \in Pollers : GetState(p)
           \/ \E t \in Testers : \E msg \in Messages : SendData(t, msg)
           \/ \E t \in Testers : SendStep(t)
           \/ \E r \in Readers : \E max \in ReadSizes : DequeueData(r, max)
           \/ \E r \in Readers : DequeueStep(r)
  <2>1. Watchers \cup Pollers \cup Testers \cup Readers \subseteq Threads \ Sessions
    BY ThreadRoles, PortAssumption
  <2> QED
    BY <1>4, <1>5, <2>1
<1> QED
  BY <1>1, <1>2, <1>3, <1>5 DEF Next

LEMMA InitPort == Init => Port!Init
<1> SUFFICES ASSUME Init PROVE Port!Init
  OBVIOUS
<1>1. Holders = {} /\ OwnerSet = {}
  BY SeenNext, ThreadRoles, FreshLabels, LabelsApart DEF Init, Holders, OwnerSet
<1>2. refs = 0 /\ ~Acquired
  BY DEF Init, Acquired, TXQ, RXQ
<1> QED
  BY <1>1, <1>2 DEF Port!Init, Holders, OwnerSet, Acquired

(* When nothing else is called while the port is taken or given back, the  *)
(* port passes from session to session only through being free, and only   *)
(* to a session that holds the driver: every step of acquirePort, of its   *)
(* wait for the port, of releasePort and of any other call is a step of    *)
(* ExclusivePort or changes nothing it sees.                               *)
THEOREM PortIsExclusive ==
  ASSUME OpenMode = "quiescent"
  PROVE  Spec => PortChangesHands
<1>1. OwnerInv /\ [Next]_vars => [Port!Next]_(Port!vars)
  BY NextOwner, NextPort
<1> QED
  BY <1>1, InitPort, InitOwner, NextOwner, PTL DEF Spec, PortChangesHands, Port!Spec

===============================================================================
