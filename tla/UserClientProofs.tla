--------------------------- MODULE UserClientProofs ----------------------------
(***************************************************************************)
(* Proofs about the life of the driver and of its user clients, for any    *)
(* set of clients, finite or not.                                          *)
(***************************************************************************)
EXTENDS UserClient, TLAPS

-------------------------------------------------------------------------------
(* The steps of start and stop.                                            *)

LEMMA Steps ==
  /\ Len(StartSteps) = 6 /\ Len(StopSteps) = 5
  /\ \A i \in 1 .. 6 : StartSteps[i] \in Resources
  /\ \A i \in 1 .. 6 : StartSteps[i] = "stream" <=> i = 6
  /\ "RXBufferLock" \in Resources
  /\ Resources = {StartSteps[i] : i \in 1 .. 6}
  /\ \A i \in 1 .. 5 : StopSteps[i] = "open" <=> i = 1
<1>1. /\ Len(StartSteps) = 6
      /\ StartSteps[1] = "open" /\ StartSteps[2] = "TX" /\ StartSteps[3] = "RX"
      /\ StartSteps[4] = "serialRequestLock" /\ StartSteps[5] = "RXBufferLock"
      /\ StartSteps[6] = "stream"
      /\ DOMAIN StartSteps = 1 .. 6
  BY DEF StartSteps
<1>2. /\ Len(StopSteps) = 5
      /\ StopSteps[1] = "open" /\ StopSteps[2] = "serialRequestLock"
      /\ StopSteps[3] = "RXBufferLock" /\ StopSteps[4] = "TX"
      /\ StopSteps[5] = "RX"
  BY DEF StopSteps
<1>3. Resources = {StartSteps[i] : i \in 1 .. 6}
  BY <1>1 DEF Resources
<1>4. \A i \in 1 .. 6 : StartSteps[i] \in Resources
  BY <1>3
<1>5. "RXBufferLock" \in Resources
  BY <1>1, <1>4
<1>6. \A i \in 1 .. 6 : StartSteps[i] = "stream" <=> i = 6
  BY <1>1
<1>7. \A i \in 1 .. 5 : StopSteps[i] = "open" <=> i = 1
  BY <1>2
<1> QED
  BY <1>1, <1>2, <1>3, <1>4, <1>5, <1>6, <1>7

(* What start has taken so far.                                            *)
Taken(n) == {StartSteps[i] : i \in 1 .. n}

LEMMA TakenGrows ==
  ASSUME NEW n \in 0 .. 5
  PROVE  Taken(n + 1) = Taken(n) \cup {StartSteps[n + 1]}
<1>1. 1 .. n + 1 = (1 .. n) \cup {n + 1}
  OBVIOUS
<1> QED
  BY <1>1 DEF Taken

LEMMA TakenStream ==
  ASSUME NEW n \in 0 .. 6, "stream" \in Taken(n)
  PROVE  n = 6
  BY Steps DEF Taken

-------------------------------------------------------------------------------
(* The inductive invariant: what each phase of the driver holds, and what  *)
(* the calls of IOKit and of the processes leave of the clients.           *)

DriverInv ==
  /\ phase = "matched" => held = {} /\ step = 0 /\ providerRefs = 0
  /\ phase = "starting" => held = Taken(step) /\ providerRefs = 0
  /\ phase = "running" => held = Resources /\ providerRefs = 1
  /\ phase = "terminating" => held = Resources \ {"stream"} /\ providerRefs = 1
  /\ phase \in {"failed", "stopping", "stopped"} => "stream" \notin held
  /\ phase = "stopping" => /\ step \in 0 .. Len(StopSteps)
                           /\ providerRefs = IF step = 0 THEN 1 ELSE 0

Quiet(c) == life[c] \in {"none", "stopped", "failed"}

LifeInv ==
  /\ phase \in {"matched", "starting", "failed"} => \A c \in Clients : life[c] = "none"
  /\ phase = "stopping" => \A c \in Clients : Quiet(c)
  /\ \A c \in handles : life[c] \in {"started", "inactive", "stopped"}
  /\ \A c \in opened : life[c] # "none"

PointerInv == client \in opened => opener = client

IInv ==
  TypeOK /\ DriverInv /\ LifeInv /\ PointerInv /\ OpenerIsAlive

LEMMA InitInvariant == Init => IInv
<1> SUFFICES ASSUME Init PROVE IInv
  OBVIOUS
<1>1. 0 \in 0 .. Len(StartSteps)
  BY Steps
<1>2. TypeOK
  BY <1>1 DEF Init, DriverInit, TypeOK, DriverTypeOK, Phases, Lives
<1>3. DriverInv /\ LifeInv
  BY DEF Init, DriverInit, DriverInv, LifeInv
<1> QED
  BY <1>2, <1>3 DEF Init, IInv, PointerInv, OpenerIsAlive

-------------------------------------------------------------------------------
(* The driver's own steps leave the clients alone.                         *)

LEMMA StartInvariant ==
  ASSUME IInv, Start \/ StartStep \/ StartReturn, UNCHANGED clientVars
  PROVE  IInv'
<1> USE DEF IInv, clientVars
<1>1. CASE Start
  <2>1. DriverTypeOK' /\ DriverInv'
    <3>1. Taken(0) = {}
      BY DEF Taken
    <3> QED
      BY <1>1, <3>1 DEF Start, TypeOK, DriverTypeOK, DriverInv, Phases
  <2>2. LifeInv'
    BY <1>1 DEF Start, LifeInv, Quiet
  <2> QED
    BY <1>1, <2>1, <2>2
       DEF Start, TypeOK, PointerInv, OpenerIsAlive
<1>2. CASE StartStep
  <2>1. step \in 0 .. 5 /\ step + 1 \in 1 .. 6 /\ StartSteps[step + 1] \in Resources
    BY <1>2, Steps DEF StartStep, TypeOK, DriverTypeOK
  <2>2. DriverTypeOK'
    BY <1>2, <2>1, Steps DEF StartStep, TypeOK, DriverTypeOK, Phases
  <2>3. DriverInv'
    <3>1. CASE held' = held \cup {StartSteps[step + 1]} /\ step' = step + 1 /\ UNCHANGED phase
      <4>1. held' = Taken(step')
        BY <1>2, <3>1, <2>1, TakenGrows DEF StartStep, DriverInv
      <4> QED
        BY <1>2, <3>1, <4>1 DEF StartStep, DriverInv
    <3>2. CASE phase' = "failed" /\ UNCHANGED <<held, step>>
      <4>1. "stream" \notin held
        BY <1>2, <2>1, TakenStream DEF StartStep, DriverInv
      <4> QED
        BY <1>2, <3>2, <4>1 DEF StartStep, DriverInv
    <3> QED
      BY <1>2, <3>1, <3>2 DEF StartStep
  <2>4. LifeInv'
    BY <1>2 DEF StartStep, LifeInv, Quiet
  <2> QED
    BY <1>2, <2>2, <2>3, <2>4
       DEF StartStep, TypeOK, PointerInv, OpenerIsAlive
<1>3. CASE StartReturn
  <2>1. held' = Resources /\ providerRefs' = 1 /\ phase' = "running"
    BY <1>3, Steps DEF StartReturn, DriverInv, Taken
  <2>2. DriverTypeOK' /\ DriverInv'
    BY <1>3, <2>1 DEF StartReturn, TypeOK, DriverTypeOK, DriverInv, Phases
  <2>3. LifeInv'
    BY <1>3, <2>1 DEF StartReturn, LifeInv, Quiet
  <2> QED
    BY <1>3, <2>1, <2>2, <2>3
       DEF StartReturn, TypeOK, PointerInv, OpenerIsAlive
<1> QED
  BY <1>1, <1>2, <1>3

LEMMA UnloadInvariant ==
  ASSUME IInv, Terminate \/ Stop \/ StopStep, UNCHANGED clientVars,
         Stop => \A c \in Clients : Quiet(c)
  PROVE  IInv'
<1> USE DEF IInv, clientVars
<1>1. CASE Terminate
  <2>1. DriverTypeOK' /\ DriverInv'
    BY <1>1 DEF Terminate, TypeOK, DriverTypeOK, DriverInv, Phases
  <2>2. LifeInv'
    BY <1>1 DEF Terminate, LifeInv, Quiet
  <2> QED
    BY <1>1, <2>1, <2>2 DEF TypeOK, PointerInv, OpenerIsAlive
<1>2. CASE Stop
  <2>1. DriverTypeOK' /\ DriverInv'
    BY <1>2, Steps DEF Stop, TypeOK, DriverTypeOK, DriverInv, Phases
  <2>2. LifeInv'
    BY <1>2 DEF Stop, LifeInv, Quiet
  <2> QED
    BY <1>2, <2>1, <2>2
       DEF Stop, TypeOK, PointerInv, OpenerIsAlive
<1>3. CASE StopStep
  <2>1. CASE step = Len(StopSteps)
    <3>1. DriverTypeOK' /\ DriverInv'
      BY <1>3, <2>1 DEF StopStep, TypeOK, DriverTypeOK, DriverInv, Phases
    <3>2. LifeInv'
      BY <1>3, <2>1 DEF StopStep, LifeInv, Quiet
    <3> QED
      BY <1>3, <2>1, <3>1, <3>2
         DEF StopStep, TypeOK, PointerInv, OpenerIsAlive
  <2>2. CASE step # Len(StopSteps)
    <3>1. step \in 0 .. 4 /\ step + 1 \in 1 .. 5
      BY <1>3, <2>2, Steps DEF StopStep, DriverInv
    <3>2. /\ held' \subseteq held /\ step' = step + 1 /\ phase' = phase
          /\ providerRefs' = IF step = 0 THEN providerRefs - 1 ELSE providerRefs
      BY <1>3, <2>2, <3>1, Steps DEF StopStep
    <3>3. DriverTypeOK' /\ DriverInv'
      BY <1>3, <3>1, <3>2, Steps DEF StopStep, TypeOK, DriverTypeOK, DriverInv
    <3>4. LifeInv'
      BY <1>3, <3>2 DEF StopStep, LifeInv, Quiet
    <3> QED
      BY <3>3, <3>4 DEF TypeOK, PointerInv, OpenerIsAlive
  <2> QED
    BY <2>1, <2>2
<1> QED
  BY <1>1, <1>2, <1>3

-------------------------------------------------------------------------------
(* The steps of the clients leave the driver alone.                        *)

LEMMA OpenInvariant ==
  ASSUME IInv, NEW c \in Clients, IOServiceOpen(c) \/ OpenUserClient(c)
  PROVE  IInv'
<1> USE ClientAssumption DEF IInv, driverVars
<1>1. CASE IOServiceOpen(c)
  <2>1. PICK l \in {"started", "failed"} :
          /\ life' = [life EXCEPT ![c] = l]
          /\ handles' = IF l = "started" THEN handles \cup {c} ELSE handles
    BY <1>1 DEF IOServiceOpen, Becomes
  <2>2. life[c] = "none" /\ phase = "running" /\ client' = c
    BY <1>1 DEF IOServiceOpen
  <2>3. TypeOK' /\ DriverInv'
    BY <1>1, <2>1 DEF IOServiceOpen, TypeOK, DriverTypeOK, DriverInv, Lives
  <2>4. LifeInv'
    BY <1>1, <2>1, <2>2 DEF IOServiceOpen, TypeOK, LifeInv, Quiet
  <2>5. PointerInv'
    BY <1>1, <2>2 DEF IOServiceOpen, PointerInv, LifeInv
  <2>6. OpenerIsAlive'
    BY <1>1, <2>1, <2>2 DEF IOServiceOpen, TypeOK, OpenerIsAlive
  <2> QED
    BY <1>1, <2>3, <2>4, <2>5, <2>6 DEF IOServiceOpen
<1>2. CASE OpenUserClient(c)
  <2>1. TypeOK' /\ DriverInv'
    BY <1>2 DEF OpenUserClient, TypeOK, DriverTypeOK, DriverInv
  <2>2. LifeInv'
    BY <1>2 DEF OpenUserClient, LifeInv, Quiet
  <2>3. PointerInv' /\ OpenerIsAlive'
    BY <1>2 DEF OpenUserClient, TypeOK, PointerInv, OpenerIsAlive
  <2> QED
    BY <1>2, <2>1, <2>2, <2>3 DEF OpenUserClient
<1> QED
  BY <1>1, <1>2

(* Closing alone keeps what the invariant says of client and opener.       *)
LEMMA CloseKeeps ==
  ASSUME IInv, NEW c \in Clients, CloseUserClient(c), UNCHANGED opened
  PROVE  /\ client' \in Clients \cup {NULL} /\ opener' \in (Clients \ {c}) \cup {NULL}
         /\ opener' # NULL => opener' = opener
         /\ PointerInv'
  BY ClientAssumption DEF IInv, CloseUserClient, TypeOK, PointerInv

LEMMA CloseInvariant ==
  ASSUME IInv, NEW c \in Clients, CallClose(c) \/ Leave(c)
  PROVE  IInv'
<1> USE DEF IInv, driverVars
<1>1. CASE CallClose(c)
  <2>1. /\ client' \in Clients \cup {NULL} /\ opener' \in Clients \cup {NULL}
        /\ opener' # NULL => opener' = opener
        /\ PointerInv'
    BY <1>1, CloseKeeps DEF CallClose
  <2>2. TypeOK' /\ DriverInv'
    BY <1>1, <2>1 DEF CallClose, TypeOK, DriverTypeOK, DriverInv
  <2>3. LifeInv' /\ OpenerIsAlive'
    BY <1>1, <2>1 DEF CallClose, LifeInv, Quiet, OpenerIsAlive
  <2> QED
    BY <1>1, <2>1, <2>2, <2>3 DEF CallClose
<1>2. CASE Leave(c)
  <2>1. /\ c \in handles /\ handles' = handles \ {c}
        /\ life' = [life EXCEPT ![c] = IF @ = "started" THEN "dead" ELSE @]
    BY <1>2 DEF Leave
  <2>2. TypeOK' /\ DriverInv'
    BY <1>2, <2>1 DEF Leave, TypeOK, DriverTypeOK, DriverInv, Lives
  <2>3. LifeInv'
    BY <1>2, <2>1 DEF Leave, TypeOK, LifeInv, Quiet
  <2>4. OpenerIsAlive'
    BY <1>2, <2>1 DEF Leave, TypeOK, OpenerIsAlive
  <2> QED
    BY <1>2, <2>2, <2>3, <2>4 DEF Leave, PointerInv
<1> QED
  BY <1>1, <1>2

LEMMA TerminationInvariant ==
  ASSUME IInv, NEW c \in Clients, TerminationStep(c)
  PROVE  IInv'
<1> USE DEF IInv, driverVars
<1>1. CASE ClientClose(c)
  <2>1. /\ client' \in Clients \cup {NULL} /\ opener' \in Clients \cup {NULL}
        /\ opener' # NULL => opener' = opener
        /\ PointerInv'
    BY <1>1, CloseKeeps DEF ClientClose
  <2>2. life[c] = "dead" /\ life' = [life EXCEPT ![c] = "inactive"]
    BY <1>1 DEF ClientClose, Becomes
  <2>3. TypeOK' /\ DriverInv'
    BY <1>1, <2>1, <2>2 DEF ClientClose, TypeOK, DriverTypeOK, DriverInv, Lives
  <2>4. LifeInv'
    BY <1>1, <2>2 DEF ClientClose, TypeOK, LifeInv, Quiet
  <2>5. OpenerIsAlive'
    BY <2>1, <2>2 DEF TypeOK, OpenerIsAlive
  <2> QED
    BY <1>1, <2>1, <2>3, <2>4, <2>5 DEF ClientClose
<1>2. CASE Deactivate(c)
  <2>1. life[c] \in {"started", "dead"} /\ life' = [life EXCEPT ![c] = "inactive"]
    BY <1>2 DEF Deactivate, Becomes
  <2>2. TypeOK' /\ DriverInv'
    BY <1>2, <2>1 DEF Deactivate, TypeOK, DriverTypeOK, DriverInv, Lives
  <2>3. LifeInv' /\ OpenerIsAlive'
    BY <1>2, <2>1 DEF Deactivate, TypeOK, LifeInv, Quiet, OpenerIsAlive
  <2> QED
    BY <1>2, <2>2, <2>3 DEF Deactivate, PointerInv
<1>3. CASE DidTerminate(c)
  <2>1. /\ client' \in Clients \cup {NULL}
        /\ opener' \in (Clients \ {c}) \cup {NULL}
        /\ opener' # NULL => opener' = opener
        /\ PointerInv'
    BY <1>3, CloseKeeps DEF DidTerminate
  <2>2. life[c] = "inactive" /\ life' = [life EXCEPT ![c] = "stopped"]
    BY <1>3 DEF DidTerminate, Becomes
  <2>3. TypeOK' /\ DriverInv'
    BY <1>3, <2>1, <2>2 DEF DidTerminate, TypeOK, DriverTypeOK, DriverInv, Lives
  <2>4. LifeInv'
    BY <1>3, <2>2 DEF DidTerminate, TypeOK, LifeInv, Quiet
  <2>5. OpenerIsAlive'
    BY <2>1, <2>2 DEF TypeOK, OpenerIsAlive
  <2> QED
    BY <1>3, <2>1, <2>3, <2>4, <2>5 DEF DidTerminate
<1> QED
  BY <1>1, <1>2, <1>3 DEF TerminationStep

LEMMA SendInvariant ==
  ASSUME IInv, NEW c \in Clients, SendTest(c) \/ SendReturn(c)
  PROVE  IInv'
<1>1. /\ sending' \subseteq Clients
      /\ UNCHANGED <<driverVars, client, opener, life, handles, opened>>
  BY DEF SendTest, SendReturn, IInv, TypeOK
<1> QED
  BY <1>1 DEF IInv, driverVars, TypeOK, DriverTypeOK, DriverInv, LifeInv, Quiet,
     PointerInv, OpenerIsAlive

LEMMA NextInvariant == IInv /\ [Next]_vars => IInv'
<1> SUFFICES ASSUME IInv, [Next]_vars PROVE IInv'
  OBVIOUS
<1>1. CASE (DriverStep \/ Terminate) /\ UNCHANGED clientVars
  <2>1. CASE Start \/ StartStep \/ StartReturn
    BY <1>1, <2>1, StartInvariant
  <2>2. CASE Terminate \/ StopStep
    <3>1. ~Stop
      BY <2>2 DEF Terminate, StopStep, Stop
    <3> QED
      BY <1>1, <2>2, <3>1, UnloadInvariant
  <2> QED
    BY <1>1, <2>1, <2>2 DEF DriverStep
<1>2. CASE StopDriver
  BY <1>2, UnloadInvariant DEF StopDriver, Quiet
<1>3. CASE \E c \in Clients : ProcessStep(c) \/ TerminationStep(c) \/ SendReturn(c)
  BY <1>3, OpenInvariant, CloseInvariant, TerminationInvariant, SendInvariant
     DEF ProcessStep
<1>4. CASE UNCHANGED vars
  BY <1>4 DEF vars, driverVars, clientVars, IInv, TypeOK, DriverTypeOK,
     DriverInv, LifeInv, Quiet, PointerInv, OpenerIsAlive
<1> QED
  BY <1>1, <1>2, <1>3, <1>4 DEF Next

LEMMA InvariantHolds == Spec => []IInv
  BY InitInvariant, NextInvariant, PTL DEF Spec

-------------------------------------------------------------------------------
(* The theorems.                                                           *)

(* Every variable keeps its type; the references on the provider are 0 or  *)
(* 1: start's retain and releaseResources's release match.                 *)
THEOREM TypeCorrect == Spec => []TypeOK
<1>1. IInv => TypeOK
  BY DEF IInv
<1> QED
  BY <1>1, InvariantHolds, PTL

(* While the serial stream is published, the driver has its locks and its  *)
(* queues, however its start and its termination interleave with clients.  *)
THEOREM PublishedReady == Spec => []PublishedIsReady
<1>1. IInv => PublishedIsReady
  <2> SUFFICES ASSUME IInv, "stream" \in held PROVE held = Resources
    BY DEF PublishedIsReady
  <2>1. phase \in {"matched", "starting", "running", "terminating"}
    BY DEF IInv, TypeOK, DriverTypeOK, DriverInv, Phases
  <2>2. CASE phase = "starting"
    <3>1. step = 6 /\ held = Taken(6)
      BY <2>2, Steps, TakenStream DEF IInv, TypeOK, DriverTypeOK, DriverInv
    <3> QED
      BY <3>1, Steps DEF Taken
  <2> QED
    BY <2>1, <2>2 DEF IInv, DriverInv
<1> QED
  BY <1>1, InvariantHolds, PTL

(* However a process leaves, a user client that IOKit has stopped does not *)
(* keep the driver open.                                                   *)
THEOREM OpenerAlive == Spec => []OpenerIsAlive
<1>1. IInv => OpenerIsAlive
  BY DEF IInv
<1> QED
  BY <1>1, InvariantHolds, PTL

(* A user client that opened the driver leaves no pointer to itself when   *)
(* it goes: didTerminate and clientClose clear it.                         *)
THEOREM PointerCleared == Spec => []NoPointerLeftBehind
<1>1. IInv => NoPointerLeftBehind
  BY DEF IInv, PointerInv, OpenerIsAlive, NoPointerLeftBehind, Exists
<1> QED
  BY <1>1, InvariantHolds, PTL
===============================================================================
