----------------------------- MODULE Notifications -----------------------------
(***************************************************************************)
(* What the tester is told of the port: the state word and the UART        *)
(* parameters, sent as mach messages by the thread that changes them and,  *)
(* once, by the tester's own getInfo; and what the tester's window shows.  *)
(*                                                                         *)
(* Two threads: "session" runs the serial client's calls, one at a time,   *)
(* and "tester" is the tester's main thread, which makes its calls and,    *)
(* between them, takes messages from its notification port.  The state     *)
(* word keeps the bits that acquirePort, releasePort, executeEvent and     *)
(* sendData set for certain, and QUEUE for the bits that describe the      *)
(* queues, which checkQueues sets and never clears all of; which of them,  *)
(* and what races them, is in VirtualSerialPort.                           *)
(***************************************************************************)
EXTENDS PortConfig, Sequences

CONSTANTS
  EventArgs,  \* the parameter events a client sends: [event, data]
  MaxEvents   \* bound: calls of the client and of sendData

Threads == {"session", "tester"}
Bits    == {"ACQUIRED", "ENABLE", "ACTIVE", "CTS", "DSR", "QUEUE"}
Events  == {"DATA_RATE", "DATA_SIZE", "STOP_BITS", "DATA_INTEGRITY",
            "RX_DATA_RATE", "RX_DATA_SIZE", "RX_STOP_BITS",
            "RX_DATA_INTEGRITY", "XON_BYTE", "XOFF_BYTE", "SPECIAL_BYTE",
            "VALID_DATA_BYTE", "FLOW_CONTROL", "MIN_LATENCY",
            "DATA_LATENCY", "DELAY"}
ByteEvents    == {"SPECIAL_BYTE", "VALID_DATA_BYTE"}
LatencyEvents == {"DATA_LATENCY", "DELAY"}

(* A byte event is about a byte: the index into SWspecial is not checked.  *)
ASSUME EventAssumption ==
  /\ EventArgs \subseteq [event : Events, data : UInt32]
  /\ \A arg \in EventArgs : arg.event \in ByteEvents => arg.data \in UInt8
  /\ MaxEvents \in Nat

VARIABLES
  State,       \* fPort.State
  config,      \* the UART parameters of fPort
  registered,  \* m_notificationPort is the tester's port, not 0
  queue,       \* messages in the notification port
  pc,          \* where each thread is
  snap,        \* the PortInfoNotification a thread is about to send
  seen,        \* the state word getInfo has read
  shown,       \* the tester's window
  setting,     \* history: the data last accepted or restored for an event
  stale,       \* history: kinds whose last message was overtaken
  events       \* calls so far

portVars == <<State, config, setting>>
vars == <<portVars, registered, queue, pc, snap, seen, shown, stale, events>>

Blank == <<>>
Goto(t, label) == pc' = [pc EXCEPT ![t] = label]

(* The session begins a call.                                              *)
Call == pc["session"] = "idle" /\ events < MaxEvents /\ events' = events + 1

-------------------------------------------------------------------------------
(* writePortState, which tells the tester of a change while it holds       *)
(* serialRequestLock; sendPortState drops it when no port is registered.   *)
WritePortState(new) ==
  /\ State' = new
  /\ IF new # State /\ registered
       THEN /\ queue' = Append(queue, [id |-> "state", state |-> new])
            /\ stale' = stale \ {"state"}
       ELSE UNCHANGED <<queue, stale>>

(* The data that would have set what setStructureDefaults restores.        *)
DefaultSetting(e) ==
  CASE e = "DATA_RATE"      -> 2 * kDefaultBaudRate
    [] e = "DATA_SIZE"      -> 16
    [] e = "STOP_BITS"      -> 1
    [] e = "DATA_INTEGRITY" -> PARITY_NONE
    [] e = "XON_BYTE"       -> 17
    [] e = "XOFF_BYTE"      -> 19
    [] e = "FLOW_CONTROL"   -> DEFAULT_AUTO
    [] OTHER                -> 0

Defaults ==
  /\ config' = SetStructureDefaults(config)
  /\ setting' = [e \in Events |->
                   IF e \in LatencyEvents THEN setting[e] ELSE DefaultSetting(e)]

AcquirePort ==
  /\ Call
  /\ "ACQUIRED" \notin State
  /\ WritePortState({"ACQUIRED", "ENABLE"})
  /\ Goto("session", "acq_defaults")
  /\ UNCHANGED <<config, setting, registered, snap, seen, shown>>

AcquireDefaults ==
  /\ pc["session"] = "acq_defaults"
  /\ Defaults
  /\ Goto("session", "acq_cts")
  /\ UNCHANGED <<State, registered, queue, snap, seen, shown, stale, events>>

AcquireReturn ==
  /\ pc["session"] = "acq_cts"
  /\ WritePortState(State \cup {"CTS"})
  /\ Goto("session", "idle")
  /\ UNCHANGED <<config, setting, registered, snap, seen, shown, events>>

ReleasePort ==
  /\ Call
  /\ "ACQUIRED" \in State
  /\ WritePortState({})
  /\ UNCHANGED <<config, setting, registered, pc, snap, seen, shown>>

(* The checkQueues of getState, which needs no open port.                  *)
GetState ==
  /\ Call
  /\ WritePortState(State \cup {"QUEUE"})
  /\ UNCHANGED <<config, setting, registered, pc, snap, seen, shown>>

(* executeEvent of a UART parameter; a refused one is reported as well.    *)
ExecuteEvent(arg) ==
  /\ Call
  /\ "ACQUIRED" \in State
  /\ IF Refused(arg.event, arg.data)
       THEN UNCHANGED <<config, setting>>
       ELSE /\ config' = Stored(config, arg.event, arg.data)
            /\ setting' = [setting EXCEPT ![arg.event] = arg.data]
  /\ Goto("session", "info_read")
  /\ UNCHANGED <<State, registered, queue, snap, seen, shown, stale>>

(* executeEvent(PD_E_ACTIVE).                                              *)
SetActive(active) ==
  /\ Call
  /\ "ACQUIRED" \in State
  /\ IF active /\ "ACTIVE" \notin State
       THEN Goto("session", "ev_defaults") /\ UNCHANGED <<State, queue, stale>>
       ELSE /\ WritePortState(IF active THEN State ELSE State \ {"ACTIVE"})
            /\ Goto("session", "info_read")
  /\ UNCHANGED <<config, setting, registered, snap, seen, shown>>

ActivateDefaults ==
  /\ pc["session"] = "ev_defaults"
  /\ Defaults
  /\ Goto("session", "ev_active")
  /\ UNCHANGED <<State, registered, queue, snap, seen, shown, stale, events>>

(* Mutant: activating the port does not report its parameters.             *)
Activate_NoInfo ==
  /\ pc["session"] = "ev_active"
  /\ WritePortState(State \cup {"ACTIVE"})
  /\ Goto("session", "idle")
  /\ UNCHANGED <<config, setting, registered, snap, seen, shown, events>>

Activate ==
  /\ pc["session"] = "ev_active"
  /\ WritePortState(State \cup {"ACTIVE"})
  /\ Goto("session", "info_read")
  /\ UNCHANGED <<config, setting, registered, snap, seen, shown, events>>

-------------------------------------------------------------------------------
(* sendPortInfo: the parameters are copied, then sent, without a lock; on  *)
(* no registered port it returns at once.                                  *)

AfterInfo(t) == IF t = "session" THEN "idle" ELSE "state_read"

(* Mutant: sendPortInfo waits for a port to be registered.                 *)
InfoRead_Waits(t) ==
  /\ pc[t] = "info_read"
  /\ registered
  /\ snap' = [snap EXCEPT ![t] = Info(config)]
  /\ Goto(t, "info_send")
  /\ UNCHANGED <<portVars, registered, queue, seen, shown, stale, events>>

InfoRead(t) ==
  /\ pc[t] = "info_read"
  /\ IF registered
       THEN snap' = [snap EXCEPT ![t] = Info(config)] /\ Goto(t, "info_send")
       ELSE UNCHANGED snap /\ Goto(t, AfterInfo(t))
  /\ UNCHANGED <<portVars, registered, queue, seen, shown, stale, events>>

InfoSend(t) ==
  /\ pc[t] = "info_send"
  /\ queue' = Append(queue, [id |-> "info", info |-> snap[t]])
  /\ stale' = IF snap[t] = Info(config) THEN stale \ {"info"} ELSE stale \cup {"info"}
  /\ snap' = [snap EXCEPT ![t] = Blank]
  /\ Goto(t, AfterInfo(t))
  /\ UNCHANGED <<portVars, registered, seen, shown, events>>

-------------------------------------------------------------------------------
(* The tester: it registers its port and asks once for everything.         *)

Register ==
  /\ pc["tester"] = "launch"
  /\ registered' = TRUE
  /\ Goto("tester", "info_read")
  /\ UNCHANGED <<portVars, queue, snap, seen, shown, stale, events>>

(* getInfo: after sendPortInfo, readPortState and then sendPortState,      *)
(* which holds no lock here.                                               *)
StateRead ==
  /\ pc["tester"] = "state_read"
  /\ seen' = State
  /\ Goto("tester", "state_send")
  /\ UNCHANGED <<portVars, registered, queue, snap, shown, stale, events>>

StateSend ==
  /\ pc["tester"] = "state_send"
  /\ queue' = Append(queue, [id |-> "state", state |-> seen])
  /\ stale' = IF seen = State THEN stale \ {"state"}
              ELSE stale \cup {"state"} \cup (IF seen = {} THEN {"info"} ELSE {})
  /\ seen' = {}
  /\ Goto("tester", "loop")
  /\ UNCHANGED <<portVars, registered, snap, shown, events>>

(* sendData, whether or not the port is open: checkQueues, then            *)
(* writePortState(256, 256).                                               *)
SendData ==
  /\ pc["tester"] = "loop"
  /\ events < MaxEvents
  /\ events' = events + 1
  /\ WritePortState(State \cup {"QUEUE"})
  /\ Goto("tester", "send_dsr")
  /\ UNCHANGED <<config, setting, registered, snap, seen, shown>>

SendReturn ==
  /\ pc["tester"] = "send_dsr"
  /\ WritePortState(State \cup {"DSR"})
  /\ Goto("tester", "loop")
  /\ UNCHANGED <<config, setting, registered, snap, seen, shown, events>>

(* updatePortInfo: stop bits are halved and the parities named.            *)
UpdatePortInfo(info) ==
  [info EXCEPT !.StopBits = @ \div 2, !.TX_Parity = parity[@ + 1],
               !.RX_Parity = parity[@ + 1]]

(* The state word's four groups of bits, and the parameters' fields.       *)
UpdatePortState(window, state) == [window EXCEPT !.state = state]
ResetPortInfo(window)          == [window EXCEPT !.info = Blank]

(* MyDriverRequestCallback: a state of 0 blanks the parameters.            *)
Drain ==
  /\ pc["tester"] = "loop"
  /\ queue # <<>>
  /\ queue' = Tail(queue)
  /\ LET msg == Head(queue) IN
       \/ /\ msg.id = "info"
          /\ shown' = [shown EXCEPT !.info = UpdatePortInfo(msg.info)]
       \/ /\ msg.id = "state"
          /\ msg.state # {}
          /\ shown' = UpdatePortState(shown, msg.state)
       \/ /\ msg.id = "state"
          /\ msg.state = {}
          /\ shown' = ResetPortInfo(UpdatePortState(shown, msg.state))
  /\ UNCHANGED <<portVars, registered, pc, snap, seen, stale, events>>

-------------------------------------------------------------------------------

Init ==
  /\ State = {"QUEUE"}
  /\ config = InitConfig
  /\ registered = FALSE
  /\ queue = <<>>
  /\ pc = [t \in Threads |-> IF t = "session" THEN "idle" ELSE "launch"]
  /\ snap = [t \in Threads |-> Blank]
  /\ seen = {}
  /\ shown = [state |-> {}, info |-> Blank]
  /\ setting = [e \in Events |-> 0]
  /\ stale = {}
  /\ events = 0

SessionStep ==
  \/ AcquireDefaults \/ AcquireReturn \/ ActivateDefaults \/ Activate
  \/ InfoRead("session") \/ InfoSend("session")

TesterStep ==
  \/ InfoRead("tester") \/ InfoSend("tester") \/ StateRead \/ StateSend
  \/ SendReturn

Next ==
  \/ AcquirePort \/ ReleasePort \/ GetState
  \/ \E arg \in EventArgs : ExecuteEvent(arg)
  \/ \E active \in BOOLEAN : SetActive(active)
  \/ SessionStep
  \/ Register \/ TesterStep \/ SendData \/ Drain

Spec == Init /\ [][Next]_vars

(* A call that was begun goes on, and the run loop of a launched tester    *)
(* takes what is in its port.  Nobody has to launch the tester or to call. *)
FairSpec ==
  Spec /\ WF_vars(SessionStep) /\ WF_vars(TesterStep) /\ WF_vars(Drain)

-------------------------------------------------------------------------------
(* Properties.                                                             *)

(* Every variable has its type.                                            *)
TypeOK ==
  /\ State \subseteq Bits
  /\ config \in Config
  /\ registered \in BOOLEAN
  /\ \A i \in DOMAIN queue :
       \/ queue[i].id = "info" /\ queue[i].info \in PortInfoNotification
       \/ queue[i].id = "state" /\ queue[i].state \subseteq Bits
  /\ \A t \in Threads : snap[t] = Blank \/ snap[t] \in PortInfoNotification
  /\ seen \subseteq Bits
  /\ shown.state \subseteq Bits
  /\ setting \in [Events -> UInt32]
  /\ stale \subseteq {"info", "state"}
  /\ events \in 0 .. MaxEvents

(* From the defaults on, whatever events a client sends, the parameters of *)
(* an acquired port lie in the ranges executeEvent accepts, and the tester *)
(* finds a name for the parities it is sent.                               *)
ConfigLegal ==
  "ACQUIRED" \in State /\ pc["session"] # "acq_defaults" => Legal(config)

(* The answer that data set by an event leads to: half of an odd rate or   *)
(* size is lost, the number of stop bits comes back doubled, a character   *)
(* is a byte, a latency too long for 32 bits of nanoseconds has wrapped,   *)
(* and the receiver's parameters, its parity too, are always answered 0.   *)
Answer(event, data) ==
  CASE event \in {"DATA_RATE", "DATA_SIZE"} -> data - (data % 2)
    [] event = "STOP_BITS" -> 2 * data
    [] event \in {"XON_BYTE", "XOFF_BYTE"} -> data % 256
    [] event = "MIN_LATENCY" -> IF data = 0 THEN 0 ELSE 1
    [] event \in LatencyEvents ->
         IF data * 1000 < UInt32Mod THEN data ELSE Latency(data) \div 1000
    [] event \in {"DATA_INTEGRITY", "FLOW_CONTROL"} -> data
    [] OTHER -> 0

(* Every parameter that requestEvent answers is a register of its own:     *)
(* the answer depends only on what executeEvent last accepted for it, or   *)
(* on its default when the defaults were restored since; refused events,   *)
(* other events and a new owner of the port change nothing of it.  The     *)
(* latencies alone have no default.                                        *)
ReadsBack == \A e \in Events : Requested(config, e) = Answer(e, setting[e])

(* No call is in progress and the tester has taken every message.          *)
Settled ==
  queue = <<>> /\ pc["session"] = "idle" /\ pc["tester"] \in {"launch", "loop"}

(* Once everything has settled the window shows the state word and, of an  *)
(* active port, its parameters - unless getInfo sent what another thread   *)
(* had changed since it looked and nothing was sent after it.              *)
DisplayCurrent ==
  (Settled /\ registered) =>
    /\ "state" \notin stale => shown.state = State
    /\ ("info" \notin stale /\ "ACTIVE" \in State) =>
         shown.info = UpdatePortInfo(Info(config))
    /\ State = {} /\ "state" \notin stale => shown.info = Blank

(* Whether or not a tester is launched, the calls return and the window    *)
(* catches up.                                                             *)
DisplayCatchesUp == <>[]Settled
===============================================================================
