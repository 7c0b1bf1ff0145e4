------------------------------ MODULE UserClient -------------------------------
(***************************************************************************)
(* The tester's connections to the driver.  Each is an object that IOKit   *)
(* starts for a process and terminates when the process closes it, dies,   *)
(* or the driver goes; the driver keeps an unguarded pointer, client, that *)
(* the object's start sets and closeUserClient clears.  IOService's open   *)
(* and close (the driver has one opener) and the order in which IOKit      *)
(* calls terminate, didTerminate and stop are external.                    *)
(***************************************************************************)
EXTENDS DriverLifecycle

CONSTANTS
  Clients,    \* user client objects, each for a process of its own
  NULL        \* no client

ASSUME ClientAssumption == NULL \notin Clients

VARIABLES
  client,   \* the driver's pointer to a user client
  opener,   \* the user client that has the driver open
  life,     \* where each user client is in its life
  handles,  \* user clients whose process still has its connection
  sending,  \* user clients in a sendData that found RXBufferLock
  opened    \* history: user clients that ever opened the driver

clientVars == <<client, opener, life, handles, sending, opened>>
vars == <<driverVars, clientVars>>

Lives == {"none", "started", "dead", "inactive", "stopped", "failed"}

(* The object is there until IOKit is done with it and nobody has it.      *)
Exists(c) == life[c] \in {"started", "dead", "inactive"} \/ c \in handles

Becomes(c, l) == life' = [life EXCEPT ![c] = l]

-------------------------------------------------------------------------------

(* IOServiceOpen: initWithTask and start.  client is set before the result *)
(* of super::start is looked at, whoever has the driver open.  IOKit starts*)
(* a user client of this class for this driver only, so the cast of the    *)
(* provider does not fail.                                                 *)
IOServiceOpen(c) ==
  /\ phase = "running"
  /\ life[c] = "none"
  /\ client' = c
  /\ \/ Becomes(c, "started") /\ handles' = handles \cup {c}
     \/ Becomes(c, "failed") /\ UNCHANGED handles   \* super::start failed
  /\ UNCHANGED <<driverVars, opener, sending, opened>>

(* kClientOpen; exclusive, and refused while the client is inactive.       *)
OpenUserClient(c) ==
  /\ c \in handles
  /\ life[c] = "started"
  /\ opener = NULL
  /\ opener' = c
  /\ opened' = opened \cup {c}
  /\ UNCHANGED <<driverVars, client, life, handles, sending>>

(* Mutant: the driver keeps its pointer.                                   *)
CloseUserClient_KeepsPointer(c) ==
  IF opener = c THEN opener' = NULL /\ UNCHANGED client
  ELSE UNCHANGED <<opener, client>>

(* Only the opener closes; it clears the pointer, whoever it points to.    *)
CloseUserClient(c) ==
  IF opener = c THEN opener' = NULL /\ client' = NULL
  ELSE UNCHANGED <<opener, client>>

(* kClientClose                                                            *)
CallClose(c) ==
  /\ c \in handles
  /\ CloseUserClient(c)
  /\ UNCHANGED <<driverVars, life, handles, sending, opened>>

(* The process closes the connection or dies, wherever it is.              *)
Leave(c) ==
  /\ c \in handles
  /\ handles' = handles \ {c}
  /\ life' = [life EXCEPT ![c] = IF @ = "started" THEN "dead" ELSE @]
  /\ UNCHANGED <<driverVars, client, opener, sending, opened>>

(* clientClose, called for IOServiceClose and by clientDied: closes, then  *)
(* terminates the user client.                                             *)
ClientClose(c) ==
  /\ life[c] = "dead"
  /\ CloseUserClient(c)
  /\ Becomes(c, "inactive")
  /\ UNCHANGED <<driverVars, handles, sending, opened>>

(* External: a terminated driver makes its clients inactive.               *)
Deactivate(c) ==
  /\ phase = "terminating"
  /\ life[c] \in {"started", "dead"}
  /\ Becomes(c, "inactive")
  /\ UNCHANGED <<driverVars, client, opener, handles, sending, opened>>

(* Mutant: it leaves closing to clientClose.                               *)
DidTerminate_NoClose(c) ==
  /\ life[c] = "inactive"
  /\ Becomes(c, "stopped")
  /\ UNCHANGED <<driverVars, client, opener, handles, sending, opened>>

(* Mutant: it defers while the process has its connection.                 *)
DidTerminate_Defers(c) ==
  /\ life[c] = "inactive"
  /\ c \notin handles
  /\ CloseUserClient(c)
  /\ Becomes(c, "stopped")
  /\ UNCHANGED <<driverVars, handles, sending, opened>>

(* didTerminate closes and never defers, so that IOKit stops the client.   *)
DidTerminate(c) ==
  /\ life[c] = "inactive"
  /\ CloseUserClient(c)
  /\ Becomes(c, "stopped")
  /\ UNCHANGED <<driverVars, handles, sending, opened>>

(* External: stop is called when every client is stopped and none has the  *)
(* driver open.  A sendData that is under way holds up neither.            *)
StopDriver ==
  /\ \A c \in Clients : life[c] \in {"none", "stopped", "failed"}
  /\ opener = NULL
  /\ Stop
  /\ UNCHANGED clientVars

-------------------------------------------------------------------------------

(* kSendData, which needs no open and no live client: a process calls as   *)
(* long as it has its connection.  sendData goes on when RXBufferLock is   *)
(* not 0; what it does then is VirtualSerialPort's.  A call that finds no  *)
(* lock changes nothing, reports success and is left out.                  *)
SendTest(c) ==
  /\ c \in handles
  /\ c \notin sending
  /\ "RXBufferLock" \in held
  /\ sending' = sending \cup {c}
  /\ UNCHANGED <<driverVars, client, opener, life, handles, opened>>

SendReturn(c) ==
  /\ c \in sending
  /\ sending' = sending \ {c}
  /\ UNCHANGED <<driverVars, client, opener, life, handles, opened>>

-------------------------------------------------------------------------------

Init ==
  /\ DriverInit
  /\ client = NULL
  /\ opener = NULL
  /\ life = [c \in Clients |-> "none"]
  /\ handles = {}
  /\ sending = {}
  /\ opened = {}

ProcessStep(c) ==
  IOServiceOpen(c) \/ OpenUserClient(c) \/ CallClose(c) \/ Leave(c) \/ SendTest(c)

TerminationStep(c) == ClientClose(c) \/ Deactivate(c) \/ DidTerminate(c)

Next ==
  \/ (DriverStep \/ Terminate) /\ UNCHANGED clientVars
  \/ StopDriver
  \/ \E c \in Clients : ProcessStep(c) \/ TerminationStep(c) \/ SendReturn(c)

Spec == Init /\ [][Next]_vars

(* IOKit carries out a termination it has begun and a call returns; no     *)
(* process has to do anything.                                             *)
FairSpec ==
  /\ Spec
  /\ WF_vars(StopStep /\ UNCHANGED clientVars)
  /\ WF_vars(StopDriver)
  /\ \A c \in Clients : WF_vars(TerminationStep(c)) /\ WF_vars(SendReturn(c))

-------------------------------------------------------------------------------
(* Properties.                                                             *)

(* Every variable has its type.                                            *)
TypeOK ==
  /\ DriverTypeOK
  /\ client \in Clients \cup {NULL}
  /\ opener \in Clients \cup {NULL}
  /\ life \in [Clients -> Lives]
  /\ handles \subseteq Clients
  /\ sending \subseteq Clients
  /\ opened \subseteq Clients

(* However a process ends, and when the driver goes under it, its client   *)
(* does not keep the driver open: the next tester can open it.             *)
OpenerIsAlive ==
  opener # NULL => life[opener] \in {"started", "dead", "inactive"}

(* The driver points at a user client that is gone only if that one never  *)
(* opened the driver.                                                      *)
NoPointerLeftBehind ==
  client # NULL /\ ~Exists(client) => client \notin opened

(* Whatever its processes do, a driver that is being unloaded comes to its *)
(* stop.                                                                   *)
UnloadCompletes == phase = "terminating" ~> phase = "stopped"

-------------------------------------------------------------------------------

(* VSPUserClient.cpp:173: "If I/O is still outstanding, set defer to true   *)
(* and the user client will not have stop called on it": a user client in  *)
(* the middle of a sendData is not stopped.                                *)
PendingIODefersStop == \A c \in sending : life[c] # "stopped"
===============================================================================
