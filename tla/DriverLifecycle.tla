---------------------------- MODULE DriverLifecycle ----------------------------
(***************************************************************************)
(* The life of the driver object: start takes its resources one after      *)
(* another and gives up at the first it cannot have, stop gives them back  *)
(* in another order.  These are the actions of the driver's own code;      *)
(* UserClient adds the clients whose termination stop waits for.           *)
(***************************************************************************)
EXTENDS Integers, Sequences

VARIABLES
  phase,         \* where the driver is in its life
  held,          \* what start has taken and stop has not given back
  step,          \* steps of start or of releaseResources that are done
  providerRefs   \* references start took on fProvider

driverVars == <<phase, held, step, providerRefs>>

Phases == {"matched", "starting", "running", "failed", "terminating",
           "stopping", "stopped"}

(* Mutant: the stream is published before the RX queue's lock exists.      *)
StartSteps_StreamEarly ==
  <<"open", "TX", "RX", "serialRequestLock", "stream", "RXBufferLock">>

(* allocateResources, then createSerialStream, which registers the nub.    *)
StartSteps ==
  <<"open", "TX", "RX", "serialRequestLock", "RXBufferLock", "stream">>

(* releaseResources; the stream is a client and is terminated before.      *)
StopSteps == <<"open", "serialRequestLock", "RXBufferLock", "TX", "RX">>

Resources == {StartSteps[i] : i \in DOMAIN StartSteps}

DriverInit ==
  /\ phase = "matched"
  /\ held = {}
  /\ step = 0
  /\ providerRefs = 0

(* start, as far as super::start and the cast of the provider: either may  *)
(* fail before anything is taken.                                          *)
Start ==
  /\ phase = "matched"
  /\ \/ phase' = "starting"
     \/ phase' = "failed"
  /\ UNCHANGED <<held, step, providerRefs>>

(* A step that fails ends start; what was taken is not given back, and     *)
(* IOKit calls no stop for a driver whose start failed.                    *)
StartStep ==
  /\ phase = "starting"
  /\ step < Len(StartSteps)
  /\ \/ /\ held' = held \cup {StartSteps[step + 1]}
        /\ step' = step + 1
        /\ UNCHANGED phase
     \/ /\ phase' = "failed"
        /\ UNCHANGED <<held, step>>
  /\ UNCHANGED providerRefs

(* Mutant: the provider is not retained.                                   *)
StartReturn_NoRetain ==
  /\ phase = "starting"
  /\ step = Len(StartSteps)
  /\ phase' = "running"
  /\ UNCHANGED <<held, step, providerRefs>>

(* "Looks like we're ok": retain the provider, register for user clients.  *)
StartReturn ==
  /\ phase = "starting"
  /\ step = Len(StartSteps)
  /\ providerRefs' = providerRefs + 1
  /\ phase' = "running"
  /\ UNCHANGED <<held, step>>

(* External: the driver is unloaded; IOKit terminates its clients, the     *)
(* stream among them, and calls stop when none is left.                    *)
Terminate ==
  /\ phase = "running"
  /\ phase' = "terminating"
  /\ held' = held \ {"stream"}
  /\ UNCHANGED <<step, providerRefs>>

(* stop sets fStopping and calls releaseResources.                         *)
Stop ==
  /\ phase = "terminating"
  /\ phase' = "stopping"
  /\ step' = 0
  /\ UNCHANGED <<held, providerRefs>>

StopStep ==
  /\ phase = "stopping"
  /\ IF step = Len(StopSteps)
       THEN phase' = "stopped" /\ UNCHANGED <<held, step, providerRefs>>
       ELSE /\ held' = held \ {StopSteps[step + 1]}
            /\ step' = step + 1
            /\ providerRefs' =
                 IF StopSteps[step + 1] = "open" THEN providerRefs - 1 ELSE providerRefs
            /\ UNCHANGED phase

DriverStep == Start \/ StartStep \/ StartReturn \/ StopStep

-------------------------------------------------------------------------------

DriverTypeOK ==
  /\ phase \in Phases
  /\ held \subseteq Resources
  /\ step \in 0 .. Len(StartSteps)
  /\ providerRefs \in {0, 1}

(* A serial client finds the stream as soon as it is registered, before    *)
(* start returns: by then both locks and both buffers exist, and they do   *)
(* as long as the stream does.                                             *)
PublishedIsReady ==
  "stream" \in held => held = Resources
===============================================================================
