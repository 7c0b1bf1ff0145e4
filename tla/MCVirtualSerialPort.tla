------------------------- MODULE MCVirtualSerialPort --------------------------
(***************************************************************************)
(* Values for the arguments the environment may pass to VirtualSerialPort, *)
(* chosen in each configuration from the sets below.                       *)
(***************************************************************************)
EXTENDS VirtualSerialPort, TLC

CONSTANTS a, b

(* What a tester sends: nothing, one byte, messages whose bytes differ,    *)
(* and one that does not fit in a queue of two or three bytes.             *)
NoMessages     == {}
OneMessage     == {<<a>>}
TwoMessages    == {<<a>>, <<b, a>>}
LongMessages   == {<<a>>, <<a, a, a, a>>}

Arg(state, m) == [state |-> state, mask |-> m]

(* Waiting for a carrier, for the port to become active and for the        *)
(* transmitter's event.                                                    *)
WatchCarrier == Arg({"CAR"}, {"CAR"})
WatchActive  == Arg({"ACTIVE"}, {"ACTIVE"})
WatchEvent   == Arg({"TX_EVENT"}, {"TX_EVENT"})

NoArgs       == {}
ActiveArgs   == {WatchActive}
AllWatchArgs == {WatchCarrier, WatchActive, WatchEvent}

(* setState of the key-press event, and of the carrier and ready bits.     *)
SetEvent    == {Arg({"TX_EVENT"}, {"TX_EVENT"})}
SetAndClear == SetEvent \cup {Arg({}, {"TX_EVENT", "CAR"})}

(* setState of a queue bit, which nothing forbids.                         *)
SetLevel == {Arg({"RXQ_FULL"}, {"RXQ_FULL"})}

(* Data of PD_E_FLOW_CONTROL: no automatic line, the default ones, and one *)
(* that setState is asked to change.                                       *)
NoFlows  == {}
AllFlows == {{}, DEFAULT_AUTO, {"CAR"}}

(* Sessions, and watchers, are interchangeable.                            *)
Symmetry == Permutations(Sessions) \cup Permutations(Watchers)
===============================================================================
