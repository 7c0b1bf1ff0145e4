------------------------------ MODULE PortConfig ------------------------------
(***************************************************************************)
(* The UART parameters of fPort: what executeEvent stores for an event,    *)
(* what requestEvent answers, and what setStructureDefaults restores.      *)
(* These are operators on a record; Notifications owns the variable.       *)
(***************************************************************************)
EXTENDS Integers

CONSTANTS
  UInt32Mod,     \* 2^32: data and latencies are computed modulo it
  DEFAULT_AUTO   \* the flow control bits of IOKit's header that it ORs

MIN_BAUD         == 100        \* 50 << 1
kDefaultBaudRate == 9600
kMaxBaudRate     == 230400
UInt8Max         == 255

(* parity[] of the tester names IOKit's PD_RS232_PARITY_ values in order.  *)
parity == <<"DEFAULT", "NONE", "ODD", "EVEN", "MARK", "SPACE", "ANY">>

PARITY_DEFAULT == 0
PARITY_NONE    == 1
PARITY_SPACE   == 5
PARITY_ANY     == 6

ASSUME ConfigAssumption ==
  /\ UInt32Mod \in Nat /\ UInt32Mod > 2 * kMaxBaudRate
  /\ DEFAULT_AUTO \in 0 .. (UInt32Mod - 1)

UInt32 == 0 .. (UInt32Mod - 1)
UInt8  == 0 .. UInt8Max

Config ==
  [CharLength : UInt32, StopBits : UInt32, TX_Parity : UInt32,
   RX_Parity : UInt32, BaudRate : UInt32, MinLatency : BOOLEAN,
   XONchar : UInt8, XOFFchar : UInt8, SWspecial : SUBSET UInt8,
   FlowControl : UInt32, DataLatInterval : UInt32, CharLatInterval : UInt32]

(* IOKit hands start an object filled with zeros.                          *)
InitConfig ==
  [CharLength |-> 0, StopBits |-> 0, TX_Parity |-> 0, RX_Parity |-> 0,
   BaudRate |-> 0, MinLatency |-> FALSE, XONchar |-> 0, XOFFchar |-> 0,
   SWspecial |-> {}, FlowControl |-> 0, DataLatInterval |-> 0,
   CharLatInterval |-> 0]

(* Mutant: the latencies are reset as well.                                *)
SetStructureDefaults_Latencies(c) ==
  [InitConfig EXCEPT !.BaudRate = kDefaultBaudRate, !.CharLength = 8,
     !.StopBits = 1, !.TX_Parity = PARITY_NONE, !.RX_Parity = PARITY_NONE,
     !.XONchar = 17, !.XOFFchar = 19, !.FlowControl = DEFAULT_AUTO]

(* The latencies are not among the defaults.                               *)
SetStructureDefaults(c) ==
  [c EXCEPT !.BaudRate = kDefaultBaudRate, !.CharLength = 8, !.StopBits = 1,
            !.TX_Parity = PARITY_NONE, !.RX_Parity = PARITY_NONE,
            !.MinLatency = FALSE, !.XONchar = 17, !.XOFFchar = 19,
            !.FlowControl = DEFAULT_AUTO, !.SWspecial = {}]

-------------------------------------------------------------------------------

Halved(data) == data \div 2   \* "For API compatiblilty with Intel."

(* Mutant: the received parity is not checked.                             *)
Refused_AnyReceivedParity(event, data) ==
  \/ event = "DATA_INTEGRITY" /\ data \notin PARITY_NONE .. PARITY_SPACE
  \/ event = "DATA_RATE" /\ Halved(data) \notin MIN_BAUD .. kMaxBaudRate
  \/ event = "DATA_SIZE" /\ Halved(data) \notin 5 .. 8
  \/ event = "STOP_BITS" /\ data > 20
  \/ event \in {"RX_DATA_RATE", "RX_DATA_SIZE", "RX_STOP_BITS"} /\ data # 0

(* executeEvent answers kIOReturnBadArgument.                              *)
Refused(event, data) ==
  \/ event = "DATA_INTEGRITY" /\ data \notin PARITY_NONE .. PARITY_SPACE
  \/ event = "RX_DATA_INTEGRITY" /\ data \notin {PARITY_DEFAULT, PARITY_ANY}
  \/ event = "DATA_RATE" /\ Halved(data) \notin MIN_BAUD .. kMaxBaudRate
  \/ event = "DATA_SIZE" /\ Halved(data) \notin 5 .. 8
  \/ event = "STOP_BITS" /\ data > 20
  \/ event \in {"RX_DATA_RATE", "RX_DATA_SIZE", "RX_STOP_BITS"} /\ data # 0

(* Mutant: the product is computed in 64 bits.                             *)
Latency_Wide(data) == data * 1000

(* long2tval of data * 1000, a product of two UInt32.                      *)
Latency(data) == (data * 1000) % UInt32Mod

(* fPort after an event that was not refused; the receiver's parameters,   *)
(* queue sizes and marks are accepted and stored nowhere.                  *)
Stored(c, event, data) ==
  CASE event = "DATA_RATE"         -> [c EXCEPT !.BaudRate = Halved(data)]
    [] event = "DATA_SIZE"         -> [c EXCEPT !.CharLength = Halved(data)]
    [] event = "STOP_BITS"         -> [c EXCEPT !.StopBits = data]
    [] event = "DATA_INTEGRITY"    -> [c EXCEPT !.TX_Parity = data,
                                                !.RX_Parity = PARITY_DEFAULT]
    [] event = "RX_DATA_INTEGRITY" -> [c EXCEPT !.RX_Parity = data]
    [] event = "XON_BYTE"          -> [c EXCEPT !.XONchar = data % 256]
    [] event = "XOFF_BYTE"         -> [c EXCEPT !.XOFFchar = data % 256]
    [] event = "SPECIAL_BYTE"      -> [c EXCEPT !.SWspecial = @ \cup {data}]
    [] event = "VALID_DATA_BYTE"   -> [c EXCEPT !.SWspecial = @ \ {data}]
    [] event = "FLOW_CONTROL"      -> [c EXCEPT !.FlowControl = data]
    [] event = "MIN_LATENCY"       -> [c EXCEPT !.MinLatency = data # 0]
    [] event = "DATA_LATENCY"      -> [c EXCEPT !.DataLatInterval = Latency(data)]
    [] event = "DELAY"             -> [c EXCEPT !.CharLatInterval = Latency(data)]
    [] OTHER                       -> c

(* The answer of requestEvent for the parameters it knows.                 *)
Requested(c, event) ==
  CASE event = "DATA_RATE"      -> 2 * c.BaudRate
    [] event = "DATA_SIZE"      -> 2 * c.CharLength
    [] event = "STOP_BITS"      -> 2 * c.StopBits
    [] event = "DATA_INTEGRITY" -> c.TX_Parity
    [] event = "XON_BYTE"       -> c.XONchar
    [] event = "XOFF_BYTE"      -> c.XOFFchar
    [] event = "FLOW_CONTROL"   -> c.FlowControl
    [] event = "MIN_LATENCY"    -> IF c.MinLatency THEN 1 ELSE 0
    [] event = "DATA_LATENCY"   -> c.DataLatInterval \div 1000
    [] event = "DELAY"          -> c.CharLatInterval \div 1000
    [] OTHER                    -> 0   \* the receiver's parameters

-------------------------------------------------------------------------------

(* What sendPortInfo copies into a PortInfoNotification.                   *)
PortInfoNotification ==
  [CharLength : UInt32, StopBits : UInt32, TX_Parity : UInt32,
   RX_Parity : UInt32, BaudRate : UInt32, MinLatency : BOOLEAN,
   XONchar : UInt8, XOFFchar : UInt8, FlowControl : UInt32]

Info(c) ==
  [CharLength |-> c.CharLength, StopBits |-> c.StopBits,
   TX_Parity |-> c.TX_Parity, RX_Parity |-> c.RX_Parity,
   BaudRate |-> c.BaudRate, MinLatency |-> c.MinLatency,
   XONchar |-> c.XONchar, XOFFchar |-> c.XOFFchar,
   FlowControl |-> c.FlowControl]

(* The parameters an acquired port can be given.                           *)
Legal(info) ==
  /\ info.CharLength \in 5 .. 8
  /\ info.StopBits \in 0 .. 20
  /\ info.BaudRate \in MIN_BAUD .. kMaxBaudRate
  /\ info.TX_Parity \in PARITY_NONE .. PARITY_SPACE
  /\ info.RX_Parity \in {PARITY_DEFAULT, PARITY_NONE, PARITY_ANY}
===============================================================================
