-------------------------- MODULE NotificationsProofs --------------------------
(***************************************************************************)
(* Proofs about the UART parameters and what the tester is sent, for any   *)
(* events a client may send and any modulus of the 32-bit arithmetic.      *)
(***************************************************************************)
EXTENDS Notifications, TLAPS

-------------------------------------------------------------------------------
(* 32-bit arithmetic.                                                      *)

LEMMA Limits ==
  /\ MIN_BAUD \in Nat /\ kDefaultBaudRate \in Nat /\ kMaxBaudRate \in Nat
  /\ MIN_BAUD =< kDefaultBaudRate /\ kDefaultBaudRate =< kMaxBaudRate
  /\ 100 =< kMaxBaudRate
  /\ UInt8Max \in Nat
  /\ \A n \in Nat : n < 256 <=> n =< UInt8Max
  BY SMT DEF MIN_BAUD, kDefaultBaudRate, kMaxBaudRate, UInt8Max

LEMMA SmallNumbers ==
  /\ UInt32Mod \in Nat /\ UInt32Mod > 0
  /\ UInt32 \subseteq Nat
  /\ \A n \in Nat : n =< kMaxBaudRate => n \in UInt32
  /\ \A n \in Nat : n < 256 => n \in UInt8
  BY Limits, ConfigAssumption, SMT DEF UInt32, UInt8

LEMMA LatencyType ==
  ASSUME NEW data \in UInt32
  PROVE  Latency(data) \in UInt32
<1>1. UInt32Mod \in Nat /\ UInt32Mod > 0 /\ data * 1000 \in Nat
  BY SmallNumbers, SMT
<1> QED
  BY <1>1, SMT DEF Latency, UInt32

LEMMA LatencyExact ==
  ASSUME NEW data \in UInt32, data * 1000 < UInt32Mod
  PROVE  Latency(data) \div 1000 = data
<1>1. UInt32Mod \in Nat /\ UInt32Mod > 0 /\ data \in Nat
  BY SmallNumbers, SMT
<1>2. \A x \in Nat : x < UInt32Mod => x % UInt32Mod = x
  BY <1>1, SMT
<1>3. Latency(data) = data * 1000
  BY <1>1, <1>2, SMT DEF Latency
<1>4. (data * 1000) \div 1000 = data
  BY <1>1, SMT
<1> QED
  BY <1>3, <1>4

-------------------------------------------------------------------------------
(* The operators on the parameter record.                                  *)

LEMMA InitConfigType == InitConfig \in Config
<1>1. 0 \in UInt32 /\ 0 \in UInt8
  BY SmallNumbers, Limits, SMT
<1> QED
  BY <1>1, SMT DEF InitConfig, Config

LEMMA FieldType ==
  ASSUME NEW c \in Config
  PROVE  /\ \A n \in UInt32 :
              /\ [c EXCEPT !.CharLength = n] \in Config
              /\ [c EXCEPT !.StopBits = n] \in Config
              /\ [c EXCEPT !.TX_Parity = n] \in Config
              /\ [c EXCEPT !.RX_Parity = n] \in Config
              /\ [c EXCEPT !.BaudRate = n] \in Config
              /\ [c EXCEPT !.FlowControl = n] \in Config
         /\ \A n \in UInt8 :
              /\ [c EXCEPT !.XONchar = n] \in Config
              /\ [c EXCEPT !.XOFFchar = n] \in Config
         /\ [c EXCEPT !.MinLatency = FALSE] \in Config
         /\ [c EXCEPT !.SWspecial = {}] \in Config
  BY DEF Config

LEMMA DefaultsType ==
  ASSUME NEW c \in Config
  PROVE  SetStructureDefaults(c) \in Config /\ Legal(SetStructureDefaults(c))
<1>1. /\ kDefaultBaudRate \in UInt32 /\ 8 \in UInt32 /\ 1 \in UInt32
      /\ DEFAULT_AUTO \in UInt32 /\ 17 \in UInt8 /\ 19 \in UInt8
  BY SmallNumbers, Limits, ConfigAssumption, SMT DEF UInt32
<1>2. SetStructureDefaults(c) \in Config
  <2> DEFINE d1 == [c EXCEPT !.BaudRate = kDefaultBaudRate]
             d2 == [d1 EXCEPT !.CharLength = 8]
             d3 == [d2 EXCEPT !.StopBits = 1]
             d4 == [d3 EXCEPT !.TX_Parity = 1]
             d5 == [d4 EXCEPT !.RX_Parity = 1]
             d6 == [d5 EXCEPT !.MinLatency = FALSE]
             d7 == [d6 EXCEPT !.XONchar = 17]
             d8 == [d7 EXCEPT !.XOFFchar = 19]
             d9 == [d8 EXCEPT !.FlowControl = DEFAULT_AUTO]
  <2>1. SetStructureDefaults(c) = [d9 EXCEPT !.SWspecial = {}]
    BY DEF SetStructureDefaults, PARITY_NONE
  <2>2. d1 \in Config
    BY <1>1, FieldType
  <2> HIDE DEF d1
  <2>3. d2 \in Config /\ d3 \in Config
    BY <1>1, <2>2, FieldType
  <2> HIDE DEF d2, d3
  <2>4. d4 \in Config /\ d5 \in Config
    BY <1>1, <2>3, FieldType
  <2> HIDE DEF d4, d5
  <2>5. d6 \in Config /\ d7 \in Config
    BY <1>1, <2>4, FieldType
  <2> HIDE DEF d6, d7
  <2>6. d8 \in Config /\ d9 \in Config
    BY <1>1, <2>5, FieldType
  <2> HIDE DEF d8, d9
  <2> QED
    BY <2>1, <2>6, FieldType
<1>3. kDefaultBaudRate \in MIN_BAUD .. kMaxBaudRate
  BY Limits, SMT
<1>4. Legal(SetStructureDefaults(c))
  BY <1>3, SMT DEF SetStructureDefaults, Config, Legal, PARITY_NONE, PARITY_SPACE
<1> QED
  BY <1>2, <1>4

LEMMA DefaultsKeepLatencies ==
  ASSUME NEW c \in Config, NEW e \in LatencyEvents
  PROVE  Requested(SetStructureDefaults(c), e) = Requested(c, e)
  BY DEF SetStructureDefaults, Config, Requested, LatencyEvents

(* What the defaults are answered as is what their data would be.          *)
LEMMA DefaultsRead ==
  ASSUME NEW c \in Config, NEW e \in Events \ LatencyEvents
  PROVE  /\ DefaultSetting(e) \in UInt32
         /\ Requested(SetStructureDefaults(c), e) = Answer(e, DefaultSetting(e))
<1> DEFINE d == SetStructureDefaults(c)
<1>1. /\ d.BaudRate = kDefaultBaudRate /\ d.CharLength = 8 /\ d.StopBits = 1
      /\ d.TX_Parity = PARITY_NONE /\ d.MinLatency = FALSE
      /\ d.XONchar = 17 /\ d.XOFFchar = 19 /\ d.FlowControl = DEFAULT_AUTO
  BY DEF SetStructureDefaults, Config
<1> HIDE DEF d
<1>2. CASE e = "DATA_RATE"
  <2>1. DefaultSetting(e) = 2 * kDefaultBaudRate
    BY <1>2 DEF DefaultSetting
  <2>2. 2 * kDefaultBaudRate \in Nat /\ 2 * kDefaultBaudRate =< kMaxBaudRate
    BY SMT DEF kDefaultBaudRate, kMaxBaudRate
  <2>3. (2 * kDefaultBaudRate) % 2 = 0
    BY SMT DEF kDefaultBaudRate
  <2>4. Answer(e, 2 * kDefaultBaudRate) = 2 * kDefaultBaudRate
    BY <1>2, <2>2, <2>3 DEF Answer
  <2>5. Requested(d, e) = 2 * kDefaultBaudRate
    BY <1>1, <1>2 DEF Requested
  <2> QED
    BY <2>1, <2>2, <2>4, <2>5, SmallNumbers DEF d
<1>3. CASE e \in {"DATA_SIZE", "STOP_BITS", "XON_BYTE", "XOFF_BYTE"}
  <2>1. \A n \in {1, 16, 17, 19} : n \in UInt32
    BY SmallNumbers, Limits, SMT
  <2>2. 16 % 2 = 0 /\ 17 % 256 = 17 /\ 19 % 256 = 19
    BY SMT
  <2>3. DefaultSetting(e) \in {1, 16, 17, 19}
    BY <1>3 DEF DefaultSetting
  <2>4. Requested(d, e) = Answer(e, DefaultSetting(e))
    <3>1. CASE e = "DATA_SIZE"
      BY <1>1, <2>2, <3>1 DEF Requested, Answer, DefaultSetting
    <3>2. CASE e = "STOP_BITS"
      BY <1>1, <3>2 DEF Requested, Answer, DefaultSetting
    <3>3. CASE e = "XON_BYTE"
      BY <1>1, <2>2, <3>3 DEF Requested, Answer, DefaultSetting
    <3>4. CASE e = "XOFF_BYTE"
      BY <1>1, <2>2, <3>4 DEF Requested, Answer, DefaultSetting
    <3> QED
      BY <1>3, <3>1, <3>2, <3>3, <3>4
  <2> QED
    BY <2>1, <2>3, <2>4 DEF d
<1>4. CASE e \in {"DATA_INTEGRITY", "FLOW_CONTROL"}
  <2>1. PARITY_NONE \in UInt32 /\ DEFAULT_AUTO \in UInt32
    <3>1. 1 \in UInt32
      BY SmallNumbers, Limits, SMT
    <3> QED
      BY <3>1, ConfigAssumption DEF PARITY_NONE, UInt32
  <2>2. DefaultSetting(e) \in UInt32
    BY <1>4, <2>1 DEF DefaultSetting
  <2>3. Requested(d, e) = Answer(e, DefaultSetting(e))
    BY <1>1, <1>4 DEF Requested, Answer, DefaultSetting
  <2> QED
    BY <2>2, <2>3 DEF d
<1>5. CASE e \in {"MIN_LATENCY", "RX_DATA_RATE", "RX_DATA_SIZE", "RX_STOP_BITS",
                  "RX_DATA_INTEGRITY", "SPECIAL_BYTE", "VALID_DATA_BYTE"}
  <2>1. DefaultSetting(e) = 0 /\ 0 \in UInt32
    BY <1>5, SmallNumbers, Limits, SMT DEF DefaultSetting
  <2>2. Answer(e, 0) = 0
    BY <1>5 DEF Answer, LatencyEvents
  <2>3. Requested(d, e) = 0
    BY <1>1, <1>5 DEF Requested
  <2> QED
    BY <2>1, <2>2, <2>3 DEF d
<1> QED
  BY <1>2, <1>3, <1>4, <1>5 DEF Events, LatencyEvents

(* A port object filled with zeros answers 0 to everything.                *)
LEMMA ZerosRead ==
  ASSUME NEW e \in Events
  PROVE  Requested(InitConfig, e) = Answer(e, 0)
<1>1. Requested(InitConfig, e) = 0
  BY SMT DEF Requested, InitConfig, Events
<1>2. 0 % 2 = 0 /\ 0 % 256 = 0 /\ 0 * 1000 = 0 /\ 0 < UInt32Mod
  BY SmallNumbers, SMT
<1>3. Answer(e, 0) = 0
  BY <1>2, SMT DEF Answer
<1> QED
  BY <1>1, <1>3

LEMMA StoredType ==
  ASSUME NEW c \in Config, NEW e \in Events, NEW data \in UInt32,
         e \in ByteEvents => data \in UInt8
  PROVE  Stored(c, e, data) \in Config
<1>1. Halved(data) \in UInt32
  BY SmallNumbers, SMT DEF Halved, UInt32
<1>2. data % 256 \in UInt8
  <2>1. data % 256 \in Nat /\ data % 256 < 256
    BY SmallNumbers, SMT
  <2> QED
    BY <2>1, SmallNumbers, SMT
<1>3. Latency(data) \in UInt32
  BY LatencyType
<1>4. 0 \in UInt32
  BY SmallNumbers, Limits, SMT
<1>5. CASE e \in {"DATA_RATE", "DATA_SIZE", "STOP_BITS", "DATA_INTEGRITY",
                  "RX_DATA_INTEGRITY", "FLOW_CONTROL", "MIN_LATENCY"}
  BY <1>1, <1>4, <1>5 DEF Stored, Config, PARITY_DEFAULT
<1>6. CASE e \in {"XON_BYTE", "XOFF_BYTE", "DATA_LATENCY", "DELAY"}
  BY <1>2, <1>3, <1>6 DEF Stored, Config
<1>7. CASE e \in ByteEvents
  BY <1>7 DEF Stored, Config, ByteEvents
<1>8. CASE e \in {"RX_DATA_RATE", "RX_DATA_SIZE", "RX_STOP_BITS"}
  BY <1>8 DEF Stored
<1> QED
  BY <1>5, <1>6, <1>7, <1>8 DEF Events, ByteEvents

LEMMA StoredLegal ==
  ASSUME NEW c \in Config, Legal(c), NEW e \in Events, NEW data \in UInt32,
         ~Refused(e, data)
  PROVE  Legal(Stored(c, e, data))
<1>1. CASE e \in {"DATA_RATE", "DATA_SIZE", "STOP_BITS"}
  <2>1. data \in Nat
    BY SmallNumbers, SMT
  <2> QED
    BY <1>1, <2>1 DEF Stored, Config, Legal, Refused
<1>2. CASE e \in {"DATA_INTEGRITY", "RX_DATA_INTEGRITY"}
  BY <1>2 DEF Stored, Config, Legal, Refused, PARITY_DEFAULT
<1>3. CASE e \notin {"DATA_RATE", "DATA_SIZE", "STOP_BITS", "DATA_INTEGRITY",
                     "RX_DATA_INTEGRITY"}
  <2>1. LET d == Stored(c, e, data) IN
          /\ d.CharLength = c.CharLength /\ d.StopBits = c.StopBits
          /\ d.BaudRate = c.BaudRate
          /\ d.TX_Parity = c.TX_Parity /\ d.RX_Parity = c.RX_Parity
    BY <1>3 DEF Stored, Config, Events
  <2> QED
    BY <2>1 DEF Legal
<1> QED
  BY <1>1, <1>2, <1>3

(* The clauses of Answer.                                                  *)
LEMMA AnswerCases ==
  ASSUME NEW e, NEW data \in Nat
  PROVE  /\ e \in {"DATA_RATE", "DATA_SIZE"} => Answer(e, data) = data - (data % 2)
         /\ e = "STOP_BITS" => Answer(e, data) = 2 * data
         /\ e \in {"XON_BYTE", "XOFF_BYTE"} => Answer(e, data) = data % 256
         /\ e = "MIN_LATENCY" => Answer(e, data) = IF data = 0 THEN 0 ELSE 1
         /\ e \in LatencyEvents =>
              Answer(e, data) = IF data * 1000 < UInt32Mod THEN data
                                ELSE Latency(data) \div 1000
         /\ e \in {"DATA_INTEGRITY", "FLOW_CONTROL"} => Answer(e, data) = data
<1> DEFINE half == data - (data % 2)
           double == 2 * data
           byte == data % 256
           bit == IF data = 0 THEN 0 ELSE 1
           interval == IF data * 1000 < UInt32Mod THEN data
                       ELSE Latency(data) \div 1000
<1>1. Answer(e, data) =
        CASE e \in {"DATA_RATE", "DATA_SIZE"} -> half
          [] e = "STOP_BITS" -> double
          [] e \in {"XON_BYTE", "XOFF_BYTE"} -> byte
          [] e = "MIN_LATENCY" -> bit
          [] e \in LatencyEvents -> interval
          [] e \in {"DATA_INTEGRITY", "FLOW_CONTROL"} -> data
          [] OTHER -> 0
  BY Zenon DEF Answer
<1> HIDE DEF half, double, byte, bit, interval
<1>2. /\ e \in {"DATA_RATE", "DATA_SIZE"} => Answer(e, data) = half
      /\ e = "STOP_BITS" => Answer(e, data) = double
      /\ e \in {"XON_BYTE", "XOFF_BYTE"} => Answer(e, data) = byte
      /\ e = "MIN_LATENCY" => Answer(e, data) = bit
      /\ e \in LatencyEvents => Answer(e, data) = interval
      /\ e \in {"DATA_INTEGRITY", "FLOW_CONTROL"} => Answer(e, data) = data
  BY <1>1, SMT DEF LatencyEvents
<1> QED
  BY <1>2 DEF half, double, byte, bit, interval

(* What an accepted event stored is answered as its data should be.        *)
LEMMA StoredReads ==
  ASSUME NEW c \in Config, NEW e \in Events, NEW data \in UInt32,
         ~Refused(e, data)
  PROVE  Requested(Stored(c, e, data), e) = Answer(e, data)
<1>1. data \in Nat
  BY SmallNumbers, SMT
<1>2. CASE e \in {"DATA_RATE", "DATA_SIZE"}
  <2>1. 2 * Halved(data) = data - (data % 2)
    <3>1. \A n \in Nat : 2 * (n \div 2) = n - (n % 2)
      BY SMT
    <3> QED
      BY <1>1, <3>1 DEF Halved
  <2>2. Requested(Stored(c, e, data), e) = 2 * Halved(data)
    <3>1. CASE e = "DATA_RATE"
      BY <3>1 DEF Stored, Requested, Config
    <3>2. CASE e = "DATA_SIZE"
      BY <3>2 DEF Stored, Requested, Config
    <3> QED
      BY <1>2, <3>1, <3>2
  <2>3. Answer(e, data) = data - (data % 2)
    BY <1>1, <1>2, AnswerCases
  <2> QED
    BY <2>1, <2>2, <2>3
<1>3. CASE e = "STOP_BITS"
  <2>1. Requested(Stored(c, e, data), e) = 2 * data
    BY <1>3 DEF Stored, Requested, Config
  <2> QED
    BY <1>1, <1>3, <2>1, AnswerCases
<1>5. CASE e \in {"XON_BYTE", "XOFF_BYTE"}
  <2>1. Requested(Stored(c, e, data), e) = data % 256
    <3>1. CASE e = "XON_BYTE"
      BY <3>1 DEF Stored, Requested, Config
    <3>2. CASE e = "XOFF_BYTE"
      BY <3>2 DEF Stored, Requested, Config
    <3> QED
      BY <1>5, <3>1, <3>2
  <2> QED
    BY <1>1, <1>5, <2>1, AnswerCases
<1>8. CASE e \in {"DATA_INTEGRITY", "FLOW_CONTROL"}
  <2>1. Requested(Stored(c, e, data), e) = data
    BY <1>8 DEF Stored, Requested, Config
  <2> QED
    BY <1>1, <1>8, <2>1, AnswerCases
<1>4. CASE e \in LatencyEvents
  <2>1. Requested(Stored(c, e, data), e) = Latency(data) \div 1000
    <3>1. CASE e = "DATA_LATENCY"
      BY <3>1 DEF Stored, Requested, Config
    <3>2. CASE e = "DELAY"
      BY <3>2 DEF Stored, Requested, Config
    <3> QED
      BY <1>4, <3>1, <3>2 DEF LatencyEvents
  <2>2. Answer(e, data) =
          IF data * 1000 < UInt32Mod THEN data ELSE Latency(data) \div 1000
    BY <1>1, <1>4, AnswerCases
  <2> QED
    BY <2>1, <2>2, LatencyExact
<1>6. CASE e = "MIN_LATENCY"
  <2>1. Stored(c, e, data) = [c EXCEPT !.MinLatency = data # 0]
    BY <1>6 DEF Stored
  <2>2. Stored(c, e, data).MinLatency = (data # 0)
    BY <2>1 DEF Config
  <2>3. Requested(Stored(c, e, data), e) =
          IF Stored(c, e, data).MinLatency THEN 1 ELSE 0
    BY <1>6 DEF Requested
  <2>4. Answer(e, data) = IF data = 0 THEN 0 ELSE 1
    BY <1>1, <1>6, AnswerCases
  <2>5. CASE data = 0
    BY <2>2, <2>3, <2>4, <2>5
  <2>6. CASE data # 0
    BY <2>2, <2>3, <2>4, <2>6
  <2> QED
    BY <2>5, <2>6
<1>7. CASE e \in {"RX_DATA_RATE", "RX_DATA_SIZE", "RX_STOP_BITS",
                  "RX_DATA_INTEGRITY", "SPECIAL_BYTE", "VALID_DATA_BYTE"}
  BY <1>7 DEF Requested, Answer, LatencyEvents
<1> QED
  BY <1>2, <1>3, <1>4, <1>5, <1>6, <1>7, <1>8 DEF Events, LatencyEvents

(* It leaves what every other one reads alone.                             *)
LEMMA StoredOthers ==
  ASSUME NEW c \in Config, NEW e \in Events, NEW f \in Events, e # f, NEW data
  PROVE  Requested(Stored(c, e, data), f) = Requested(c, f)
<1> DEFINE d == Stored(c, e, data)
<1>1. /\ e # "DATA_RATE" => d.BaudRate = c.BaudRate
      /\ e # "DATA_SIZE" => d.CharLength = c.CharLength
      /\ e # "STOP_BITS" => d.StopBits = c.StopBits
  BY SMT DEF Stored, Config, Events
<1>2. /\ e # "DATA_INTEGRITY" => d.TX_Parity = c.TX_Parity
      /\ e # "XON_BYTE" => d.XONchar = c.XONchar
      /\ e # "XOFF_BYTE" => d.XOFFchar = c.XOFFchar
  BY SMT DEF Stored, Config, Events
<1>3. /\ e # "FLOW_CONTROL" => d.FlowControl = c.FlowControl
      /\ e # "MIN_LATENCY" => d.MinLatency = c.MinLatency
  <2>1. e # "FLOW_CONTROL" => d.FlowControl = c.FlowControl
    BY SMT DEF Stored, Config
  <2>2. e # "MIN_LATENCY" => d.MinLatency = c.MinLatency
    BY SMT DEF Stored, Config
  <2> QED
    BY <2>1, <2>2
<1>4. /\ e # "DATA_LATENCY" => d.DataLatInterval = c.DataLatInterval
      /\ e # "DELAY" => d.CharLatInterval = c.CharLatInterval
  <2>1. e # "DATA_LATENCY" => d.DataLatInterval = c.DataLatInterval
    BY SMT DEF Stored, Config
  <2>2. e # "DELAY" => d.CharLatInterval = c.CharLatInterval
    BY SMT DEF Stored, Config
  <2> QED
    BY <2>1, <2>2
<1> HIDE DEF d
<1>5. Requested(d, f) = Requested(c, f)
  <2>1. CASE f \in {"DATA_RATE", "DATA_SIZE", "STOP_BITS", "DATA_INTEGRITY"}
    BY <1>1, <1>2, <2>1, SMT DEF Requested
  <2>2. CASE f \in {"XON_BYTE", "XOFF_BYTE", "FLOW_CONTROL", "MIN_LATENCY"}
    BY <1>2, <1>3, <2>2, SMT DEF Requested
  <2>3. CASE f \in LatencyEvents
    BY <1>4, <2>3, SMT DEF Requested, LatencyEvents
  <2>4. CASE f \in {"RX_DATA_RATE", "RX_DATA_SIZE", "RX_STOP_BITS",
                    "RX_DATA_INTEGRITY", "SPECIAL_BYTE", "VALID_DATA_BYTE"}
    BY <2>4, SMT DEF Requested
  <2> QED
    BY <2>1, <2>2, <2>3, <2>4 DEF Events, LatencyEvents
<1> QED
  BY <1>5 DEF d

LEMMA InfoType ==
  ASSUME NEW c \in Config
  PROVE  Info(c) \in PortInfoNotification
  BY DEF Info, Config, PortInfoNotification

-------------------------------------------------------------------------------
(* The inductive invariant: TypeOK with the shape of the messages, of the  *)
(* threads' program counters and of what they are about to send.           *)

Message ==
  [id : {"info"}, info : PortInfoNotification] \cup [id : {"state"}, state : SUBSET Bits]

Labels == {"idle", "launch", "loop", "acq_defaults", "acq_cts", "ev_defaults",
           "ev_active", "info_read", "info_send", "state_read", "state_send",
           "send_dsr"}

Shape ==
  /\ queue \in Seq(Message)
  /\ pc \in [Threads -> Labels]
  /\ DOMAIN snap = Threads
  /\ \A t \in Threads : pc[t] = "info_send" => snap[t] \in PortInfoNotification
  /\ DOMAIN shown = {"state", "info"}

IInv == TypeOK /\ Shape /\ ConfigLegal /\ ReadsBack

LEMMA MessageType ==
  /\ \A i \in PortInfoNotification : [id |-> "info", info |-> i] \in Message
  /\ \A s \in SUBSET Bits : [id |-> "state", state |-> s] \in Message
  BY DEF Message

(* A queue of messages is what TypeOK says of it.                          *)
QueueOK ==
  \A i \in DOMAIN queue :
    \/ queue[i].id = "info" /\ queue[i].info \in PortInfoNotification
    \/ queue[i].id = "state" /\ queue[i].state \subseteq Bits

LEMMA QueueType ==
  ASSUME queue \in Seq(Message)
  PROVE  QueueOK
<1> SUFFICES ASSUME NEW i \in DOMAIN queue
             PROVE  \/ queue[i].id = "info" /\ queue[i].info \in PortInfoNotification
                    \/ queue[i].id = "state" /\ queue[i].state \subseteq Bits
  BY DEF QueueOK
<1>1. queue[i] \in Message
  OBVIOUS
<1> QED
  BY <1>1 DEF Message

(* The parts of TypeOK, for the steps that disturb some of them.           *)
PortOK == State \subseteq Bits /\ config \in Config
SettingOK == setting \in [Events -> UInt32]
ThreadsOK ==
  /\ \A t \in Threads : snap[t] = Blank \/ snap[t] \in PortInfoNotification
  /\ seen \subseteq Bits
OthersOK ==
  /\ registered \in BOOLEAN
  /\ shown.state \subseteq Bits
  /\ stale \subseteq {"info", "state"}
  /\ events \in 0 .. MaxEvents

LEMMA TypeParts == TypeOK <=> PortOK /\ SettingOK /\ ThreadsOK /\ OthersOK /\ QueueOK
  BY DEF TypeOK, PortOK, SettingOK, ThreadsOK, OthersOK, QueueOK

LEMMA TypePartsNext ==
  TypeOK' <=> PortOK' /\ SettingOK' /\ ThreadsOK' /\ OthersOK' /\ QueueOK'
  BY DEF TypeOK, PortOK, SettingOK, ThreadsOK, OthersOK, QueueOK

LEMMA QueueTypeNext ==
  ASSUME queue' \in Seq(Message)
  PROVE  QueueOK'
<1> SUFFICES ASSUME NEW i \in DOMAIN queue'
             PROVE  \/ queue'[i].id = "info" /\ queue'[i].info \in PortInfoNotification
                    \/ queue'[i].id = "state" /\ queue'[i].state \subseteq Bits
  BY DEF QueueOK
<1>1. queue'[i] \in Message
  OBVIOUS
<1> QED
  BY <1>1 DEF Message

LEMMA GotoType ==
  ASSUME pc \in [Threads -> Labels], NEW t \in Threads, NEW label \in Labels,
         Goto(t, label)
  PROVE  /\ pc' \in [Threads -> Labels]
         /\ pc'[t] = label
         /\ \A u \in Threads \ {t} : pc'[u] = pc[u]
  BY DEF Goto

LEMMA InitInvariant == Init => IInv
<1> SUFFICES ASSUME Init PROVE IInv
  OBVIOUS
<1>1. queue \in Seq(Message) /\ QueueOK
  BY DEF Init, QueueOK
<1>2. PortOK /\ ThreadsOK
  BY InitConfigType DEF Init, PortOK, ThreadsOK, Bits
<1>3. SettingOK
  <2>1. 0 \in UInt32
    BY SmallNumbers, Limits, SMT
  <2> QED
    BY <2>1 DEF Init, SettingOK
<1>4. OthersOK
  <2>1. 0 \in 0 .. MaxEvents
    BY EventAssumption
  <2> QED
    BY <2>1 DEF Init, OthersOK
<1>5. Shape
  BY <1>1 DEF Init, Shape, Threads, Labels
<1>6. ConfigLegal
  BY DEF Init, ConfigLegal
<1>7. ReadsBack
  <2> SUFFICES ASSUME NEW e \in Events
               PROVE  Requested(config, e) = Answer(e, setting[e])
    BY DEF ReadsBack
  <2>1. config = InitConfig /\ setting[e] = 0
    BY DEF Init
  <2> QED
    BY <2>1, ZerosRead
<1> QED
  BY <1>1, <1>2, <1>3, <1>4, <1>5, <1>6, <1>7, TypeParts DEF IInv

-------------------------------------------------------------------------------
(* What the parts of a step preserve.                                      *)

LEMMA ParametersKept ==
  ASSUME IInv, UNCHANGED <<config, setting>>
  PROVE  config' \in Config /\ SettingOK' /\ ReadsBack'
  BY TypeParts DEF IInv, PortOK, SettingOK, ReadsBack

LEMMA LegalKept ==
  ASSUME IInv, UNCHANGED config,
         "ACQUIRED" \in State' => "ACQUIRED" \in State \/ pc'["session"] = "acq_defaults",
         pc["session"] = "acq_defaults" => pc'["session"] = "acq_defaults"
  PROVE  ConfigLegal'
  BY DEF IInv, ConfigLegal

LEMMA AppendType ==
  ASSUME NEW q \in Seq(Message), NEW msg \in Message
  PROVE  Append(q, msg) \in Seq(Message)
  OBVIOUS

LEMMA WriteType ==
  ASSUME IInv, NEW new \in SUBSET Bits, WritePortState(new)
  PROVE  /\ State' = new
         /\ queue' \in Seq(Message)
         /\ stale' \subseteq {"info", "state"}
<1>1. queue \in Seq(Message) /\ stale \subseteq {"info", "state"}
  BY TypeParts DEF IInv, Shape, OthersOK
<1>2. [id |-> "state", state |-> new] \in Message
  BY MessageType
<1>3. Append(queue, [id |-> "state", state |-> new]) \in Seq(Message)
  BY <1>1, <1>2, AppendType
<1>4. /\ State' = new
      /\ \/ /\ queue' = Append(queue, [id |-> "state", state |-> new])
            /\ stale' = stale \ {"state"}
         \/ UNCHANGED <<queue, stale>>
  BY DEF WritePortState
<1> QED
  BY <1>1, <1>3, <1>4

LEMMA DefaultsRestore ==
  ASSUME IInv, Defaults
  PROVE  config' \in Config /\ Legal(config') /\ SettingOK' /\ ReadsBack'
<1>1. config \in Config /\ SettingOK /\ ReadsBack
  BY TypeParts DEF IInv, PortOK
<1>2. config' \in Config /\ Legal(config')
  BY <1>1, DefaultsType DEF Defaults
<1>3. \A e \in Events : setting'[e] =
        IF e \in LatencyEvents THEN setting[e] ELSE DefaultSetting(e)
  BY DEF Defaults
<1>4. SettingOK'
  <2>1. \A e \in Events : setting'[e] \in UInt32
    BY <1>1, <1>3, DefaultsRead DEF SettingOK
  <2> QED
    BY <2>1 DEF Defaults, SettingOK
<1>5. ReadsBack'
  <2> SUFFICES ASSUME NEW e \in Events
               PROVE  Requested(config', e) = Answer(e, setting'[e])
    BY DEF ReadsBack
  <2>1. CASE e \in LatencyEvents
    <3>1. Requested(config', e) = Requested(config, e)
      BY <1>1, <2>1, DefaultsKeepLatencies DEF Defaults
    <3> QED
      BY <1>1, <1>3, <2>1, <3>1 DEF ReadsBack
  <2>2. CASE e \notin LatencyEvents
    BY <1>1, <1>3, <2>2, DefaultsRead DEF Defaults
  <2> QED
    BY <2>1, <2>2
<1> QED
  BY <1>2, <1>4, <1>5

LEMMA CallType ==
  ASSUME IInv, events < MaxEvents, events' = events + 1
  PROVE  events' \in 0 .. MaxEvents
  BY TypeParts, EventAssumption DEF IInv, OthersOK

-------------------------------------------------------------------------------
(* One lemma for the actions of a kind.                                    *)

LEMMA Names ==
  /\ "session" \in Threads /\ "tester" \in Threads
  /\ Labels = {"idle", "launch", "loop", "acq_defaults", "acq_cts", "ev_defaults",
               "ev_active", "info_read", "info_send", "state_read", "state_send",
           "send_dsr"}
  /\ {"ACQUIRED", "ENABLE"} \subseteq Bits
  /\ {"CTS", "DSR", "ACTIVE", "QUEUE"} \subseteq Bits
  BY DEF Threads, Labels, Bits

(* Actions that write the state word and touch no parameter.               *)
StateCall == GetState \/ SendData \/ SendReturn

LEMMA StateInvariant ==
  ASSUME IInv, AcquirePort \/ ReleasePort \/ AcquireReturn \/ Activate \/ StateCall
  PROVE  IInv'
<1>1. /\ PortOK /\ SettingOK /\ ThreadsOK /\ OthersOK /\ Shape
      /\ pc \in [Threads -> Labels]
  BY TypeParts DEF IInv, Shape
<1>2. /\ UNCHANGED <<config, setting, registered, snap, seen, shown>>
      /\ events' \in 0 .. MaxEvents
  BY <1>1, CallType
     DEF AcquirePort, ReleasePort, AcquireReturn, Activate, StateCall, GetState,
         SendData, SendReturn, Call, OthersOK
<1>3. PICK new \in SUBSET Bits :
        /\ WritePortState(new)
        /\ "ACQUIRED" \in new => \/ "ACQUIRED" \in State
                                 \/ AcquirePort
  BY <1>1, Names
     DEF AcquirePort, ReleasePort, AcquireReturn, Activate, StateCall, GetState,
         SendData, SendReturn, PortOK
<1>4. /\ State' = new /\ queue' \in Seq(Message)
      /\ stale' \subseteq {"info", "state"}
  BY <1>3, WriteType
<1>5. /\ pc' \in [Threads -> Labels]
      /\ \A t \in Threads : pc'[t] # "info_send" \/ pc'[t] = pc[t]
      /\ AcquirePort => pc'["session"] = "acq_defaults"
      /\ pc["session"] = "acq_defaults" => pc'["session"] = "acq_defaults"
  BY <1>1, Names
     DEF AcquirePort, ReleasePort, AcquireReturn, Activate, StateCall, GetState,
         SendData, SendReturn, Call, Goto
<1>6. TypeOK'
  BY <1>1, <1>2, <1>4, ParametersKept, TypePartsNext, QueueTypeNext
     DEF PortOK, ThreadsOK, OthersOK
<1>7. Shape'
  BY <1>1, <1>2, <1>4, <1>5 DEF Shape
<1>8. ConfigLegal' /\ ReadsBack'
  BY <1>2, <1>3, <1>4, <1>5, LegalKept, ParametersKept
<1> QED
  BY <1>6, <1>7, <1>8 DEF IInv

(* Actions that restore the defaults.                                      *)
LEMMA DefaultsInvariant ==
  ASSUME IInv, AcquireDefaults \/ ActivateDefaults
  PROVE  IInv'
<1>1. /\ PortOK /\ SettingOK /\ ThreadsOK /\ OthersOK /\ QueueOK /\ Shape
      /\ pc \in [Threads -> Labels]
  BY TypeParts DEF IInv, Shape
<1>2. /\ UNCHANGED <<State, registered, queue, snap, seen, shown, stale, events>>
      /\ config' \in Config /\ Legal(config') /\ SettingOK' /\ ReadsBack'
  BY DefaultsRestore DEF AcquireDefaults, ActivateDefaults
<1>3. /\ pc' \in [Threads -> Labels]
      /\ \A t \in Threads : pc'[t] # "info_send" \/ pc'[t] = pc[t]
  BY <1>1, Names DEF AcquireDefaults, ActivateDefaults, Goto
<1>4. TypeOK'
  BY <1>1, <1>2, TypePartsNext DEF PortOK, ThreadsOK, OthersOK, QueueOK
<1>5. Shape'
  BY <1>1, <1>2, <1>3 DEF Shape
<1> QED
  BY <1>2, <1>4, <1>5 DEF IInv, ConfigLegal

LEMMA ExecuteInvariant ==
  ASSUME IInv, NEW arg \in EventArgs, ExecuteEvent(arg)
  PROVE  IInv'
<1> DEFINE e == arg.event
           data == arg.data
<1>1. /\ PortOK /\ SettingOK /\ ThreadsOK /\ OthersOK /\ QueueOK /\ Shape
      /\ pc \in [Threads -> Labels] /\ config \in Config
  BY TypeParts DEF IInv, PortOK, Shape
<1>2. e \in Events /\ data \in UInt32 /\ (e \in ByteEvents => data \in UInt8)
  BY EventAssumption
<1>3. /\ UNCHANGED <<State, registered, queue, snap, seen, shown, stale>>
      /\ pc["session"] = "idle" /\ "ACQUIRED" \in State
      /\ Goto("session", "info_read")
      /\ events' \in 0 .. MaxEvents
  BY CallType DEF ExecuteEvent, Call
<1>4. /\ pc' \in [Threads -> Labels]
      /\ \A t \in Threads : pc'[t] # "info_send" \/ pc'[t] = pc[t]
  BY <1>1, <1>3, Names DEF Goto
<1>5. Legal(config)
  BY <1>3 DEF IInv, ConfigLegal
<1>6. config' \in Config /\ Legal(config') /\ SettingOK' /\ ReadsBack'
  <2>1. CASE Refused(e, data)
    <3>1. UNCHANGED <<config, setting>>
      BY <2>1 DEF ExecuteEvent
    <3> QED
      BY <1>5, <3>1, ParametersKept
  <2>2. CASE ~Refused(e, data)
    <3>1. /\ config' = Stored(config, e, data)
          /\ setting' = [setting EXCEPT ![e] = data]
      BY <2>2 DEF ExecuteEvent
    <3> HIDE DEF e, data
    <3>2. config' \in Config /\ Legal(config')
      BY <1>1, <1>2, <1>5, <2>2, <3>1, StoredType, StoredLegal
    <3>3. SettingOK'
      BY <1>1, <1>2, <3>1 DEF SettingOK
    <3>4. ReadsBack'
      <4> SUFFICES ASSUME NEW f \in Events
                   PROVE  Requested(config', f) = Answer(f, setting'[f])
        BY DEF ReadsBack
      <4>1. CASE f = e
        <5>1. setting'[f] = data
          BY <1>1, <1>2, <3>1, <4>1 DEF SettingOK
        <5> QED
          BY <1>1, <1>2, <2>2, <3>1, <4>1, <5>1, StoredReads
      <4>2. CASE f # e
        <5>1. setting'[f] = setting[f]
          BY <1>1, <3>1, <4>2 DEF SettingOK
        <5>2. Requested(config', f) = Requested(config, f)
          BY <1>1, <1>2, <3>1, <4>2, StoredOthers
        <5> QED
          BY <5>1, <5>2 DEF IInv, ReadsBack
      <4> QED
        BY <4>1, <4>2
    <3> QED
      BY <3>2, <3>3, <3>4
  <2> QED
    BY <2>1, <2>2
<1>7. TypeOK'
  BY <1>1, <1>3, <1>6, TypePartsNext DEF PortOK, ThreadsOK, OthersOK, QueueOK
<1>8. Shape'
  BY <1>1, <1>3, <1>4 DEF Shape
<1> QED
  BY <1>6, <1>7, <1>8 DEF IInv, ConfigLegal

LEMMA SetActiveInvariant ==
  ASSUME IInv, NEW active \in BOOLEAN, SetActive(active)
  PROVE  IInv'
<1>1. /\ PortOK /\ SettingOK /\ ThreadsOK /\ OthersOK /\ Shape
      /\ pc \in [Threads -> Labels]
      /\ queue \in Seq(Message) /\ stale \subseteq {"info", "state"}
  BY TypeParts DEF IInv, Shape, OthersOK
<1>2. /\ UNCHANGED <<config, setting, registered, snap, seen, shown>>
      /\ events' \in 0 .. MaxEvents
      /\ pc["session"] = "idle" /\ "ACQUIRED" \in State
  BY CallType DEF SetActive, Call
<1>3. /\ State' \subseteq Bits /\ queue' \in Seq(Message)
      /\ stale' \subseteq {"info", "state"}
  <2>1. CASE active /\ "ACTIVE" \notin State
    BY <1>1, <2>1 DEF SetActive, PortOK
  <2>2. CASE ~(active /\ "ACTIVE" \notin State)
    <3>1. PICK new \in SUBSET Bits : WritePortState(new)
      BY <1>1, <2>2 DEF SetActive, PortOK
    <3> QED
      BY <3>1, WriteType
  <2> QED
    BY <2>1, <2>2
<1>4. /\ pc' \in [Threads -> Labels]
      /\ \A t \in Threads : pc'[t] # "info_send" \/ pc'[t] = pc[t]
  BY <1>1, Names DEF SetActive, Goto
<1>5. TypeOK'
  BY <1>1, <1>2, <1>3, ParametersKept, TypePartsNext, QueueTypeNext
     DEF PortOK, ThreadsOK, OthersOK
<1>6. Shape'
  BY <1>1, <1>2, <1>3, <1>4 DEF Shape
<1>7. ConfigLegal' /\ ReadsBack'
  BY <1>2, LegalKept, ParametersKept
<1> QED
  BY <1>5, <1>6, <1>7 DEF IInv

(* sendPortInfo.                                                           *)
LEMMA InfoInvariant ==
  ASSUME IInv, NEW t \in Threads, InfoRead(t) \/ InfoSend(t)
  PROVE  IInv'
<1>1. /\ PortOK /\ SettingOK /\ ThreadsOK /\ OthersOK /\ Shape
      /\ pc \in [Threads -> Labels] /\ queue \in Seq(Message)
      /\ config \in Config /\ DOMAIN snap = Threads
  BY TypeParts DEF IInv, Shape, PortOK
<1>2. UNCHANGED <<State, config, setting, registered, seen, shown, events>>
  BY DEF InfoRead, InfoSend, portVars
<1>3. AfterInfo(t) \in Labels /\ AfterInfo(t) \notin {"info_send", "acq_defaults"}
  BY Names DEF AfterInfo
<1>4. CASE InfoRead(t)
  <2>1. Info(config) \in PortInfoNotification
    BY <1>1, InfoType
  <2>2. UNCHANGED <<queue, stale>> /\ pc[t] = "info_read"
    BY <1>4 DEF InfoRead
  <2>3. \/ snap' = [snap EXCEPT ![t] = Info(config)] /\ Goto(t, "info_send")
        \/ UNCHANGED snap /\ Goto(t, AfterInfo(t))
    BY <1>4 DEF InfoRead
  <2>4. pc' \in [Threads -> Labels] /\ \A u \in Threads \ {t} : pc'[u] = pc[u]
    BY <1>1, <1>3, <2>3, Names DEF Goto
  <2>5. ThreadsOK'
    BY <1>1, <1>2, <2>1, <2>3 DEF ThreadsOK
  <2>6. Shape'
    BY <1>1, <1>2, <1>3, <2>1, <2>2, <2>3, <2>4 DEF Shape, Goto
  <2>7. pc["session"] = "acq_defaults" => pc'["session"] = "acq_defaults"
    BY <1>1, <2>2, <2>4, Names
  <2>8. ConfigLegal' /\ ReadsBack' /\ SettingOK'
    BY <1>2, <2>7, LegalKept, ParametersKept
  <2>9. TypeOK'
    BY <1>1, <1>2, <2>2, <2>5, <2>6, <2>8, TypePartsNext, QueueTypeNext
       DEF PortOK, OthersOK, Shape
  <2> QED
    BY <2>6, <2>8, <2>9 DEF IInv
<1>5. CASE InfoSend(t)
  <2>1. /\ pc[t] = "info_send" /\ snap[t] \in PortInfoNotification
        /\ snap' = [snap EXCEPT ![t] = Blank] /\ Goto(t, AfterInfo(t))
        /\ queue' = Append(queue, [id |-> "info", info |-> snap[t]])
    BY <1>1, <1>5 DEF InfoSend, Shape
  <2>2. queue' \in Seq(Message)
    BY <1>1, <2>1, MessageType, AppendType
  <2>3. stale' \subseteq {"info", "state"}
    BY <1>1, <1>5 DEF InfoSend, OthersOK
  <2>4. /\ pc' \in [Threads -> Labels] /\ pc'[t] # "info_send"
        /\ \A u \in Threads \ {t} : pc'[u] = pc[u]
    BY <1>1, <1>3, <2>1 DEF Goto
  <2>5. ThreadsOK'
    BY <1>1, <1>2, <2>1 DEF ThreadsOK
  <2>6. Shape'
    BY <1>1, <1>2, <2>1, <2>2, <2>4 DEF Shape
  <2>7. pc["session"] = "acq_defaults" => pc'["session"] = "acq_defaults"
    BY <1>1, <2>1, <2>4, Names
  <2>8. ConfigLegal' /\ ReadsBack' /\ SettingOK'
    BY <1>2, <2>7, LegalKept, ParametersKept
  <2>9. TypeOK'
    BY <1>1, <1>2, <2>2, <2>3, <2>5, <2>8, TypePartsNext, QueueTypeNext
       DEF PortOK, OthersOK
  <2> QED
    BY <2>6, <2>8, <2>9 DEF IInv
<1> QED
  BY <1>4, <1>5

(* The tester's other actions leave the driver's state alone.              *)
LEMMA TesterInvariant ==
  ASSUME IInv, Register \/ StateRead \/ StateSend \/ Drain
  PROVE  IInv'
<1>1. /\ PortOK /\ SettingOK /\ ThreadsOK /\ OthersOK /\ Shape
      /\ pc \in [Threads -> Labels] /\ queue \in Seq(Message)
  BY TypeParts DEF IInv, Shape
<1>2. UNCHANGED <<State, config, setting, snap, events>>
  BY DEF Register, StateRead, StateSend, Drain, portVars
<1>3. /\ pc' \in [Threads -> Labels]
      /\ \A t \in Threads : pc'[t] # "info_send" \/ pc'[t] = pc[t]
      /\ pc'["session"] = pc["session"]
  BY <1>1, Names DEF Register, StateRead, StateSend, Drain, Goto
<1>4. registered' \in BOOLEAN /\ seen' \subseteq Bits
  BY <1>1 DEF Register, StateRead, StateSend, Drain, PortOK, ThreadsOK, OthersOK
<1>5. stale' \subseteq {"info", "state"}
  BY <1>1 DEF Register, StateRead, StateSend, Drain, OthersOK
<1>6. queue' \in Seq(Message)
  <2>1. CASE Register \/ StateRead
    BY <1>1, <2>1 DEF Register, StateRead
  <2>2. CASE StateSend
    <3>1. [id |-> "state", state |-> seen] \in Message
      BY <1>1, MessageType DEF ThreadsOK
    <3> QED
      BY <1>1, <2>2, <3>1, AppendType DEF StateSend
  <2>3. CASE Drain
    BY <1>1, <2>3 DEF Drain
  <2> QED
    BY <2>1, <2>2, <2>3
<1>7. shown'.state \subseteq Bits /\ DOMAIN shown' = {"state", "info"}
  <2>1. CASE Register \/ StateRead \/ StateSend
    BY <1>1, <2>1 DEF Register, StateRead, StateSend, OthersOK, Shape
  <2>2. CASE Drain
    <3> DEFINE msg == Head(queue)
    <3>1. msg \in Message
      BY <1>1, <2>2 DEF Drain
    <3>2. CASE msg.id = "info"
      <4>1. shown' = [shown EXCEPT !.info = UpdatePortInfo(msg.info)]
        BY <2>2, <3>2 DEF Drain
      <4> QED
        BY <1>1, <4>1 DEF OthersOK, Shape
    <3>3. CASE msg.id # "info"
      <4>1. msg.state \subseteq Bits
        BY <3>1, <3>3 DEF Message
      <4>2. \/ shown' = UpdatePortState(shown, msg.state)
            \/ shown' = ResetPortInfo(UpdatePortState(shown, msg.state))
        BY <2>2, <3>3 DEF Drain
      <4> QED
        BY <1>1, <4>1, <4>2
        DEF OthersOK, Shape, UpdatePortState, ResetPortInfo
    <3> QED
      BY <3>2, <3>3
  <2> QED
    BY <2>1, <2>2
<1>8. TypeOK'
  BY <1>1, <1>2, <1>4, <1>5, <1>6, <1>7, ParametersKept, TypePartsNext,
     QueueTypeNext DEF PortOK, ThreadsOK, OthersOK
<1>9. Shape'
  BY <1>1, <1>2, <1>3, <1>6, <1>7 DEF Shape
<1>10. ConfigLegal' /\ ReadsBack'
  BY <1>2, <1>3, LegalKept, ParametersKept
<1> QED
  BY <1>8, <1>9, <1>10 DEF IInv

LEMMA NextInvariant == IInv /\ [Next]_vars => IInv'
<1> SUFFICES ASSUME IInv, [Next]_vars PROVE IInv'
  OBVIOUS
<1>1. CASE AcquirePort \/ ReleasePort \/ AcquireReturn \/ Activate \/ StateCall
  BY <1>1, StateInvariant
<1>2. CASE AcquireDefaults \/ ActivateDefaults
  BY <1>2, DefaultsInvariant
<1>3. CASE \E arg \in EventArgs : ExecuteEvent(arg)
  BY <1>3, ExecuteInvariant
<1>4. CASE \E active \in BOOLEAN : SetActive(active)
  BY <1>4, SetActiveInvariant
<1>5. CASE \E t \in Threads : InfoRead(t) \/ InfoSend(t)
  BY <1>5, InfoInvariant
<1>6. CASE Register \/ StateRead \/ StateSend \/ Drain
  BY <1>6, TesterInvariant
<1>7. CASE UNCHANGED vars
  <2>1. UNCHANGED <<State, config, setting, registered, queue, pc, snap, seen,
                    shown, stale, events>>
    BY <1>7 DEF vars, portVars
  <2>2. ConfigLegal' /\ ReadsBack' /\ SettingOK'
    BY <2>1, LegalKept, ParametersKept
  <2>3. TypeOK' /\ Shape'
    BY <2>1 DEF IInv, TypeOK, Shape
  <2> QED
    BY <2>2, <2>3 DEF IInv
<1> QED
  BY <1>1, <1>2, <1>3, <1>4, <1>5, <1>6, <1>7, Names
     DEF Next, SessionStep, TesterStep, StateCall

LEMMA InvariantHolds == Spec => []IInv
  BY InitInvariant, NextInvariant, PTL DEF Spec

-------------------------------------------------------------------------------
(* The theorems.                                                           *)

(* Every variable keeps its type: a latency that overflows is still stored *)
(* as 32 bits, and every message has the layout of its kind.               *)
THEOREM TypeCorrect == Spec => []TypeOK
<1>1. IInv => TypeOK
  BY DEF IInv
<1> QED
  BY <1>1, InvariantHolds, PTL

(* No sequence of events gives an acquired port parameters out of range,   *)
(* once acquirePort has stored the defaults.                               *)
THEOREM ParametersLegal == Spec => []ConfigLegal
<1>1. IInv => ConfigLegal
  BY DEF IInv
<1> QED
  BY <1>1, InvariantHolds, PTL

(* Whatever events are sent and refused and however often the port is      *)
(* acquired again, requestEvent's answer for a parameter is the one that   *)
(* the data last accepted for it leads to, or its default's, for every     *)
(* value that can be sent, those that are halved, cut or wrapped included. *)
THEOREM ParametersReadBack == Spec => []ReadsBack
<1>1. IInv => ReadsBack
  BY DEF IInv
<1> QED
  BY <1>1, InvariantHolds, PTL

-------------------------------------------------------------------------------
(* What the window will show when it has taken the messages that are still *)
(* in the port: the last state word, and what the last message about the   *)
(* parameters leaves of them.                                              *)

About(msg) == msg.id = "info" \/ msg.state = {}
Left(msg)  == IF msg.id = "info" THEN UpdatePortInfo(msg.info) ELSE Blank

StateAfter(q, window, state) ==
  \/ \E i \in DOMAIN q :
       /\ q[i].id = "state" /\ q[i].state = state
       /\ \A j \in DOMAIN q : j > i => q[j].id # "state"
  \/ (\A i \in DOMAIN q : q[i].id # "state") /\ window.state = state

InfoAfter(q, window, info) ==
  \/ \E i \in DOMAIN q :
       /\ About(q[i]) /\ Left(q[i]) = info
       /\ \A j \in DOMAIN q : j > i => ~About(q[j])
  \/ (\A i \in DOMAIN q : ~About(q[i])) /\ window.info = info

Launched == pc["tester"] \in {"loop", "send_dsr"}
Closed   == State = {}

(* The session's calls and the state word, and the copy it is about to     *)
(* send: no other thread changes the parameters.                           *)
CallsOK ==
  /\ registered <=> pc["tester"] # "launch"
  /\ Closed => pc["session"] = "idle"
  /\ "ACTIVE" \in State => pc["session"] \in {"idle", "info_read", "info_send"}
  /\ pc["session"] = "info_send" => snap["session"] = Info(config)

StateComing ==
  Launched /\ "state" \notin stale =>
    /\ StateAfter(queue, shown, State)
    /\ Closed => InfoAfter(queue, shown, Blank)

InfoSent ==
  /\ registered /\ pc["tester"] \notin {"info_read", "info_send"}
  /\ pc["session"] = "idle"

InfoComing ==
  InfoSent /\ "info" \notin stale /\ "ACTIVE" \in State =>
    InfoAfter(queue, shown, UpdatePortInfo(Info(config)))

DisplayInv == IInv /\ CallsOK /\ StateComing /\ InfoComing

(* A message is appended; the window takes the oldest.                     *)
LEMMA Appended ==
  ASSUME NEW q \in Seq(Message), NEW msg \in Message
  PROVE  LET a == Append(q, msg) IN
         /\ a \in Seq(Message) /\ DOMAIN a = DOMAIN q \cup {Len(q) + 1}
         /\ a[Len(q) + 1] = msg
         /\ \A i \in DOMAIN q : a[i] = q[i] /\ i \in Int /\ i < Len(q) + 1
         /\ Len(q) + 1 \in Int
  OBVIOUS

LEMMA StateAppended ==
  ASSUME NEW q \in Seq(Message), NEW new \in SUBSET Bits, NEW window
  PROVE  LET a == Append(q, [id |-> "state", state |-> new]) IN
         /\ StateAfter(a, window, new)
         /\ new = {} => InfoAfter(a, window, Blank)
         /\ \A info : new # {} /\ InfoAfter(q, window, info) => InfoAfter(a, window, info)
<1> DEFINE msg == [id |-> "state", state |-> new]
           a == Append(q, msg)
           n == Len(q) + 1
<1>1. msg \in Message /\ msg.id = "state" /\ msg.state = new
  BY MessageType
<1>2. /\ DOMAIN a = DOMAIN q \cup {n} /\ a[n] = msg
      /\ \A i \in DOMAIN q : a[i] = q[i] /\ i \in Int /\ i < n
      /\ n \in Int
  BY <1>1, Appended
<1> HIDE DEF msg, a, n
<1>3. StateAfter(a, window, new)
  BY <1>1, <1>2 DEF StateAfter
<1>4. new = {} => InfoAfter(a, window, Blank)
  BY <1>1, <1>2 DEF InfoAfter, About, Left
<1>5. ASSUME NEW info, new # {}, InfoAfter(q, window, info)
      PROVE  InfoAfter(a, window, info)
  <2>1. ~About(a[n])
    BY <1>1, <1>2, <1>5 DEF About
  <2> QED
    BY <1>2, <1>5, <2>1 DEF InfoAfter
<1> QED
  BY <1>3, <1>4, <1>5 DEF a, msg

LEMMA InfoAppended ==
  ASSUME NEW q \in Seq(Message), NEW info \in PortInfoNotification, NEW window
  PROVE  LET a == Append(q, [id |-> "info", info |-> info]) IN
         /\ InfoAfter(a, window, UpdatePortInfo(info))
         /\ \A state : StateAfter(q, window, state) => StateAfter(a, window, state)
<1> DEFINE msg == [id |-> "info", info |-> info]
           a == Append(q, msg)
           n == Len(q) + 1
<1>1. msg \in Message /\ msg.id = "info" /\ msg.info = info
  BY MessageType
<1>2. /\ DOMAIN a = DOMAIN q \cup {n} /\ a[n] = msg
      /\ \A i \in DOMAIN q : a[i] = q[i] /\ i \in Int /\ i < n
      /\ n \in Int
  BY <1>1, Appended
<1> HIDE DEF msg, a, n
<1>3. InfoAfter(a, window, UpdatePortInfo(info))
  <2>1. About(a[n]) /\ Left(a[n]) = UpdatePortInfo(info)
    BY <1>1, <1>2 DEF About, Left
  <2> QED
    BY <1>2, <2>1 DEF InfoAfter
<1>4. ASSUME NEW state, StateAfter(q, window, state)
      PROVE  StateAfter(a, window, state)
  <2>1. a[n].id # "state"
    BY <1>1, <1>2
  <2> QED
    BY <1>2, <1>4, <2>1 DEF StateAfter
<1> QED
  BY <1>3, <1>4 DEF a, msg

(* Taking a message changes nothing of what the window comes to show.      *)
LEMMA Drained ==
  ASSUME IInv, Drain
  PROVE  /\ \A state : StateAfter(queue, shown, state) => StateAfter(queue', shown', state)
         /\ \A info : InfoAfter(queue, shown, info) => InfoAfter(queue', shown', info)
<1> DEFINE msg == Head(queue)
           m == Len(queue)
<1>1. queue \in Seq(Message) /\ queue # <<>> /\ queue' = Tail(queue)
  BY DEF IInv, Shape, Drain
<1>2. /\ msg \in Message /\ msg = queue[1] /\ m \in Nat \ {0}
      /\ DOMAIN queue = 1 .. m /\ DOMAIN queue' = 1 .. m - 1
      /\ \A i \in 1 .. m - 1 : queue'[i] = queue[i + 1]
  BY <1>1
<1>3. /\ msg.id = "state" => shown'.state = msg.state
      /\ msg.id # "state" => shown'.state = shown.state
      /\ About(msg) => shown'.info = Left(msg)
      /\ ~About(msg) => shown'.info = shown.info
  <2>1. DOMAIN shown = {"state", "info"}
    BY DEF IInv, Shape
  <2>2. CASE msg.id = "info"
    <3>1. shown' = [shown EXCEPT !.info = UpdatePortInfo(msg.info)]
      BY <2>2 DEF Drain
    <3> QED
      BY <2>1, <2>2, <3>1 DEF About, Left
  <2>3. CASE msg.id # "info"
    <3>1. msg.id = "state"
      BY <1>2, <2>3 DEF Message
    <3>2. CASE msg.state # {}
      <4>1. shown' = UpdatePortState(shown, msg.state)
        BY <2>3, <3>2 DEF Drain
      <4> QED
        BY <2>1, <2>3, <3>1, <3>2, <4>1 DEF About, UpdatePortState
    <3>3. CASE msg.state = {}
      <4>1. shown' = ResetPortInfo(UpdatePortState(shown, msg.state))
        BY <2>3, <3>3 DEF Drain
      <4> QED
        BY <2>1, <2>3, <3>1, <3>3, <4>1 DEF About, Left, UpdatePortState, ResetPortInfo
    <3> QED
      BY <3>2, <3>3
  <2> QED
    BY <2>2, <2>3
<1> HIDE DEF msg, m
<1>4. \A i \in 1 .. m : i = 1 \/ (i - 1 \in 1 .. m - 1 /\ queue[i] = queue'[i - 1])
  BY <1>2
<1>5. ASSUME NEW state, StateAfter(queue, shown, state)
      PROVE  StateAfter(queue', shown', state)
  <2>1. CASE \A i \in DOMAIN queue : queue[i].id # "state"
    <3>1. /\ \A i \in DOMAIN queue' : queue'[i].id # "state"
          /\ msg.id # "state" /\ shown.state = state
      BY <1>2, <1>5, <2>1 DEF StateAfter
    <3> QED
      BY <1>3, <3>1 DEF StateAfter
  <2>2. ASSUME NEW i \in DOMAIN queue, queue[i].id = "state", queue[i].state = state,
               \A j \in DOMAIN queue : j > i => queue[j].id # "state"
        PROVE  StateAfter(queue', shown', state)
    <3>1. CASE i = 1
      <4>1. /\ \A j \in DOMAIN queue' : queue'[j].id # "state"
            /\ msg.id = "state" /\ msg.state = state
        BY <1>2, <2>2, <3>1
      <4> QED
        BY <1>3, <4>1 DEF StateAfter
    <3>2. CASE i # 1
      <4> DEFINE k == i - 1
      <4>1. k \in DOMAIN queue' /\ queue'[k] = queue[i]
        BY <1>2, <1>4, <3>2
      <4>2. ASSUME NEW j \in DOMAIN queue', j > k PROVE queue'[j].id # "state"
        <5>1. j + 1 \in DOMAIN queue /\ j + 1 > i /\ queue'[j] = queue[j + 1]
          BY <1>2, <4>2
        <5> QED
          BY <2>2, <5>1
      <4> HIDE DEF k
      <4> QED
        BY <2>2, <4>1, <4>2 DEF StateAfter
    <3> QED
      BY <3>1, <3>2
  <2> QED
    BY <1>5, <2>1, <2>2 DEF StateAfter
<1>6. ASSUME NEW info, InfoAfter(queue, shown, info)
      PROVE  InfoAfter(queue', shown', info)
  <2>1. CASE \A i \in DOMAIN queue : ~About(queue[i])
    <3>1. /\ \A i \in DOMAIN queue' : ~About(queue'[i])
          /\ ~About(msg) /\ shown.info = info
      BY <1>2, <1>6, <2>1 DEF InfoAfter
    <3> QED
      BY <1>3, <3>1 DEF InfoAfter
  <2>2. ASSUME NEW i \in DOMAIN queue, About(queue[i]), Left(queue[i]) = info,
               \A j \in DOMAIN queue : j > i => ~About(queue[j])
        PROVE  InfoAfter(queue', shown', info)
    <3>1. CASE i = 1
      <4>1. /\ \A j \in DOMAIN queue' : ~About(queue'[j])
            /\ About(msg) /\ Left(msg) = info
        BY <1>2, <2>2, <3>1
      <4> QED
        BY <1>3, <4>1 DEF InfoAfter
    <3>2. CASE i # 1
      <4> DEFINE k == i - 1
      <4>1. k \in DOMAIN queue' /\ queue'[k] = queue[i]
        BY <1>2, <1>4, <3>2
      <4>2. ASSUME NEW j \in DOMAIN queue', j > k PROVE ~About(queue'[j])
        <5>1. j + 1 \in DOMAIN queue /\ j + 1 > i /\ queue'[j] = queue[j + 1]
          BY <1>2, <4>2
        <5> QED
          BY <2>2, <5>1
      <4> HIDE DEF k
      <4> QED
        BY <2>2, <4>1, <4>2 DEF InfoAfter
    <3> QED
      BY <3>1, <3>2
  <2> QED
    BY <1>6, <2>1, <2>2 DEF InfoAfter
<1> QED
  BY <1>5, <1>6

-------------------------------------------------------------------------------
(* What the steps preserve.                                                *)

DisplayKept == CallsOK' /\ StateComing' /\ InfoComing'

LEMMA Moved ==
  ASSUME IInv, NEW t \in Threads, NEW label \in Labels, Goto(t, label)
  PROVE  pc'[t] = label /\ \A u \in Threads \ {t} : pc'[u] = pc[u]
  BY DEF IInv, Shape, Goto

(* A step that writes the state word and does not end a report.            *)
LEMMA WriteDisplay ==
  ASSUME DisplayInv, NEW new \in SUBSET Bits, WritePortState(new),
         UNCHANGED <<config, registered, shown>>,
         Launched' => Launched, pc'["tester"] = "launch" <=> pc["tester"] = "launch",
         InfoSent' /\ "ACTIVE" \in new => InfoSent /\ "ACTIVE" \in State
  PROVE  StateComing' /\ InfoComing'
<1> queue \in Seq(Message) /\ State' = new
  BY DEF DisplayInv, IInv, Shape, WritePortState
<1> USE DEF StateComing, InfoComing, Closed
<1>1. CASE new # State /\ registered
  <2>1. /\ queue' = Append(queue, [id |-> "state", state |-> new])
        /\ stale' = stale \ {"state"}
    BY <1>1 DEF WritePortState
  <2>2. /\ StateAfter(queue', shown', new)
        /\ new = {} => InfoAfter(queue', shown', Blank)
        /\ \A info : new # {} /\ InfoAfter(queue, shown, info)
                       => InfoAfter(queue', shown', info)
    BY <2>1, StateAppended
  <2> QED
    BY <2>1, <2>2 DEF DisplayInv
<1>2. CASE ~registered
  <2>1. ~Launched' /\ ~InfoSent'
    BY <1>2 DEF DisplayInv, CallsOK, Launched, InfoSent
  <2> QED
    BY <2>1
<1>3. CASE new = State
  <2>1. UNCHANGED <<queue, stale>>
    BY <1>3 DEF WritePortState
  <2> QED
    BY <1>3, <2>1 DEF DisplayInv
<1> QED
  BY <1>1, <1>2, <1>3

(* The session's steps that send nothing.                                  *)
LEMMA QuietDisplay ==
  ASSUME DisplayInv, UNCHANGED <<State, registered, queue, shown, stale>>,
         pc'["tester"] = pc["tester"], ~InfoSent'
  PROVE  StateComing' /\ InfoComing'
  BY DEF DisplayInv, StateComing, InfoComing, Launched, Closed

LEMMA StateDisplay ==
  ASSUME DisplayInv, AcquirePort \/ ReleasePort \/ AcquireReturn \/ Activate \/ StateCall
  PROVE  DisplayKept
<1> /\ IInv /\ State \subseteq Bits /\ CallsOK
    /\ "session" \in Threads /\ "tester" \in Threads /\ "session" # "tester"
  BY Names DEF DisplayInv, IInv, TypeOK
<1>1. UNCHANGED <<config, registered, snap, shown>>
  BY DEF AcquirePort, ReleasePort, AcquireReturn, Activate, StateCall, GetState,
         SendData, SendReturn
<1>2. CASE AcquirePort
  <2>1. /\ WritePortState({"ACQUIRED", "ENABLE"}) /\ State' = {"ACQUIRED", "ENABLE"}
        /\ pc'["session"] = "acq_defaults" /\ pc'["tester"] = pc["tester"]
    BY <1>2, Moved, Names DEF AcquirePort, WritePortState
  <2>2. StateComing' /\ InfoComing'
    BY <1>1, <2>1, WriteDisplay, Names DEF Launched, InfoSent
  <2> QED
    BY <1>1, <2>1, <2>2 DEF DisplayKept, CallsOK, Closed
<1>3. CASE ReleasePort
  <2>1. WritePortState({}) /\ State' = {} /\ UNCHANGED pc /\ pc["session"] = "idle"
    BY <1>3 DEF ReleasePort, WritePortState, Call
  <2>2. StateComing' /\ InfoComing'
    BY <1>1, <2>1, WriteDisplay DEF Launched
  <2> QED
    BY <1>1, <2>1, <2>2 DEF DisplayKept, CallsOK, Closed
<1>4. CASE AcquireReturn
  <2>1. /\ WritePortState(State \cup {"CTS"}) /\ State' = State \cup {"CTS"}
        /\ pc["session"] = "acq_cts"
        /\ pc'["session"] = "idle" /\ pc'["tester"] = pc["tester"]
    BY <1>4, Moved, Names DEF AcquireReturn, WritePortState
  <2>2. "ACTIVE" \notin State' /\ State' \in SUBSET Bits
    BY <2>1, Names DEF CallsOK
  <2>3. StateComing' /\ InfoComing'
    BY <1>1, <2>1, <2>2, WriteDisplay DEF Launched
  <2> QED
    BY <1>1, <2>1, <2>2, <2>3 DEF DisplayKept, CallsOK, Closed
<1>5. CASE Activate
  <2>1. /\ WritePortState(State \cup {"ACTIVE"}) /\ State' = State \cup {"ACTIVE"}
        /\ pc'["session"] = "info_read" /\ pc'["tester"] = pc["tester"]
        /\ State' \in SUBSET Bits
    BY <1>5, Moved, Names DEF Activate, WritePortState
  <2>2. StateComing' /\ InfoComing'
    BY <1>1, <2>1, WriteDisplay DEF Launched, InfoSent
  <2> QED
    BY <1>1, <2>1, <2>2 DEF DisplayKept, CallsOK, Closed
<1>6. CASE StateCall
  <2>1. PICK bit \in {"QUEUE", "DSR"} :
          WritePortState(State \cup {bit}) /\ State' = State \cup {bit}
    BY <1>6 DEF StateCall, GetState, SendData, SendReturn, WritePortState
  <2>2. /\ pc'["session"] = pc["session"]
        /\ \/ pc'["tester"] = pc["tester"]
           \/ /\ pc["tester"] \in {"loop", "send_dsr"}
              /\ pc'["tester"] \in {"loop", "send_dsr"}
    BY <1>6, Moved, Names DEF StateCall, GetState, SendData, SendReturn
  <2>3. State' \in SUBSET Bits /\ ("ACTIVE" \in State' => "ACTIVE" \in State)
    BY <2>1, Names
  <2>4. StateComing' /\ InfoComing'
    BY <1>1, <2>1, <2>2, <2>3, WriteDisplay DEF Launched, InfoSent
  <2> QED
    BY <1>1, <2>1, <2>2, <2>3, <2>4 DEF DisplayKept, CallsOK, Closed
<1> QED
  BY <1>2, <1>3, <1>4, <1>5, <1>6

LEMMA ParameterDisplay ==
  ASSUME DisplayInv,
         \/ AcquireDefaults \/ ActivateDefaults
         \/ \E arg \in EventArgs : ExecuteEvent(arg)
         \/ \E active \in BOOLEAN : SetActive(active)
  PROVE  DisplayKept
<1> /\ IInv /\ State \subseteq Bits /\ CallsOK
    /\ "session" \in Threads /\ "tester" \in Threads /\ "session" # "tester"
  BY Names DEF DisplayInv, IInv, TypeOK
<1>1. /\ UNCHANGED <<registered, snap, shown>> /\ pc'["tester"] = pc["tester"]
      /\ pc'["session"] \in {"acq_cts", "ev_active", "info_read", "ev_defaults"}
  BY Moved, Names DEF AcquireDefaults, ActivateDefaults, ExecuteEvent, SetActive
<1>2. CASE ~(\E active \in BOOLEAN : SetActive(active) /\ ~(active /\ "ACTIVE" \notin State))
  <2>1. /\ UNCHANGED <<State, queue, stale>> /\ ~Closed
        /\ "ACTIVE" \in State => pc'["session"] = "info_read"
    <3>1. CASE AcquireDefaults \/ ActivateDefaults
      BY <3>1 DEF AcquireDefaults, ActivateDefaults, CallsOK
    <3>2. CASE \E arg \in EventArgs : ExecuteEvent(arg)
      BY <3>2, Moved, Names DEF ExecuteEvent, Closed
    <3>3. CASE \E active \in BOOLEAN : SetActive(active)
      BY <1>2, <3>3 DEF SetActive, Closed
    <3> QED
      BY <3>1, <3>2, <3>3
  <2>2. StateComing' /\ InfoComing'
    BY <1>1, <2>1, QuietDisplay DEF InfoSent
  <2> QED
    BY <1>1, <2>1, <2>2 DEF DisplayKept, CallsOK, Closed
<1>3. ASSUME NEW active \in BOOLEAN, SetActive(active), ~(active /\ "ACTIVE" \notin State)
      PROVE  DisplayKept
  <2>1. PICK new \in SUBSET Bits : WritePortState(new) /\ "ACQUIRED" \in new
    BY <1>3 DEF SetActive
  <2>2. /\ UNCHANGED config /\ State' = new /\ pc'["session"] = "info_read"
    BY <1>3, <2>1, Moved, Names DEF SetActive, WritePortState
  <2>3. StateComing' /\ InfoComing'
    BY <1>1, <2>1, <2>2, WriteDisplay DEF Launched, InfoSent
  <2> QED
    BY <1>1, <2>1, <2>2, <2>3 DEF DisplayKept, CallsOK, Closed
<1> QED
  BY <1>2, <1>3

(* sendPortInfo.                                                           *)
LEMMA InfoDisplay ==
  ASSUME DisplayInv, NEW t \in Threads, InfoRead(t) \/ InfoSend(t)
  PROVE  DisplayKept
<1> /\ IInv /\ CallsOK /\ StateComing /\ InfoComing
    /\ "session" \in Threads /\ "tester" \in Threads /\ "session" # "tester"
    /\ t = "session" \/ t = "tester"
    /\ queue \in Seq(Message) /\ DOMAIN snap = Threads
  BY Names DEF DisplayInv, IInv, Shape, Threads
<1>1. UNCHANGED <<State, config, registered, shown>>
  BY DEF InfoRead, InfoSend, portVars
<1>2. CASE InfoRead(t)
  <2>1. /\ UNCHANGED <<queue, stale>> /\ pc[t] = "info_read"
        /\ \/ registered /\ snap' = [snap EXCEPT ![t] = Info(config)] /\ Goto(t, "info_send")
           \/ ~registered /\ UNCHANGED snap /\ Goto(t, AfterInfo(t))
    BY <1>2 DEF InfoRead
  <2>2. CASE t = "session"
    <3>1. /\ pc'["tester"] = pc["tester"]
          /\ \/ registered /\ snap'[t] = Info(config) /\ pc'[t] = "info_send"
             \/ ~registered /\ pc'[t] = "idle"
      BY <2>1, <2>2, Moved, Names DEF AfterInfo
    <3>2. StateComing' /\ InfoComing'
      BY <1>1, <2>1, <2>2, <3>1, QuietDisplay DEF InfoSent
    <3> QED
      BY <1>1, <2>1, <2>2, <3>1, <3>2 DEF DisplayKept, CallsOK, Closed
  <2>3. CASE t = "tester"
    <3>1. registered
      BY <2>1, <2>3 DEF CallsOK
    <3>2. /\ pc'["session"] = pc["session"] /\ pc'["tester"] = "info_send"
          /\ snap'["session"] = snap["session"]
      BY <2>1, <2>3, <3>1, Moved, Names
    <3>3. ~Launched' /\ ~InfoSent'
      BY <3>2 DEF Launched, InfoSent
    <3> QED
      BY <1>1, <3>1, <3>2, <3>3
         DEF DisplayKept, CallsOK, StateComing, InfoComing, Closed
  <2> QED
    BY <2>2, <2>3
<1>3. CASE InfoSend(t)
  <2>1. /\ pc[t] = "info_send" /\ Goto(t, AfterInfo(t))
        /\ queue' = Append(queue, [id |-> "info", info |-> snap[t]])
        /\ snap[t] \in PortInfoNotification
        /\ stale' = IF snap[t] = Info(config) THEN stale \ {"info"} ELSE stale \cup {"info"}
        /\ snap' = [snap EXCEPT ![t] = Blank]
    BY <1>3 DEF InfoSend, IInv, Shape
  <2>2. /\ InfoAfter(queue', shown, UpdatePortInfo(snap[t]))
        /\ \A state : StateAfter(queue, shown, state) => StateAfter(queue', shown, state)
    BY <2>1, InfoAppended
  <2>3. /\ pc'[t] = AfterInfo(t) /\ AfterInfo(t) # "info_send"
        /\ \A u \in Threads \ {t} : pc'[u] = pc[u] /\ snap'[u] = snap[u]
    BY <2>1, Moved, Names DEF AfterInfo
  <2>4. InfoComing'
    BY <1>1, <2>1, <2>2 DEF InfoComing
  <2>5. CASE t = "session"
    <3>1. ~Closed /\ pc'["session"] = "idle" /\ pc'["tester"] = pc["tester"]
      BY <2>1, <2>3, <2>5 DEF CallsOK, AfterInfo
    <3>2. StateComing'
      BY <1>1, <2>1, <2>2, <3>1 DEF StateComing, Launched, Closed
    <3> QED
      BY <1>1, <2>4, <3>1, <3>2 DEF DisplayKept, CallsOK, Closed
  <2>6. CASE t = "tester"
    <3>1. pc'["tester"] = "state_read" /\ registered /\ pc'["session"] = pc["session"]
      BY <2>1, <2>3, <2>6 DEF CallsOK, AfterInfo
    <3>2. StateComing'
      BY <3>1 DEF StateComing, Launched
    <3> QED
      BY <1>1, <2>3, <2>4, <2>6, <3>1, <3>2 DEF DisplayKept, CallsOK, Closed
  <2> QED
    BY <2>5, <2>6
<1> QED
  BY <1>2, <1>3

(* The tester's other steps.                                               *)
LEMMA TesterDisplay ==
  ASSUME DisplayInv, Register \/ StateRead \/ StateSend \/ Drain
  PROVE  DisplayKept
<1> /\ IInv /\ CallsOK /\ StateComing /\ InfoComing
    /\ "session" \in Threads /\ "tester" \in Threads /\ "session" # "tester"
    /\ queue \in Seq(Message) /\ seen \in SUBSET Bits
  BY Names DEF DisplayInv, IInv, Shape, TypeOK
<1>1. UNCHANGED <<State, config, snap>> /\ pc'["session"] = pc["session"]
  BY Moved, Names DEF Register, StateRead, StateSend, Drain, portVars
<1>2. CASE Register
  <2>1. registered' /\ pc'["tester"] = "info_read"
    BY <1>2, Moved, Names DEF Register
  <2> QED
    BY <1>1, <2>1
       DEF DisplayKept, CallsOK, StateComing, InfoComing, Launched, InfoSent, Closed
<1>3. CASE StateRead
  <2>1. /\ UNCHANGED <<registered, queue, shown, stale>>
        /\ pc["tester"] = "state_read" /\ pc'["tester"] = "state_send"
    BY <1>3, Moved, Names DEF StateRead
  <2> QED
    BY <1>1, <2>1
       DEF DisplayKept, CallsOK, StateComing, InfoComing, Launched, InfoSent, Closed
<1>4. CASE StateSend
  <2>1. /\ UNCHANGED <<registered, shown>>
        /\ pc["tester"] = "state_send" /\ pc'["tester"] = "loop"
        /\ queue' = Append(queue, [id |-> "state", state |-> seen])
        /\ stale' = IF seen = State THEN stale \ {"state"}
                    ELSE stale \cup {"state"} \cup (IF seen = {} THEN {"info"} ELSE {})
    BY <1>4, Moved, Names DEF StateSend
  <2>2. /\ StateAfter(queue', shown, seen)
        /\ seen = {} => InfoAfter(queue', shown, Blank)
        /\ \A info : seen # {} /\ InfoAfter(queue, shown, info)
                       => InfoAfter(queue', shown, info)
    BY <2>1, StateAppended
  <2>3. StateComing'
    BY <1>1, <2>1, <2>2 DEF StateComing, Closed
  <2>4. InfoComing'
    <3> SUFFICES ASSUME InfoSent', "info" \notin stale', "ACTIVE" \in State
                 PROVE  InfoAfter(queue', shown, UpdatePortInfo(Info(config)))
      BY <1>1, <2>1 DEF InfoComing
    <3>1. InfoSent /\ "info" \notin stale /\ seen # {}
      BY <1>1, <2>1 DEF InfoSent
    <3> QED
      BY <2>2, <3>1 DEF InfoComing
  <2> QED
    BY <1>1, <2>1, <2>3, <2>4 DEF DisplayKept, CallsOK, Closed
<1>5. CASE Drain
  <2>1. UNCHANGED <<registered, stale, pc>>
    BY <1>5 DEF Drain
  <2>2. /\ \A state : StateAfter(queue, shown, state) => StateAfter(queue', shown', state)
        /\ \A info : InfoAfter(queue, shown, info) => InfoAfter(queue', shown', info)
    BY <1>5, Drained
  <2> QED
    BY <1>1, <2>1, <2>2
       DEF DisplayKept, CallsOK, StateComing, InfoComing, Launched, InfoSent, Closed
<1> QED
  BY <1>2, <1>3, <1>4, <1>5

LEMMA NextDisplay == DisplayInv /\ [Next]_vars => DisplayInv'
<1> SUFFICES ASSUME DisplayInv, [Next]_vars PROVE DisplayKept
  BY NextInvariant DEF DisplayInv, DisplayKept
<1>1. CASE UNCHANGED vars
  <2>1. UNCHANGED <<State, config, registered, queue, pc, snap, shown, stale>>
    BY <1>1 DEF vars, portVars
  <2> QED
    BY <2>1 DEF DisplayInv, DisplayKept, CallsOK, StateComing, InfoComing, Launched,
                InfoSent, Closed
<1>2. CASE Next
  BY <1>2, StateDisplay, ParameterDisplay, InfoDisplay, TesterDisplay, Names
     DEF Next, SessionStep, TesterStep, StateCall
<1> QED
  BY <1>1, <1>2

LEMMA InitDisplay == Init => DisplayInv
<1> SUFFICES ASSUME Init PROVE CallsOK /\ StateComing /\ InfoComing
  BY InitInvariant DEF DisplayInv
<1>1. /\ ~registered /\ State = {"QUEUE"}
      /\ pc["session"] = "idle" /\ pc["tester"] = "launch"
  BY Names DEF Init
<1> QED
  BY <1>1 DEF CallsOK, StateComing, InfoComing, Launched, InfoSent, Closed

(* When no call is in progress and the tester has taken every message, its *)
(* window shows the state word and, of an active port, its parameters,     *)
(* unless the last message of that kind was overtaken: what writePortState,*)
(* executeEvent and getInfo send, in whatever order they send it, leaves   *)
(* nothing else out.                                                       *)
THEOREM WindowIsCurrent == Spec => []DisplayCurrent
<1>1. DisplayInv => DisplayCurrent
  <2> SUFFICES ASSUME DisplayInv, Settled, registered
               PROVE  /\ "state" \notin stale => shown.state = State
                      /\ ("info" \notin stale /\ "ACTIVE" \in State) =>
                           shown.info = UpdatePortInfo(Info(config))
                      /\ State = {} /\ "state" \notin stale => shown.info = Blank
    BY DEF DisplayCurrent
  <2>1. Launched /\ InfoSent
    BY DEF DisplayInv, CallsOK, Settled, Launched, InfoSent
  <2>2. DOMAIN queue = {}
    BY DEF Settled
  <2>3. /\ \A state : StateAfter(queue, shown, state) => shown.state = state
        /\ \A info : InfoAfter(queue, shown, info) => shown.info = info
    BY <2>2 DEF StateAfter, InfoAfter
  <2> QED
    BY <2>1, <2>3 DEF DisplayInv, StateComing, InfoComing, Closed
<1> QED
  BY <1>1, InitDisplay, NextDisplay, PTL DEF Spec
===============================================================================
