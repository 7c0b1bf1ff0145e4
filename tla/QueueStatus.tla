------------------------------ MODULE QueueStatus ------------------------------
(***************************************************************************)
(* What the queue bits of the port-state word are worth.  They are a copy  *)
(* of the RX queue's fill level that only checkQueues brings up to date,   *)
(* from readings it takes one after the other, and getState runs it        *)
(* without RXBufferLock.  This module is VirtualSerialPort with two        *)
(* history variables that say when the copy may be out of date; it takes   *)
(* away none of the driver's steps and adds none.                          *)
(***************************************************************************)
EXTENDS VirtualSerialPort

VARIABLES
  overtaken,  \* threads whose checkQueues works on readings that have changed
  told        \* no step since the last checkQueues made the bits out of date

statusVars == <<overtaken, told>>

-------------------------------------------------------------------------------

RXBits == State \cap RXQ_MASK
Level  == QueueBits(RXQ, RX.InQueue, FreeSpaceinQueue(RX))

(* Threads that run checkQueues.                                           *)
Checkers == Threads \ Sessions

(* Labels of checkQueues at which it goes by what it has read before.      *)
HasRead == {"cq_free", "cq_delta", "write"}

(* The queue or its marks change under a checkQueues that has read the     *)
(* count, or the queue bits under one that has its difference.             *)
Overtakes(t) ==
  \/ RX' # RX
  \/ marksSet' # marksSet
  \/ pc[t] = "write" /\ RXBits' # RXBits

(* The checkQueues whose write this step is.                               *)
Writing == {t \in Checkers : pc[t] = "write" /\ pc'[t] # "write"}

(* A session empties the queue, sets its marks or writes queue bits.       *)
Disturbs ==
  \/ RX' # RX /\ \E s \in Sessions : pc'[s] # pc[s]
  \/ marksSet' # marksSet
  \/ RXBits' # RXBits

Record ==
  /\ overtaken' = {t \in Checkers : /\ pc'[t] \in HasRead
                                    /\ t \in overtaken \/ Overtakes(t)}
  /\ told' = IF Writing # {} THEN Writing \cap overtaken = {}
                             ELSE told /\ ~Disturbs

StatusInit == Init /\ overtaken = {} /\ told = FALSE

StatusNext == Next /\ Record

StatusSpec == StatusInit /\ [][StatusNext]_<<vars, statusVars>>

-------------------------------------------------------------------------------
(* Properties.                                                             *)

(* Whatever calls overlap, getState and a setState of queue bits included: *)
(* while nobody is using the queue the state word's RX bits describe it.   *)
(* The exceptions are that the last checkQueues was overtaken, or that a   *)
(* session reset the queue or wrote the bits since.                        *)
StatusCurrent == (told /\ RXBufferLock = Nobody) => RXBits = Level
===============================================================================
