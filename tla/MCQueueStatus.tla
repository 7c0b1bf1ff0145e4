---------------------------- MODULE MCQueueStatus ------------------------------
(***************************************************************************)
(* QueueStatus with the arguments of MCVirtualSerialPort.                  *)
(***************************************************************************)
EXTENDS QueueStatus, MCVirtualSerialPort
===============================================================================
