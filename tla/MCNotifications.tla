---------------------------- MODULE MCNotifications ----------------------------
(***************************************************************************)
(* The events a serial client sends to Notifications, among them values at *)
(* and beyond each limit, odd rates and a latency that overflows.          *)
(***************************************************************************)
EXTENDS Notifications

Arg(event, values) == [event : {event}, data : values]

Args ==
  Arg("DATA_RATE", {198, 19200, 115201})
    \cup Arg("DATA_SIZE", {14, 18})
    \cup Arg("STOP_BITS", {20})
    \cup Arg("DATA_INTEGRITY", {5, 6})
    \cup Arg("RX_DATA_INTEGRITY", {6, 7})
    \cup Arg("XON_BYTE", {300})
    \cup Arg("DATA_LATENCY", {1048, 1049})
    \cup Arg("DELAY", {3})
===============================================================================
