----------------------------- MODULE ExclusivePort -----------------------------
(***************************************************************************)
(* What acquirePort and releasePort promise: one session at a time has the *)
(* port, the busy bit of its state word says whether one does, and the     *)
(* driver is referenced once for each session that has or wants it.        *)
(***************************************************************************)
EXTENDS Integers

CONSTANT Sessions

VARIABLES
  owners,   \* the session that has the port, in a set
  holders,  \* sessions that have a reference to the driver
  busy,     \* the busy bit
  refs      \* the references counted

vars == <<owners, holders, busy, refs>>

Init ==
  /\ owners = {}
  /\ holders = {}
  /\ busy = FALSE
  /\ refs = 0

(* A session asks for the port, and holds the driver from now on.          *)
Ask(s) ==
  /\ s \notin holders
  /\ holders' = holders \cup {s}
  /\ refs' = refs + 1
  /\ UNCHANGED <<owners, busy>>

(* One that asked takes the port: nobody else has it.                      *)
Take(s) ==
  /\ s \in holders
  /\ owners = {} /\ ~busy
  /\ owners' = {s}
  /\ busy' = TRUE
  /\ UNCHANGED <<holders, refs>>

(* Only the owner gives the port back.                                     *)
GiveBack(s) ==
  /\ owners = {s}
  /\ owners' = {}
  /\ busy' = FALSE
  /\ UNCHANGED <<holders, refs>>

(* A session that failed to get the port, or gave it back, lets go of the  *)
(* driver.                                                                 *)
LetGo(s) ==
  /\ s \in holders \ owners
  /\ holders' = holders \ {s}
  /\ refs' = refs - 1
  /\ UNCHANGED <<owners, busy>>

Next == \E s \in Sessions : Ask(s) \/ Take(s) \/ GiveBack(s) \/ LetGo(s)

Spec == Init /\ [][Next]_vars
===============================================================================
