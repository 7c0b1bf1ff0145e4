------------------------------- MODULE ByteFifo -------------------------------
(***************************************************************************)
(* What a CirQueue promises: a bounded first-in first-out queue of bytes.  *)
(* taken is what the most recent read handed to its caller.                *)
(***************************************************************************)
EXTENDS Integers, Sequences

CONSTANTS Byte, Capacity

VARIABLES contents, taken

vars == <<contents, taken>>

TypeOK ==
  /\ contents \in Seq(Byte)
  /\ Len(contents) <= Capacity
  /\ taken \in Seq(Byte)

Init ==
  /\ contents = <<>>
  /\ taken = <<>>

Put(b) ==
  /\ Len(contents) < Capacity
  /\ contents' = Append(contents, b)
  /\ UNCHANGED taken

(* A read of the n oldest bytes, in the order they were put.               *)
Take(n) ==
  /\ n <= Len(contents)
  /\ taken' = SubSeq(contents, 1, n)
  /\ contents' = SubSeq(contents, n + 1, Len(contents))

Flush ==
  /\ contents' = <<>>
  /\ UNCHANGED taken

Next ==
  \/ \E b \in Byte : Put(b)
  \/ \E n \in 0 .. Capacity : Take(n)
  \/ Flush

Spec == Init /\ [][Next]_vars
===============================================================================
