---------------------------- MODULE BoundedFifo ----------------------------
(***************************************************************************)
(* What vxt_queue.c promises a client that holds one buffer at a time: a   *)
(* FIFO channel of bounded capacity.  Messages are numbered as they are    *)
(* put in; out is the sequence in which they were read.                    *)
(***************************************************************************)
EXTENDS Naturals, Sequences

CONSTANT Capacity

VARIABLES in, out

Init == in = 0 /\ out = <<>>

\* The producer may only put while there is an empty buffer.
Put ==
  /\ in - Len(out) < Capacity
  /\ in' = in + 1
  /\ UNCHANGED out

\* The consumer reads the oldest message it has not read.
Get ==
  /\ Len(out) < in
  /\ out' = Append(out, Len(out) + 1)
  /\ UNCHANGED in

Next == Put \/ Get

Spec == Init /\ [][Next]_<<in, out>>
=============================================================================
