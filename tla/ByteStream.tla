----------------------------- MODULE ByteStream -----------------------------
(***************************************************************************)
(* What vxt_msg_send and vxt_msg_rcv promise together: a byte stream.      *)
(* Bytes are numbered in the order they are written; out is what the       *)
(* reader was given.  A write or a read moves any number of bytes, and no  *)
(* more than Capacity of them are under way.                               *)
(***************************************************************************)
EXTENDS Integers, Sequences

CONSTANT Capacity

VARIABLES in, out

Init == in = 0 /\ out = <<>>

Write ==
  \E n \in 1 .. Capacity :
    /\ in + n - Len(out) <= Capacity
    /\ in' = in + n
    /\ UNCHANGED out

Read ==
  \E n \in 1 .. in - Len(out) :
    /\ out' = out \o [k \in 1 .. n |-> Len(out) + k]
    /\ UNCHANGED in

Next == Write \/ Read

Spec == Init /\ [][Next]_<<in, out>>
=============================================================================
