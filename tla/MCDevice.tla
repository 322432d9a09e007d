------------------------------ MODULE MCDevice ------------------------------
(* A controller pair with a few threads for model checking VxtDevice. *)
EXTENDS VxtDevice
CONSTANTS g1, h1, gk, hk

OneEach == {g1, h1}
Cards == {gk, hk}

\* The second slot of a side is used only as long as the host's card driver has
\* not taken its controller down.
TwoSlotsBefore == taken'["host"] => \A s \in Side : next'[s] <= 2

IdBounds == [s \in Side |-> IF s = "guest" THEN 2 ELSE 1]
HomeOf == [t \in Thread |-> IF t \in {g1, gk} THEN "guest" ELSE "host"]
=============================================================================
