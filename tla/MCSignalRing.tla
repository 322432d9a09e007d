---------------------------- MODULE MCSignalRing ----------------------------
(* Two controllers for model checking VxtSignalRing. *)
EXTENDS VxtSignalRing
CONSTANTS a1, a2, b1

OnePerSide == {a1, b1}
TwoOnA == {a1, a2}
OnlyA1 == {a1}
=============================================================================
