------------------------------ MODULE MCSocket ------------------------------
(* A process with a few threads for model checking VxtSocket. *)
EXTENDS VxtSocket
CONSTANTS t1, t2, t3, d1, d2

TwoThreads == {t1, t2}
ThreeThreads == {t1, t2, t3}
TwoDevices == {d1, d2}
OneDevice == {d1}
=============================================================================
