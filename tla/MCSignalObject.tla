--------------------------- MODULE MCSignalObject ---------------------------
(* Two addresses and a few users for model checking VxtSignalObject. *)
EXTENDS VxtSignalObject
CONSTANTS o1, o2, w1, w2, p1, f1

TwoAddresses == {o1, o2}
TwoWaiters == {w1, w2}
OnePoller == {p1}
OneFile == {f1}
=============================================================================
