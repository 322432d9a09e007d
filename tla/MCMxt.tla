------------------------------- MODULE MCMxt -------------------------------
(***************************************************************************)
(* Instances of Mxt for TLC.                                               *)
(***************************************************************************)
EXTENDS Mxt

GuestOnly == {"guest"}
FirstEnds == {1} \X Side
FirstGuest == {<<1, "guest">>}
=============================================================================
