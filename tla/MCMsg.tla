------------------------------- MODULE MCMsg -------------------------------
(* Small rings for model checking VxtMsg. *)
EXTENDS VxtMsg

AllSends == {{}, {"AUTO_STREAM"}, {"WAIT", "IGNORE_SHUTDOWN"}}
AllReceives == {{}, {"WAIT"}, {"IGNORE_SHUTDOWN"}}
Streaming == {{"AUTO_STREAM"}}
Waiting == {{"WAIT"}}
=============================================================================
