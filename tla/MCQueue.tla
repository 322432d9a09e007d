------------------------------ MODULE MCQueue ------------------------------
(* Client vocabularies for model checking VxtQueue. *)
EXTENDS VxtQueue

GetWait == {{"WAIT"}}
GetAny == {{}, {"WAIT"}, {"WAIT", "IGNORE_SHUTDOWN"}}
GetEither == {{}, {"WAIT"}}
PutPlain == {{}}
PutAbortOrPlain == {{}, {"ABORT"}}
PutUnblocked == {{}, {"IGNORE_SHUTDOWN"}}
PutInTurn == {{}, {"SIGNAL"}, {"ABORT", "SIGNAL"}, {"IGNORE_SHUTDOWN"}}
PutStream == {{"AUTO_STREAM"}}
StopStart == {{"STOP"}, {"START"}}
Ending == {{"SHUTDOWN", "WAIT"}, {"CLOSE"}}
StopOrEnd == StopStart \cup Ending
EndingError == Ending \cup {{"ERROR"}}
\* Leads that a full or an empty ring passes through.
SafeLeads == (0 .. BufCnt - 1) \X (0 .. BufCnt - 1)
Both == {P, C}
ConsumerOnly == {C}

\* Hysteresis is set before streaming starts, not while it runs.
LeadsFirst == hdr' # hdr => sent = 0 /\ app[P] = {}
=============================================================================
