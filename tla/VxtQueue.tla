------------------------------ MODULE VxtQueue ------------------------------
(***************************************************************************)
(* The shared-memory queue of lib/vxtlib/common/vxt_queue.c ("queue type   *)
(* 1"): a one-way ring of BufCnt sub-buffers between one producer and one  *)
(* consumer, each running in its own address space.  The control header    *)
(* and the sub-buffer headers are shared; a step below is one access to a  *)
(* shared word the other endpoint may be changing at the same time, or a   *)
(* run of accesses to words only this endpoint may touch.  Every shared    *)
(* store the code follows by vxt_mb() is a step of its own, so             *)
(* interleaving is sequentially consistent where the code fences.          *)
(*                                                                         *)
(* The signal and wait callbacks are modelled from how vxt_queue.c uses    *)
(* them: signal latches sig of the peer, wait sleeps until sig is latched  *)
(* (or is interrupted) and consumes it.  The event is the one of the       *)
(* device, shared by its two queues, so sig may also be latched by traffic *)
(* on the other queue (Attention).                                         *)
(***************************************************************************)
EXTENDS Integers, Sequences, FiniteSets

CONSTANTS
  BufCnt,     \* number of sub-buffers, buf_cnt of the header
  CntMod,     \* send_cnt and receive_cnt count modulo this; 2^32 in the code
  MaxMsg,     \* bound: messages the producer publishes in one behaviour
  MaxHeld,    \* client: buffers one endpoint holds at a time
  GetFlags,   \* client: flag sets it passes to vxtq_get_buf
  PutFlags,   \* client: flag sets it passes to vxtq_put_buf
  SigFlags,   \* client: flag sets it passes to vxtq_signal
  IoCmds,     \* client: commands it passes to vxtq_io_control
  Leads,      \* client: <<data_avail_lead, space_avail_lead>> it may set
  Attached,   \* the endpoints whose vxtq_init_buf has run when we start
  Interrupts  \* whether wait may return although nobody signalled

P == "producer"
C == "consumer"
Side == {P, C}
Buf == 0 .. BufCnt - 1
Msg == 1 .. MaxMsg
NoMsg == 0

ASSUME QueueAssumption ==
  /\ BufCnt \in Nat \ {0}
  /\ CntMod \in Nat /\ CntMod > BufCnt + 1
  /\ MaxMsg \in Nat
  /\ MaxHeld \in Nat
  /\ GetFlags \subseteq SUBSET {"WAIT", "IGNORE_SHUTDOWN"}
  /\ PutFlags \subseteq
       SUBSET {"SIGNAL", "AUTO_STREAM", "IGNORE_SHUTDOWN", "ABORT"}
  /\ SigFlags \subseteq
       SUBSET {"STOP", "START", "SHUTDOWN", "CLOSE", "ERROR", "WAIT"}
  /\ IoCmds \subseteq {"SET_ERROR", "RESET"}
  /\ Leads \subseteq Nat \X Nat
  /\ Attached \subseteq Side
  /\ Interrupts \in BOOLEAN

VARIABLES
  owner,   \* owner bit of each sub-buffer: the endpoint that may write it
  abort,   \* abort bit of each sub-buffer: turn this buffer around
  held,    \* app_held bit of each sub-buffer
  data,    \* the message a sub-buffer contains, NoMsg if none
  idx,     \* buf_index, the next buffer each endpoint will look at
  cnt,     \* send_cnt (P) and receive_cnt (C)
  need,    \* need_signal_space (P) and need_signal_data (C)
  hdr,     \* the remaining words of the shared vxtq_control
  sig,     \* a signal to this endpoint is pending
  pc,      \* where each endpoint is in the library
  call,    \* flags and locals of the library call in progress
  app,     \* buffers the client of each endpoint was given and not put back
  sent,    \* history: messages published so far
  rcvd,    \* history: what the consumer has put back as read
  voided,  \* history: messages discarded by a reset
  late     \* history: buffers published since producer_stop was set

vars == <<owner, abort, held, data, idx, cnt, need, hdr, sig, pc, call, app,
          sent, rcvd, voided, late>>
ring == <<owner, abort, held, data>>
hist == <<sent, rcvd, voided, late>>

Peer(e) == IF e = P THEN C ELSE P
\* Fault: the index runs off the end of the ring.
SuccNoWrap(i) == i + 1
Succ(i) == IF i + 1 >= BufCnt THEN 0 ELSE i + 1

\* vxtq_init_buf's default hysteresis: 75% empty, 25% filled.
DefaultHdr ==
  [consumer_flush |-> FALSE, producer_suspend |-> FALSE,
   producer_stop |-> FALSE, error |-> FALSE,
   space_avail_lead |-> (BufCnt \div 2) + (BufCnt \div 4),
   data_avail_lead |-> BufCnt \div 4]

NoCall == [flags |-> {}, buf |-> 0, wrapped |-> FALSE]

PCs == {"detached", "idle", "retry", "need", "wait", "recheck", "publish",
        "count", "compare", "hysteresis", "check", "signal", "sigwait"}

Hdr == [consumer_flush: BOOLEAN, producer_suspend: BOOLEAN,
        producer_stop: BOOLEAN, error: BOOLEAN,
        space_avail_lead: Nat, data_avail_lead: Nat]

AllFlags == {"WAIT", "IGNORE_SHUTDOWN", "SIGNAL", "AUTO_STREAM", "ABORT",
             "STOP", "START", "SHUTDOWN", "CLOSE", "ERROR"}

CallType == [flags: SUBSET AllFlags, buf: Buf, wrapped: BOOLEAN]

\* Types: nothing in the ring or the header leaves its range.
TypeOK ==
  /\ owner \in [Buf -> Side]
  /\ abort \in [Buf -> BOOLEAN]
  /\ held \in [Buf -> BOOLEAN]
  /\ data \in [Buf -> Msg \cup {NoMsg}]
  /\ idx \in [Side -> Buf]
  /\ cnt \in [Side -> 0 .. CntMod - 1]
  /\ need \in [Side -> BOOLEAN]
  /\ hdr \in Hdr
  /\ sig \in [Side -> BOOLEAN]
  /\ pc \in [Side -> PCs]
  /\ call \in [Side -> CallType]
  /\ app \in [Side -> SUBSET Buf]
  /\ sent \in 0 .. MaxMsg
  /\ rcvd \in Seq(Msg \cup {NoMsg})
  /\ voided \subseteq Msg
  /\ late \in Nat

-----------------------------------------------------------------------------
(* Attaching an endpoint *)

\* vxtq_init_buf by the endpoint that adds the device: every buffer is empty
\* and belongs to the producer.
Init ==
  /\ owner = [i \in Buf |-> P]
  /\ abort = [i \in Buf |-> FALSE]
  /\ held = [i \in Buf |-> FALSE]
  /\ data = [i \in Buf |-> NoMsg]
  /\ idx = [e \in Side |-> 0]
  /\ cnt = [e \in Side |-> 0]
  /\ need = [e \in Side |-> FALSE]
  /\ hdr = DefaultHdr
  /\ sig = [e \in Side |-> FALSE]
  /\ pc = [e \in Side |-> IF e \in Attached THEN "idle" ELSE "detached"]
  /\ call = [e \in Side |-> NoCall]
  /\ app = [e \in Side |-> {}]
  /\ sent = 0
  /\ rcvd = <<>>
  /\ voided = {}
  /\ late = 0

\* vxtq_init_buf by the endpoint that connects to an existing device
\* (VXTQ_BUFFER_INITIALIZED): the sub-buffers are left alone, the header is
\* not.
Connect(e) ==
  /\ pc[e] = "detached"
  /\ hdr' = DefaultHdr
  /\ need' = [s \in Side |-> FALSE]
  /\ cnt' = [s \in Side |-> 0]
  /\ idx' = [idx EXCEPT ![e] = 0]
  /\ pc' = [pc EXCEPT ![e] = "idle"]
  /\ UNCHANGED <<ring, sig, call, app, hist>>

-----------------------------------------------------------------------------
(* vxtq_get_buf *)

\* The entry tests: a call they refuse returns VXT_SHUTTING_DOWN or
\* VXT_BLOCKED and changes nothing.
GetRefused(e, f) ==
  /\ "IGNORE_SHUTDOWN" \notin f
  /\ IF e = P THEN hdr.consumer_flush \/ hdr.producer_stop
              ELSE hdr.producer_suspend

GetCall(e, f) ==
  /\ pc[e] = "idle"
  /\ Cardinality(app[e]) < MaxHeld
  /\ ~GetRefused(e, f)
  /\ pc' = [pc EXCEPT ![e] = "retry"]
  /\ call' = [call EXCEPT ![e].flags = f]
  /\ UNCHANGED <<ring, idx, cnt, need, hdr, sig, app, hist>>

Return(e) ==
  /\ pc' = [pc EXCEPT ![e] = "idle"]
  /\ call' = [call EXCEPT ![e] = NoCall]

\* An abort buffer is turned around on the spot, without a signal.
TurnAround(e) ==
  /\ pc[e] = "retry"
  /\ owner[idx[e]] = e /\ abort[idx[e]]
  /\ abort' = [abort EXCEPT ![idx[e]] = FALSE]
  /\ owner' = [owner EXCEPT ![idx[e]] = Peer(e)]
  /\ idx' = [idx EXCEPT ![e] = Succ(@)]
  /\ UNCHANGED <<held, data, cnt, need, hdr, sig, pc, call, app, hist>>

\* VXT_NOMEM: the client already holds the next buffer, hence all of them.
AllHeld(e) ==
  /\ pc[e] = "retry"
  /\ owner[idx[e]] = e /\ ~abort[idx[e]] /\ held[idx[e]]
  /\ Return(e)
  /\ UNCHANGED <<ring, idx, cnt, need, hdr, sig, app, hist>>

\* Fault: the abort bit is not looked at.
TakeAborted(e) ==
  /\ pc[e] = "retry"
  /\ owner[idx[e]] = e /\ ~held[idx[e]]
  /\ held' = [held EXCEPT ![idx[e]] = TRUE]
  /\ app' = [app EXCEPT ![e] = @ \cup {idx[e]}]
  /\ idx' = [idx EXCEPT ![e] = Succ(@)]
  /\ Return(e)
  /\ UNCHANGED <<owner, abort, data, cnt, need, hdr, sig, hist>>

\* VXT_SUCCESS.
Take(e) ==
  /\ pc[e] = "retry"
  /\ owner[idx[e]] = e /\ ~abort[idx[e]] /\ ~held[idx[e]]
  /\ held' = [held EXCEPT ![idx[e]] = TRUE]
  /\ app' = [app EXCEPT ![e] = @ \cup {idx[e]}]
  /\ idx' = [idx EXCEPT ![e] = Succ(@)]
  /\ Return(e)
  /\ UNCHANGED <<owner, abort, data, cnt, need, hdr, sig, hist>>

\* The next buffer is the peer's: VXT_RSRC, or get ready to wait.
NotAvailable(e) ==
  /\ pc[e] = "retry"
  /\ owner[idx[e]] # e
  /\ IF "WAIT" \in call[e].flags
       THEN pc' = [pc EXCEPT ![e] = "need"] /\ UNCHANGED call
       ELSE Return(e)
  /\ UNCHANGED <<ring, idx, cnt, need, hdr, sig, app, hist>>

\* Fault: sleep without the second look.
RequestSignalAndSleep(e) ==
  /\ pc[e] = "need"
  /\ need' = [need EXCEPT ![e] = TRUE]
  /\ pc' = [pc EXCEPT ![e] = "wait"]
  /\ UNCHANGED <<ring, idx, cnt, hdr, sig, call, app, hist>>

\* Tell the peer we will need a signal and look once more; when the flag is
\* already up, wait without looking again.
RequestSignal(e) ==
  /\ pc[e] = "need"
  /\ need' = [need EXCEPT ![e] = TRUE]
  /\ pc' = [pc EXCEPT ![e] = IF need[e] THEN "wait" ELSE "retry"]
  /\ UNCHANGED <<ring, idx, cnt, hdr, sig, call, app, hist>>

\* The wait callback returns, in vxtq_get_buf or after vxtq_signal.
Wake(e) ==
  /\ sig' = [sig EXCEPT ![e] = FALSE]
  /\ \/ /\ pc[e] = "wait"
        /\ pc' = [pc EXCEPT ![e] = "recheck"]
        /\ UNCHANGED call
     \/ /\ pc[e] = "sigwait"
        /\ Return(e)
  /\ UNCHANGED <<ring, idx, cnt, need, hdr, app, hist>>

WaitReturn(e) == sig[e] /\ Wake(e)

\* A Unix signal ends the wait; nothing promises that one comes.
WaitInterrupted(e) == Interrupts /\ Wake(e)

\* One look after the wait: retry, or give up with VXT_ABORT.
Recheck(e) ==
  /\ pc[e] = "recheck"
  /\ IF owner[idx[e]] = e
       THEN pc' = [pc EXCEPT ![e] = "retry"] /\ UNCHANGED call
       ELSE Return(e)
  /\ UNCHANGED <<ring, idx, cnt, need, hdr, sig, app, hist>>

-----------------------------------------------------------------------------
(* vxtq_put_buf *)

\* The tests that return VXT_PARM: the buffer must be ours and held.
PutValid(e, i) == i \in app[e] /\ owner[i] = e /\ held[i]

\* Fault: producer_stop is only looked at by vxtq_get_buf.
PutCallUnstopped(e, i, f) ==
  /\ pc[e] = "idle"
  /\ PutValid(e, i)
  /\ "ABORT" \notin f
  /\ e = P => sent < MaxMsg
  /\ pc' = [pc EXCEPT ![e] = "publish"]
  /\ call' = [call EXCEPT ![e].flags = f, ![e].buf = i]
  /\ UNCHANGED <<ring, idx, cnt, need, hdr, sig, app, hist>>

\* A normal put; VXT_BLOCKED leaves the buffer with the client.
PutCall(e, i, f) ==
  /\ pc[e] = "idle"
  /\ PutValid(e, i)
  /\ "ABORT" \notin f
  /\ e = P => sent < MaxMsg
  /\ ~(e = P /\ "IGNORE_SHUTDOWN" \notin f /\ hdr.producer_stop)
  /\ pc' = [pc EXCEPT ![e] = "publish"]
  /\ call' = [call EXCEPT ![e].flags = f, ![e].buf = i]
  /\ UNCHANGED <<ring, idx, cnt, need, hdr, sig, app, hist>>

\* Hand the buffer over: contents first, the owner bit last.
Publish(e) ==
  LET i == call[e].buf IN
  /\ pc[e] = "publish"
  /\ held' = [held EXCEPT ![i] = FALSE]
  /\ owner' = [owner EXCEPT ![i] = Peer(e)]
  /\ app' = [app EXCEPT ![e] = @ \ {i}]
  /\ \/ /\ e = P
        /\ sent' = sent + 1
        /\ data' = [data EXCEPT ![i] = sent + 1]
        /\ late' = IF hdr.producer_stop /\ "IGNORE_SHUTDOWN" \notin call[e].flags
                     THEN late + 1 ELSE late
        /\ UNCHANGED <<rcvd, voided>>
     \/ /\ e = C
        /\ rcvd' = Append(rcvd, data[i])
        /\ data' = [data EXCEPT ![i] = NoMsg]
        /\ UNCHANGED <<sent, voided, late>>
  /\ pc' = [pc EXCEPT ![e] = "count"]
  /\ UNCHANGED <<abort, idx, cnt, need, hdr, sig, call>>

\* Faults: app_held stays set; buf_index is not backed up.
PutBackHeld(e, i, f) ==
  /\ pc[e] = "idle"
  /\ PutValid(e, i)
  /\ "ABORT" \in f
  /\ idx[e] = Succ(i)
  /\ app' = [app EXCEPT ![e] = @ \ {i}]
  /\ idx' = [idx EXCEPT ![e] = i]
  /\ pc' = [pc EXCEPT ![e] = IF "SIGNAL" \in f THEN "signal" ELSE "idle"]
  /\ UNCHANGED <<ring, cnt, need, hdr, sig, call, hist>>

PutBackInPlace(e, i, f) ==
  /\ pc[e] = "idle"
  /\ PutValid(e, i)
  /\ "ABORT" \in f
  /\ idx[e] = Succ(i)
  /\ held' = [held EXCEPT ![i] = FALSE]
  /\ app' = [app EXCEPT ![e] = @ \ {i}]
  /\ pc' = [pc EXCEPT ![e] = IF "SIGNAL" \in f THEN "signal" ELSE "idle"]
  /\ UNCHANGED <<owner, abort, data, idx, cnt, need, hdr, sig, call, hist>>

\* Abort of the buffer taken last: back buf_index up.
PutBack(e, i, f) ==
  /\ pc[e] = "idle"
  /\ PutValid(e, i)
  /\ "ABORT" \in f
  /\ idx[e] = Succ(i)
  /\ held' = [held EXCEPT ![i] = FALSE]
  /\ app' = [app EXCEPT ![e] = @ \ {i}]
  /\ idx' = [idx EXCEPT ![e] = i]
  /\ pc' = [pc EXCEPT ![e] = IF "SIGNAL" \in f THEN "signal" ELSE "idle"]
  /\ UNCHANGED <<owner, abort, data, cnt, need, hdr, sig, call, hist>>

\* Fault: the buffer is handed over unmarked.
PutAbortUnmarked(e, i, f) ==
  /\ pc[e] = "idle"
  /\ PutValid(e, i)
  /\ "ABORT" \in f
  /\ idx[e] # Succ(i)
  /\ held' = [held EXCEPT ![i] = FALSE]
  /\ owner' = [owner EXCEPT ![i] = Peer(e)]
  /\ data' = IF e = P THEN [data EXCEPT ![i] = NoMsg] ELSE data
  /\ app' = [app EXCEPT ![e] = @ \ {i}]
  /\ pc' = [pc EXCEPT ![e] = "count"]
  /\ call' = [call EXCEPT ![e].flags = f, ![e].buf = i]
  /\ UNCHANGED <<abort, idx, cnt, need, hdr, sig, hist>>

\* Abort of an earlier buffer: it goes through the peer, marked.
PutAbort(e, i, f) ==
  /\ pc[e] = "idle"
  /\ PutValid(e, i)
  /\ "ABORT" \in f
  /\ idx[e] # Succ(i)
  /\ held' = [held EXCEPT ![i] = FALSE]
  /\ abort' = [abort EXCEPT ![i] = TRUE]
  /\ owner' = [owner EXCEPT ![i] = Peer(e)]
  /\ data' = IF e = P THEN [data EXCEPT ![i] = NoMsg] ELSE data
  /\ app' = [app EXCEPT ![e] = @ \ {i}]
  /\ pc' = [pc EXCEPT ![e] = "count"]
  /\ call' = [call EXCEPT ![e].flags = f, ![e].buf = i]
  /\ UNCHANGED <<idx, cnt, need, hdr, sig, hist>>

Count(e) ==
  /\ pc[e] = "count"
  /\ cnt' = [cnt EXCEPT ![e] = (@ + 1) % CntMod]
  /\ pc' = [pc EXCEPT ![e] =
              CASE "SIGNAL" \in call[e].flags -> "signal"
                [] "SIGNAL" \notin call[e].flags
                     /\ "AUTO_STREAM" \in call[e].flags -> "compare"
                [] OTHER -> "check"]
  /\ UNCHANGED <<ring, idx, need, hdr, sig, call, app, hist>>

\* Streaming: the counters are read once to compare them ...
Compare(e) ==
  /\ pc[e] = "compare"
  /\ call' = [call EXCEPT ![e].wrapped = cnt[C] > cnt[P]]
  /\ pc' = [pc EXCEPT ![e] = "hysteresis"]
  /\ UNCHANGED <<ring, idx, cnt, need, hdr, sig, app, hist>>

\* Fault: one too many.
AvailNumOffByOne(e) ==
  IF e = P THEN BufCnt - (cnt[P] - cnt[C]) + 1 ELSE cnt[P] - cnt[C] + 1

\* ... and again to compute avail_num, in 32-bit arithmetic.
AvailNum(e) ==
  LET wrapped == call[e].wrapped
      n == CASE e = P /\ ~wrapped -> BufCnt - (cnt[P] - cnt[C])
             [] e = P /\ wrapped  -> cnt[C] - cnt[P]
             [] e = C /\ ~wrapped -> cnt[P] - cnt[C]
             [] e = C /\ wrapped  -> BufCnt - cnt[C] + cnt[P] + 1
  IN n % CntMod

Lead(e) == IF e = P THEN hdr.space_avail_lead ELSE hdr.data_avail_lead

Hysteresis(e) ==
  /\ pc[e] = "hysteresis"
  /\ IF AvailNum(e) = Lead(e)
       THEN pc' = [pc EXCEPT ![e] = "check"] /\ UNCHANGED call
       ELSE Return(e)
  /\ UNCHANGED <<ring, idx, cnt, need, hdr, sig, app, hist>>

\* Fault: an unsignalled put leaves a waiting peer alone.
CheckNeedNever(e) ==
  /\ pc[e] = "check"
  /\ Return(e)
  /\ UNCHANGED <<ring, idx, cnt, need, hdr, sig, app, hist>>

\* Not streaming, or at the lead: clear the peer's need flag and signal it,
\* or return.
CheckNeed(e) ==
  /\ pc[e] = "check"
  /\ IF need[Peer(e)]
       THEN /\ need' = [need EXCEPT ![Peer(e)] = FALSE]
            /\ pc' = [pc EXCEPT ![e] = "signal"]
            /\ UNCHANGED call
       ELSE Return(e) /\ UNCHANGED need
  /\ UNCHANGED <<ring, idx, cnt, hdr, sig, app, hist>>

\* The signal callback; vxtq_signal may wait next.
Signal(e) ==
  /\ pc[e] = "signal"
  /\ sig' = [sig EXCEPT ![Peer(e)] = TRUE]
  /\ IF "WAIT" \in call[e].flags
       THEN pc' = [pc EXCEPT ![e] = "sigwait"] /\ UNCHANGED call
       ELSE Return(e)
  /\ UNCHANGED <<ring, idx, cnt, need, hdr, app, hist>>

-----------------------------------------------------------------------------
(* vxtq_signal and vxtq_io_control *)

\* A producer's STOP or START returns VXT_PARM before anything else; a CLOSE
\* that answers no SHUTDOWN of the peer does so after the flags before it
\* were applied and before the signal.
QSignal(e, f) ==
  LET peerEnding == IF e = P THEN hdr.consumer_flush ELSE hdr.producer_suspend
      closing == "CLOSE" \in f
      ok == closing => peerEnding
      ending == "SHUTDOWN" \in f \/ (closing /\ ok)
  IN
  /\ pc[e] = "idle"
  /\ e = P => f \cap {"STOP", "START"} = {}
  /\ hdr' = [hdr EXCEPT
       !.producer_stop = IF "START" \in f THEN FALSE ELSE @ \/ "STOP" \in f,
       !.producer_suspend = @ \/ (e = P /\ ending),
       !.consumer_flush = @ \/ (e = C /\ ending),
       !.error = @ \/ ("ERROR" \in f /\ ok)]
  /\ late' = IF f \cap {"STOP", "START"} # {} THEN 0 ELSE late
  /\ IF ok THEN /\ pc' = [pc EXCEPT ![e] = "signal"]
                /\ call' = [call EXCEPT ![e].flags = f]
           ELSE UNCHANGED <<pc, call>>
  /\ UNCHANGED <<ring, idx, cnt, need, sig, app, sent, rcvd, voided>>

SetHysteresis(e) ==
  /\ pc[e] = "idle"
  /\ \E lead \in Leads : hdr' = [hdr EXCEPT !.data_avail_lead = lead[1],
                                         !.space_avail_lead = lead[2]]
  /\ UNCHANGED <<ring, idx, cnt, need, sig, pc, call, app, hist>>

SetError(e) ==
  /\ pc[e] = "idle" /\ "SET_ERROR" \in IoCmds
  /\ \E v \in BOOLEAN : hdr' = [hdr EXCEPT !.error = v]
  /\ UNCHANGED <<ring, idx, cnt, need, sig, pc, call, app, hist>>

\* The clients reset a queue they have both stopped using; until then the
\* shutdown handshake holds them off.
Quiescent == \A e \in Side : pc[e] \in {"idle", "detached"} /\ app[e] = {}

\* Fault: the producer resets the header and not the buffers.
ResetHeaderOnly(e) ==
  /\ pc[e] = "idle" /\ "RESET" \in IoCmds
  /\ Quiescent
  /\ idx' = [idx EXCEPT ![e] = 0]
  /\ cnt' = [s \in Side |-> 0]
  /\ voided' = IF e = C THEN voided
               ELSE voided \cup ({data[i] : i \in Buf} \ {NoMsg})
  /\ UNCHANGED <<ring, need, hdr, sig, pc, call, app, sent, rcvd, late>>

\* VXT_IOCTL_RESET_SEND/RCV.  The consumer resets only its own index; the
\* producer resets the header and takes every buffer, but neither the abort
\* nor the app_held bits: a buffer that is being turned around keeps what is
\* in it.
Reset(e) ==
  /\ pc[e] = "idle" /\ "RESET" \in IoCmds
  /\ Quiescent
  /\ idx' = [idx EXCEPT ![e] = 0]
  /\ \/ /\ e = C
        /\ UNCHANGED <<owner, data, cnt, need, hdr, voided>>
     \/ /\ e = P
        /\ owner' = [i \in Buf |-> P]
        /\ data' = [i \in Buf |-> IF abort[i] THEN data[i] ELSE NoMsg]
        /\ cnt' = [s \in Side |-> 0]
        /\ need' = [s \in Side |-> FALSE]
        /\ hdr' = [DefaultHdr EXCEPT
                      !.space_avail_lead = hdr.space_avail_lead,
                      !.data_avail_lead = hdr.data_avail_lead]
        /\ voided' = voided \cup ({data[i] : i \in Buf} \ {NoMsg})
  /\ UNCHANGED <<abort, held, sig, pc, call, app, sent, rcvd, late>>

\* A signal raised for the device's other queue latches the same event.
Attention(e) ==
  /\ Interrupts
  /\ pc[e] # "detached"
  /\ sig' = [sig EXCEPT ![e] = TRUE]
  /\ UNCHANGED <<ring, idx, cnt, need, hdr, pc, call, app, hist>>

-----------------------------------------------------------------------------

\* Steps inside a library call: the endpoint's thread is running them.
Step(e) ==
  \/ TurnAround(e) \/ AllHeld(e) \/ Take(e) \/ NotAvailable(e)
  \/ RequestSignal(e) \/ WaitReturn(e) \/ Recheck(e)
  \/ Publish(e) \/ Count(e) \/ Compare(e) \/ Hysteresis(e) \/ CheckNeed(e)
  \/ Signal(e)

\* Steps the client decides to take.
ClientCall(e) ==
  \/ Connect(e)
  \/ \E f \in GetFlags : GetCall(e, f)
  \/ \E f \in PutFlags, i \in Buf :
       PutCall(e, i, f) \/ PutBack(e, i, f) \/ PutAbort(e, i, f)
  \/ \E f \in SigFlags : QSignal(e, f)
  \/ SetHysteresis(e) \/ SetError(e) \/ Reset(e)

Next == \E e \in Side :
  Step(e) \/ ClientCall(e) \/ WaitInterrupted(e) \/ Attention(e)

Spec == Init /\ [][Next]_vars

\* A thread inside the library keeps running unless it sleeps in wait; what
\* the client calls, and when, is not promised.
FairSpec == Spec /\ \A e \in Side : WF_vars(Step(e))

-----------------------------------------------------------------------------
(* Properties *)

\* A client only ever touches a buffer its own endpoint owns: what the two
\* clients hold is disjoint, marked app_held in shared memory, and never in
\* the middle of an abort turn-around.
ExclusiveHold ==
  \A i \in Buf :
    /\ held[i] <=> i \in app[P] \cup app[C]
    /\ \A e \in Side : i \in app[e] => owner[i] = e /\ ~abort[i]

Read == {rcvd[k] : k \in DOMAIN rcvd}

\* Every message the producer published and no reset discarded is either
\* read, exactly once, or sits in exactly one buffer, and that buffer is on
\* its way to the consumer: neither aborts nor the wrapping of the ring
\* overwrite, lose or duplicate data.
NoLostMessage ==
  /\ \A m \in 1 .. sent :
       m \in Read \cup voided \/ \E i \in Buf : data[i] = m
  /\ \A i \in Buf : data[i] # NoMsg =>
       /\ data[i] \in 1 .. sent
       /\ data[i] \notin Read
       /\ owner[i] = C \/ abort[i]
  /\ \A i, j \in Buf : data[i] = data[j] /\ data[i] # NoMsg => i = j
  /\ \A k, l \in DOMAIN rcvd : rcvd[k] = rcvd[l] => k = l

\* What vxtq_get_buf says of the buffer it returns: a receiver's has data,
\* here a message that was published and that no reset has discarded, and a
\* provider's is empty, whatever was aborted and turned around before.
GotContents ==
  /\ \A i \in app[C] : data[i] \in (1 .. sent) \ voided
  /\ \A i \in app[P] : data[i] = NoMsg

\* No lost wake-up: an endpoint asleep in vxtq_get_buf although its next
\* buffer has arrived has a signal latched, or the peer that delivered the
\* buffer is still on its way to raising one.
WaiterCovered ==
  \A e \in Side :
    pc[e] = "wait" /\ owner[idx[e]] = e =>
      sig[e] \/ pc[Peer(e)] \in {"count", "check", "signal"}

\* Streaming hysteresis may delay a signal, but it never leaves both
\* endpoints asleep with no signal on its way.
NoMutualWait ==
  ~ \A e \in Side : pc[e] = "wait" /\ ~sig[e]

\* VXTQ_SIGNAL_STOP without a handshake: after the consumer set
\* producer_stop at most one buffer, whose put had already passed the test,
\* still arrives before the consumer says START.
StopAdmitsOne == late <= 1

\* An endpoint waiting for a buffer that has arrived wakes up.
WaiterServed ==
  \A e \in Side : (pc[e] = "wait" /\ owner[idx[e]] = e) ~> (pc[e] # "wait")

\* With one buffer held at a time the ring is a bounded FIFO channel.
Fifo == INSTANCE BoundedFifo WITH Capacity <- BufCnt, in <- sent, out <- rcvd
FifoSpec == Fifo!Spec
=============================================================================
