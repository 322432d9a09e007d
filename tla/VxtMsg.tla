------------------------------- MODULE VxtMsg -------------------------------
(***************************************************************************)
(* vxt_msg_send and vxt_msg_rcv of lib/vxtlib/common/vxt_msg.c: the copy   *)
(* in, copy out front end that turns the ring of buffers of vxt_queue.c    *)
(* into a byte stream.  One sender and one receiver, at the two ends of    *)
(* one queue; each keeps the buffer it is in the middle of from call to    *)
(* call (partial_send, partial_rcv).                                       *)
(*                                                                         *)
(* vxtq_get_buf and vxtq_put_buf are single steps here; VxtQueue is about  *)
(* what happens inside them.  The clients do not use VXTQ_FLAGS_ABORT.     *)
(* The bytes of the stream are numbered from 1, and a buffer holds a run   *)
(* of them.                                                                *)
(***************************************************************************)
EXTENDS Integers, Sequences, FiniteSets

CONSTANTS
  BufCnt,     \* number of sub-buffers
  BufSize,    \* bytes in a sub-buffer
  MaxBytes,   \* bound: bytes the sender's client has to send
  SendLens,   \* client: lengths it passes to vxt_msg_send
  SendFlags,  \* client: flag sets it passes to vxt_msg_send
  RcvLens,    \* client: lengths it passes to vxt_msg_rcv
  RcvFlags,   \* client: flag sets it passes to vxt_msg_rcv
  Signals,    \* client: what it signals through VXT_IOCTL_SIGNAL_SEND/RCV
  Resumes     \* client: whether it goes on sending after a blocked send

P == "producer"
C == "consumer"
Side == {P, C}
Buf == 0 .. BufCnt - 1
NoBuf == -1

ASSUME MsgAssumption ==
  /\ BufCnt \in Nat \ {0}
  /\ BufSize \in Nat \ {0}
  /\ MaxBytes \in Nat
  /\ SendLens \subseteq Nat
  /\ RcvLens \subseteq Nat
  /\ SendFlags \subseteq SUBSET {"WAIT", "AUTO_STREAM", "IGNORE_SHUTDOWN"}
  /\ RcvFlags \subseteq SUBSET {"WAIT", "IGNORE_SHUTDOWN"}
  /\ Signals \subseteq {"STOP", "START", "SHUTDOWN"}
  /\ Resumes \in BOOLEAN

VARIABLES
  owner,  \* owner bit of each sub-buffer
  held,   \* app_held bit of each sub-buffer
  data,   \* the bytes in each sub-buffer: the ones after from, len of them
  idx,    \* buf_index of each endpoint
  hdr,    \* producer_stop, consumer_flush and producer_suspend
  cur,    \* the buffer each endpoint is in the middle of, and how far
  pc,     \* where each endpoint is in its call
  call,   \* the call's flags, its length, how much of it is done
  next,   \* bytes the sender's client counts as sent
  sent,   \* history: bytes copied into a buffer so far
  rcvd,   \* history: the bytes the receiver's client was given
  gaveUp  \* the sender's client met VXT_BLOCKED and stopped

vars == <<owner, held, data, idx, hdr, cur, pc, call, next, sent, rcvd,
          gaveUp>>
ring == <<owner, held, data, idx>>

NoCur == [buf |-> NoBuf, off |-> 0]
NoCall == [flags |-> {}, wait |-> FALSE, len |-> 0, done |-> 0]

Peer(e) == IF e = P THEN C ELSE P
Succ(i) == IF i + 1 >= BufCnt THEN 0 ELSE i + 1
Least(m, n) == IF m <= n THEN m ELSE n

TypeOK ==
  /\ owner \in [Buf -> Side]
  /\ held \in [Buf -> BOOLEAN]
  /\ data \in [Buf -> [from: 0 .. MaxBytes, len: 0 .. BufSize]]
  /\ idx \in [Side -> Buf]
  /\ hdr \in [producer_stop: BOOLEAN, consumer_flush: BOOLEAN,
              producer_suspend: BOOLEAN]
  /\ cur \in [Side -> [buf: Buf \cup {NoBuf}, off: 0 .. BufSize]]
  /\ pc \in [Side -> {"idle", "get", "copy"}]
  /\ call \in [Side -> [flags: SUBSET {"WAIT", "AUTO_STREAM", "IGNORE_SHUTDOWN"},
                        wait: BOOLEAN, len: Nat, done: Nat]]
  /\ next \in 0 .. MaxBytes
  /\ sent \in 0 .. MaxBytes
  /\ rcvd \in Seq(1 .. MaxBytes)
  /\ gaveUp \in BOOLEAN

Init ==
  /\ owner = [i \in Buf |-> P]
  /\ held = [i \in Buf |-> FALSE]
  /\ data = [i \in Buf |-> [from |-> 0, len |-> 0]]
  /\ idx = [e \in Side |-> 0]
  /\ hdr = [producer_stop |-> FALSE, consumer_flush |-> FALSE,
            producer_suspend |-> FALSE]
  /\ cur = [e \in Side |-> NoCur]
  /\ pc = [e \in Side |-> "idle"]
  /\ call = [e \in Side |-> NoCall]
  /\ next = 0
  /\ sent = 0
  /\ rcvd = <<>>
  /\ gaveUp = FALSE

-----------------------------------------------------------------------------
(* Entering and leaving a call *)

\* Fault: the partial buffer is not looked at.
EnterAfresh(e, n, f) ==
  /\ pc[e] = "idle"
  /\ pc' = [pc EXCEPT ![e] = "get"]
  /\ call' = [call EXCEPT ![e] = [flags |-> f, wait |-> "WAIT" \in f,
                                  len |-> n, done |-> 0]]
  /\ UNCHANGED <<ring, hdr, cur, next, sent, rcvd, gaveUp>>

\* vxt_msg_send and vxt_msg_rcv go on with the partial buffer if there is one.
Enter(e, n, f) ==
  /\ pc[e] = "idle"
  /\ pc' = [pc EXCEPT ![e] = IF cur[e] = NoCur THEN "get" ELSE "copy"]
  /\ call' = [call EXCEPT ![e] = [flags |-> f, wait |-> "WAIT" \in f,
                                  len |-> n, done |-> 0]]
  /\ UNCHANGED <<ring, hdr, cur, next, sent, rcvd, gaveUp>>

SendCall(n, f) == next + n <= MaxBytes /\ ~gaveUp /\ Enter(P, n, f)
RcvCall(n, f) == Enter(C, n, f)

\* The call ends; the sender's client counts the first n bytes of it as sent.
Leave(e, n) ==
  /\ pc' = [pc EXCEPT ![e] = "idle"]
  /\ call' = [call EXCEPT ![e] = NoCall]
  /\ next' = IF e = P THEN next + n ELSE next

-----------------------------------------------------------------------------
(* vxtq_get_buf, and what the callers make of its failure *)

\* VXT_SHUTTING_DOWN or VXT_BLOCKED on entry.
Refused(e) ==
  /\ "IGNORE_SHUTDOWN" \notin call[e].flags
  /\ IF e = P THEN hdr.consumer_flush \/ hdr.producer_stop
              ELSE hdr.producer_suspend

\* VXT_SUCCESS: an empty buffer for the sender, a full one for the receiver.
Get(e) ==
  LET i == idx[e] IN
  /\ pc[e] = "get" /\ ~Refused(e)
  /\ owner[i] = e /\ ~held[i]
  /\ held' = [held EXCEPT ![i] = TRUE]
  /\ data' = IF e = P
               THEN [data EXCEPT ![i] = [from |-> next + call[P].done, len |-> 0]]
               ELSE data
  /\ idx' = [idx EXCEPT ![e] = Succ(i)]
  /\ cur' = [cur EXCEPT ![e] = [buf |-> i, off |-> 0]]
  /\ pc' = [pc EXCEPT ![e] = "copy"]
  /\ UNCHANGED <<owner, hdr, call, next, sent, rcvd, gaveUp>>

\* A failure ends the call with *len set to what was done before it: refused,
\* VXT_NOMEM, VXT_RSRC without wait, VXT_ABORT when a wait is interrupted.
GetFails(e) ==
  /\ pc[e] = "get"
  /\ ~(~Refused(e) /\ owner[idx[e]] = e /\ ~held[idx[e]])
  /\ Leave(e, call[e].done)
  /\ UNCHANGED <<ring, hdr, cur, sent, rcvd, gaveUp>>

-----------------------------------------------------------------------------
(* The copy loops *)

\* Fault: app_held stays set.
PutHeld(e, i) ==
  /\ owner' = [owner EXCEPT ![i] = Peer(e)]
  /\ cur' = [cur EXCEPT ![e] = NoCur]
  /\ UNCHANGED held

\* vxtq_put_buf by an endpoint that is done with buffer i.
Put(e, i) ==
  /\ owner' = [owner EXCEPT ![i] = Peer(e)]
  /\ held' = [held EXCEPT ![i] = FALSE]
  /\ cur' = [cur EXCEPT ![e] = NoCur]

PutBlocked == hdr.producer_stop /\ "IGNORE_SHUTDOWN" \notin call[P].flags

\* Fault: the length of the buffer is not looked at.
SendRunWhole == call[P].len - call[P].done

\* How much of the call fits in the buffer at hand.
SendRun == Least(BufSize - cur[P].off, call[P].len - call[P].done)

\* Copy what fits.  At the end of the data a streaming sender keeps a buffer
\* with room in it; otherwise the buffer is put, and the call goes on with the
\* next one if there is data left.  A put that is VXT_BLOCKED ends the call:
\* partial_send was cleared on entry, so the buffer is forgotten, app_held and
\* with its bytes; *len counts them unless they were the last of the call.
SendCopy ==
  LET i == cur[P].buf
      done == call[P].done + SendRun
      off == cur[P].off + SendRun
      last == done = call[P].len
      keep == last /\ off < BufSize /\ "AUTO_STREAM" \in call[P].flags
      pos == data[i].from + off
  IN
  /\ pc[P] = "copy"
  /\ data' = [data EXCEPT ![i].len = off]
  /\ sent' = IF pos > sent THEN pos ELSE sent
  /\ \/ /\ keep
        /\ cur' = [cur EXCEPT ![P].off = off]
        /\ Leave(P, done)
        /\ UNCHANGED <<owner, held, gaveUp>>
     \/ /\ ~keep /\ ~PutBlocked
        /\ Put(P, i)
        /\ IF last THEN Leave(P, done)
                   ELSE /\ call' = [call EXCEPT ![P].done = done]
                        /\ pc' = [pc EXCEPT ![P] = "get"]
                        /\ UNCHANGED next
        /\ UNCHANGED gaveUp
     \/ /\ ~keep /\ PutBlocked
        /\ cur' = [cur EXCEPT ![P] = NoCur]
        /\ Leave(P, IF last THEN 0 ELSE done)
        /\ gaveUp' = ~Resumes
        /\ UNCHANGED <<owner, held>>
  /\ UNCHANGED <<idx, hdr, rcvd>>

\* Fault: what an earlier call took out of the buffer is counted again.
RcvRunAgain == Least(data[cur[C].buf].len, call[C].len - call[C].done)

\* How much of what is left in the buffer at hand the call has room for.
RcvRun == Least(data[cur[C].buf].len - cur[C].off, call[C].len - call[C].done)

\* Copy what is there.  The rest of a buffer is kept for the next call; an
\* empty one is put back, and the call looks for another one without waiting.
RcvCopy ==
  LET i == cur[C].buf
      done == call[C].done + RcvRun
      off == cur[C].off + RcvRun
      full == done = call[C].len
      keep == full /\ off < data[i].len
      first == data[i].from + cur[C].off
  IN
  /\ pc[C] = "copy"
  /\ rcvd' = rcvd \o [k \in 1 .. RcvRun |-> first + k]
  /\ IF keep THEN /\ cur' = [cur EXCEPT ![C].off = off]
                  /\ UNCHANGED <<owner, held>>
             ELSE Put(C, i)
  /\ IF full THEN Leave(C, done)
             ELSE /\ call' = [call EXCEPT ![C].done = done, ![C].wait = FALSE]
                  /\ pc' = [pc EXCEPT ![C] = "get"]
                  /\ UNCHANGED next
  /\ UNCHANGED <<data, idx, hdr, sent, gaveUp>>

-----------------------------------------------------------------------------
(* vxt_msg_control with VXT_IOCTL_SIGNAL_SEND or VXT_IOCTL_SIGNAL_RCV; only *)
(* the receiver may stop and start its peer                                 *)

Control(e, s) ==
  /\ e = P => s = "SHUTDOWN"
  /\ hdr' = CASE s = "STOP" -> [hdr EXCEPT !.producer_stop = TRUE]
              [] s = "START" -> [hdr EXCEPT !.producer_stop = FALSE]
              [] s = "SHUTDOWN" /\ e = P -> [hdr EXCEPT !.producer_suspend = TRUE]
              [] s = "SHUTDOWN" /\ e = C -> [hdr EXCEPT !.consumer_flush = TRUE]
  /\ UNCHANGED <<ring, cur, pc, call, next, sent, rcvd, gaveUp>>

-----------------------------------------------------------------------------

Next ==
  \/ \E n \in SendLens, f \in SendFlags : SendCall(n, f)
  \/ \E n \in RcvLens, f \in RcvFlags : RcvCall(n, f)
  \/ \E e \in Side : Get(e) \/ GetFails(e) \/ \E s \in Signals : Control(e, s)
  \/ SendCopy \/ RcvCopy

Spec == Init /\ [][Next]_vars

-----------------------------------------------------------------------------
(* Properties *)

\* No buffer is lost to the ring between two calls: one is app_held exactly
\* while an endpoint means to go on with it, and until a send was blocked in
\* mid-buffer there is none that neither endpoint can get hold of.
BuffersAccounted ==
  ~gaveUp =>
    \A i \in Buf : held[i] <=> \E e \in Side : cur[e].buf = i /\ owner[i] = e

\* Together the two ends are a byte stream of bounded capacity, however the
\* lengths of the calls and of the buffers cut it up and whatever call fails.
Stream == INSTANCE ByteStream
            WITH Capacity <- BufCnt * BufSize, in <- sent, out <- rcvd
StreamSpec == Stream!Spec

\* Every byte the sender's client counts as sent and the receiver's was not
\* given is in a buffer the receiver will come to, or in the one the sender
\* goes on with: also after VXTQ_SIGNAL_STOP, which "is reversable and has the
\* same semantics as XON/XOFF", unless the client gives up on VXT_BLOCKED.
NoByteForgotten ==
  ~gaveUp =>
    \A b \in Len(rcvd) + 1 .. next : \E i \in Buf :
      /\ b \in data[i].from + 1 .. data[i].from + data[i].len
      /\ owner[i] = C \/ cur[P].buf = i
=============================================================================
