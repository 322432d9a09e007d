--------------------------- MODULE VxtSignalRing ---------------------------
(***************************************************************************)
(* The signalling path between two paired controllers,                     *)
(* kernel/vxtctrlr/common/vxt_signal.c: vxtsig_signal puts the handle of   *)
(* the remote signal object into the ring its controller writes and raises *)
(* the event channel when it has to; vxtsig_interrupt of the other         *)
(* controller drains that ring.  One event per controller stands for both  *)
(* "there are signals" and "there is room again".                          *)
(*                                                                         *)
(* A controller's spinlock covers its senders and its interrupt handler;   *)
(* nothing covers the two controllers, so each access to an index the      *)
(* other one writes is a step.  Each thread signals one object, and its    *)
(* name stands for the object's handle in the ring; what an entry does to  *)
(* the object it names is the subject of VxtSignalObject.                  *)
(***************************************************************************)
EXTENDS Integers, Sequences, FiniteSets

CONSTANTS
  A, B,       \* the two controllers
  Threads,    \* the threads that call vxtsig_signal ...
  ThreadsOfA, \* ... those of them that do so on controller A
  MaxSig      \* VXTSIG_MAX_SIG_CNT, 20 in the code

ASSUME RingAssumption ==
  /\ A # B
  /\ ThreadsOfA \subseteq Threads
  /\ MaxSig \in Nat /\ MaxSig > 1

Node == {A, B}
Slot == 0 .. MaxSig - 1
Other(n) == IF n = A THEN B ELSE A
Home(t) == IF t \in ThreadsOfA THEN A ELSE B

VARIABLES
  send,     \* send_index of the ring each controller writes
  recv,     \* recv_index of that ring, written by the other controller
  slot,     \* its entries
  running,  \* signal_running of each controller
  event,    \* the event channel has an upcall pending for the controller
  tpc,      \* where each thread is in vxtsig_signal
  woken,    \* the thread has to look at the condition it sleeps on
  hpc,      \* where each controller is in vxtsig_interrupt
  h,        \* its locals last_index, signal_request_index, signal, signal_cnt
  inflight  \* history: the handles posted to a ring and not yet processed

vars == <<send, recv, slot, running, event, tpc, woken, hpc, h,
          inflight>>
indices == <<send, recv>>
sender == <<tpc, woken>>
handler == <<hpc, h>>

TypeOK ==
  /\ send \in [Node -> Slot]
  /\ recv \in [Node -> Slot]
  /\ slot \in [Node -> [Slot -> Threads \cup {A}]]
  /\ running \in [Node -> BOOLEAN]
  /\ event \in [Node -> BOOLEAN]
  /\ tpc \in [Threads -> {"idle", "test", "post", "notify", "notify2",
                         "asleep", "retry"}]
  /\ woken \in [Threads -> BOOLEAN]
  /\ hpc \in [Node -> {"idle", "freeze", "process", "more"}]
  /\ h \in [Node -> [last: Slot, at: Slot, signal: BOOLEAN, cnt: Slot]]
  /\ inflight \in [Node -> Seq(Threads)]

NoLocals == [last |-> 0, at |-> 0, signal |-> FALSE, cnt |-> 0]

\* vxtsig_controller_init and vxtsig_init_send_buf.  What an entry contains
\* before it is first written does not matter; it is no thread's handle.
Init ==
  /\ send = [n \in Node |-> 0]
  /\ recv = [n \in Node |-> 0]
  /\ slot = [n \in Node |-> [i \in Slot |-> A]]
  /\ running = [n \in Node |-> TRUE]
  /\ event = [n \in Node |-> FALSE]
  /\ tpc = [t \in Threads |-> "idle"]
  /\ woken = [t \in Threads |-> FALSE]
  /\ hpc = [n \in Node |-> "idle"]
  /\ h = [n \in Node |-> NoLocals]
  /\ inflight = [n \in Node |-> <<>>]

\* Fault: the index runs off the end of the ring.
NextIndexNoWrap(i) == i + 1
NextIndex(i) == IF i + 1 = MaxSig THEN 0 ELSE i + 1

\* The spinlock of the controller is free.
Unlocked(n) ==
  /\ hpc[n] = "idle"
  /\ \A t \in Threads :
       Home(t) = n => tpc[t] \notin {"test", "post", "notify", "notify2"}

\* vxtcom_wakeup_all(&hash_obj->signal_wait): every sleeper looks again.
WakeAll(n) ==
  woken' = [t \in Threads |->
              woken[t] \/ (Home(t) = n /\ tpc[t] = "asleep")]

-----------------------------------------------------------------------------
(* vxtsig_signal *)

Lock(t) ==
  /\ Unlocked(Home(t))
  /\ running' = [running EXCEPT ![Home(t)] = FALSE]
  /\ tpc' = [tpc EXCEPT ![t] = "test"]
  /\ UNCHANGED <<indices, slot, event, woken, handler, inflight>>

SignalCall(t) == tpc[t] = "idle" /\ Lock(t)

SignalRetry(t) == tpc[t] = "retry" /\ Lock(t)

\* Fault: the ring never looks full.
IsFullNever(n) == FALSE
\* One entry is kept free, so that equal indices mean empty.
IsFull(n) == NextIndex(send[n]) = recv[n]

\* The ring is full: drop the lock and sleep until signal_running.
Full(t) ==
  /\ tpc[t] = "test"
  /\ IsFull(Home(t))
  /\ tpc' = [tpc EXCEPT ![t] = "asleep"]
  /\ woken' = [woken EXCEPT ![t] = TRUE]
  /\ UNCHANGED <<indices, slot, running, event, handler, inflight>>

\* There is room.  The handle of an object that is being destroyed is not
\* found and VXT_FAIL is returned; otherwise the entry is written.
Room(t) ==
  LET n == Home(t) IN
  /\ tpc[t] = "test"
  /\ ~IsFull(n)
  /\ running' = [running EXCEPT ![n] = TRUE]
  /\ \/ /\ tpc' = [tpc EXCEPT ![t] = "idle"]
        /\ UNCHANGED slot
     \/ /\ tpc' = [tpc EXCEPT ![t] = "post"]
        /\ slot' = [slot EXCEPT ![n][send[n]] = t]
  /\ UNCHANGED <<indices, event, woken, handler, inflight>>

\* The new send_index, fenced on both sides.
Post(t) ==
  LET n == Home(t) IN
  /\ tpc[t] = "post"
  /\ send' = [send EXCEPT ![n] = NextIndex(@)]
  /\ inflight' = [inflight EXCEPT ![n] = Append(@, t)]
  /\ tpc' = [tpc EXCEPT ![t] = "notify"]
  /\ UNCHANGED <<recv, slot, running, event, woken, handler>>

\* Fault: only a full ring is worth an event.
NotifyEmptyNot(t) ==
  /\ tpc[t] = "notify"
  /\ tpc' = [tpc EXCEPT ![t] = "notify2"]
  /\ UNCHANGED <<indices, slot, running, event, woken, handler, inflight>>

\* Raise the event when the ring had gone empty, and unlock ...
NotifyEmpty(t) ==
  LET n == Home(t)
      wasEmpty == NextIndex(recv[n]) = send[n]
  IN
  /\ tpc[t] = "notify"
  /\ event' = [event EXCEPT ![Other(n)] = @ \/ wasEmpty]
  /\ tpc' = [tpc EXCEPT ![t] = IF wasEmpty THEN "idle" ELSE "notify2"]
  /\ UNCHANGED <<indices, slot, running, woken, handler, inflight>>

\* ... or when another look at recv_index finds it full.
NotifyFull(t) ==
  LET n == Home(t) IN
  /\ tpc[t] = "notify2"
  /\ event' = [event EXCEPT ![Other(n)] = @ \/ IsFull(n)]
  /\ tpc' = [tpc EXCEPT ![t] = "idle"]
  /\ UNCHANGED <<indices, slot, running, woken, handler, inflight>>

\* wait_event_interruptible in vxtcom_ctrlr_wait: look at signal_running when
\* entering and whenever woken; sleep on while it is zero.
LookAtCondition(t) ==
  /\ tpc[t] = "asleep" /\ woken[t]
  /\ woken' = [woken EXCEPT ![t] = FALSE]
  /\ tpc' = IF running[Home(t)] THEN [tpc EXCEPT ![t] = "retry"] ELSE tpc
  /\ UNCHANGED <<indices, slot, running, event, handler, inflight>>

\* A Unix signal ends the sleep; the thread tries again all the same.
Interrupted(t) ==
  /\ tpc[t] = "asleep"
  /\ tpc' = [tpc EXCEPT ![t] = "retry"]
  /\ woken' = [woken EXCEPT ![t] = FALSE]
  /\ UNCHANGED <<indices, slot, running, event, handler, inflight>>

\* vxtsig_object_destroy and vxtsig_object_signal, as far as the senders of
\* the controller see them.
ObjectWake(n) ==
  /\ Unlocked(n)
  /\ running' = [running EXCEPT ![n] = TRUE]
  /\ WakeAll(n)
  /\ UNCHANGED <<indices, slot, event, tpc, handler, inflight>>

-----------------------------------------------------------------------------
(* vxtsig_interrupt *)

\* Fault: the upcall does not look after the senders.
InterruptNoWake(n) ==
  /\ event[n]
  /\ Unlocked(n)
  /\ event' = [event EXCEPT ![n] = FALSE]
  /\ hpc' = [hpc EXCEPT ![n] = "freeze"]
  /\ UNCHANGED <<indices, slot, running, sender, h, inflight>>

\* The upcall: our partner may have made room, so the senders go first.
Interrupt(n) ==
  /\ event[n]
  /\ Unlocked(n)
  /\ event' = [event EXCEPT ![n] = FALSE]
  /\ IF running[n] THEN UNCHANGED <<running, woken>>
     ELSE running' = [running EXCEPT ![n] = TRUE] /\ WakeAll(n)
  /\ hpc' = [hpc EXCEPT ![n] = "freeze"]
  /\ UNCHANGED <<indices, slot, tpc, h, inflight>>

\* process_signals: freeze the view of the ring.
Freeze(n) ==
  LET r == Other(n) IN
  /\ hpc[n] = "freeze"
  /\ h' = [h EXCEPT ![n].last = send[r], ![n].at = recv[r],
                    ![n].signal = NextIndex(send[r]) = recv[r]]
  /\ hpc' = [hpc EXCEPT ![n] = "process"]
  /\ UNCHANGED <<indices, slot, running, event, sender, inflight>>

\* One entry.  signal_cnt is only compared with MaxSig - 1, so it may stop
\* counting there.
Process(n) ==
  LET r == Other(n) IN
  /\ hpc[n] = "process" /\ h[n].at # h[n].last
  /\ h' = [h EXCEPT ![n].at = NextIndex(@),
                    ![n].cnt = IF @ < MaxSig - 1 THEN @ + 1 ELSE @]
  /\ inflight' = [inflight EXCEPT ![r] = Tail(@)]
  /\ UNCHANGED <<indices, slot, running, event, sender, hpc>>

\* All of the frozen view is processed: publish recv_index.
Consume(n) ==
  /\ hpc[n] = "process" /\ h[n].at = h[n].last
  /\ recv' = [recv EXCEPT ![Other(n)] = h[n].last]
  /\ hpc' = [hpc EXCEPT ![n] = "more"]
  /\ UNCHANGED <<send, slot, running, event, sender, h, inflight>>

\* Faults: leave without looking at send_index again; forget that the ring
\* may have filled up while it was being drained.
MoreNotAsked(n) ==
  LET r == Other(n) IN
  /\ hpc[n] = "more"
  /\ hpc' = [hpc EXCEPT ![n] = "idle"]
  /\ event' = [event EXCEPT
       ![r] = @ \/ h[n].signal \/ h[n].cnt >= MaxSig - 1]
  /\ h' = [h EXCEPT ![n] = NoLocals]
  /\ UNCHANGED <<indices, slot, running, sender, inflight>>

MoreUncounted(n) ==
  LET r == Other(n) IN
  /\ hpc[n] = "more"
  /\ \/ /\ send[r] # recv[r]
        /\ hpc' = [hpc EXCEPT ![n] = "freeze"]
        /\ UNCHANGED <<event, h>>
     \/ /\ send[r] = recv[r]
        /\ hpc' = [hpc EXCEPT ![n] = "idle"]
        /\ event' = [event EXCEPT ![r] = @ \/ h[n].signal]
        /\ h' = [h EXCEPT ![n] = NoLocals]
  /\ UNCHANGED <<indices, slot, running, sender, inflight>>

\* Go round again when more came in; otherwise tell the partner there is
\* room if it may have found the ring full, and leave.
More(n) ==
  LET r == Other(n) IN
  /\ hpc[n] = "more"
  /\ \/ /\ send[r] # recv[r]
        /\ hpc' = [hpc EXCEPT ![n] = "freeze"]
        /\ UNCHANGED <<event, h>>
     \/ /\ send[r] = recv[r]
        /\ hpc' = [hpc EXCEPT ![n] = "idle"]
        /\ event' = [event EXCEPT
             ![r] = @ \/ h[n].signal \/ h[n].cnt >= MaxSig - 1]
        /\ h' = [h EXCEPT ![n] = NoLocals]
  /\ UNCHANGED <<indices, slot, running, sender, inflight>>

-----------------------------------------------------------------------------

\* A thread inside vxtsig_signal, unless it sleeps.
ThreadStep(t) ==
  \/ SignalRetry(t) \/ Full(t) \/ Room(t) \/ Post(t)
  \/ NotifyEmpty(t) \/ NotifyFull(t) \/ LookAtCondition(t)

HandlerStep(n) ==
  Interrupt(n) \/ Freeze(n) \/ Process(n) \/ Consume(n) \/ More(n)

Next ==
  \/ \E t \in Threads :
       SignalCall(t) \/ ThreadStep(t) \/ Interrupted(t)
  \/ \E n \in Node : HandlerStep(n) \/ ObjectWake(n)

Spec == Init /\ [][Next]_vars

\* A thread that holds the lock, or was woken, runs on.  An upcall spins for
\* the lock with interrupts off and gets it although senders take it again
\* and again: strong fairness.
FairSpec ==
  /\ Spec
  /\ \A t \in Threads : WF_vars(ThreadStep(t))
  /\ \A n \in Node : WF_vars(HandlerStep(n)) /\ SF_vars(Interrupt(n))

-----------------------------------------------------------------------------
(* Properties *)

\* What the handler will read is what was posted, in that order: the entries
\* from where it is (recv_index, or its own position while it processes) up
\* to send_index are the signals in flight.  A sender never overwrites an
\* entry that is still to be read.
Position(r) == IF hpc[Other(r)] = "process" THEN h[Other(r)].at ELSE recv[r]

RingIntact ==
  \A r \in Node :
    /\ Len(inflight[r]) = (send[r] - Position(r)) % MaxSig
    /\ \A k \in 1 .. Len(inflight[r]) :
         inflight[r][k] = slot[r][(Position(r) + k - 1) % MaxSig]

\* No signal is left behind: while a ring is not empty its reader has an
\* event pending, or is in the handler with the last look at send_index still
\* to come, or the sender is still to decide about the event.
RingAttended ==
  \A r \in Node :
    send[r] # recv[r] =>
      \/ event[Other(r)]
      \/ hpc[Other(r)] # "idle"
      \/ \E t \in Threads : Home(t) = r /\ tpc[t] = "notify"

\* Signals are delivered: while a ring is not empty the handler that reads it
\* completes another pass over it.
SignalDelivered ==
  \A r \in Node : (send[r] # recv[r]) ~> (hpc[Other(r)] = "more")

\* A sender that found the ring full gets another try.
SenderServed ==
  \A t \in Threads : (tpc[t] = "asleep") ~> (tpc[t] # "asleep")
=============================================================================
