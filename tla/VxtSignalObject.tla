-------------------------- MODULE VxtSignalObject --------------------------
(***************************************************************************)
(* The signal objects of one controller, kernel/vxtctrlr/common/           *)
(* vxt_signal.c: the event a device's users sleep on in vxtsig_wait and    *)
(* vxtsig_poll.  The controller's spinlock makes every routine one step,   *)
(* except where vxtsig_wait and vxtsig_poll give it up while they hold a   *)
(* reference.                                                              *)
(*                                                                         *)
(* An object's handle is its address, so a handle may come to name a later *)
(* object.  The hash table is the set of objects that are in it.           *)
(* shutting_down of an object only changes the events a poll reports, and  *)
(* is left out.                                                            *)
(***************************************************************************)
EXTENDS Integers, FiniteSets

CONSTANTS
  Handle,     \* addresses vxt_kmalloc may return for an object
  Waiter,     \* threads that call vxtsig_wait
  Poller,     \* threads that call vxtsig_poll
  File,       \* device files, each with a reference of its own
  None,       \* not a handle
  LongReads   \* whether a long covers two of the object's 32-bit words

User == Waiter \cup Poller \cup File

ASSUME ObjectAssumption ==
  /\ IsFiniteSet(User)
  /\ Waiter \cap Poller = {} /\ Waiter \cap File = {} /\ Poller \cap File = {}
  /\ None \notin Handle
  /\ LongReads \in BOOLEAN

VARIABLES
  live,     \* the objects in the hash table
  hidden,   \* hidden
  pending,  \* pending_signal
  poll,     \* pending_poll_wakeup
  ref,      \* ref_cnt
  holds,    \* the object each user has a reference to
  wpc,      \* where each waiter is in vxtsig_wait
  woken,    \* the waiter has to look at the condition it sleeps on
  robbed    \* history: another waiter has taken the signal that woke this one

vars == <<live, hidden, pending, poll, ref, holds, wpc, woken, robbed>>
object == <<live, hidden, pending, poll, ref>>
waiting == <<wpc, woken, robbed>>

TypeOK ==
  /\ live \subseteq Handle
  /\ hidden \in [Handle -> BOOLEAN]
  /\ pending \in [Handle -> BOOLEAN]
  /\ poll \in [Handle -> BOOLEAN]
  /\ ref \in [Handle -> Nat]
  /\ holds \in [User -> Handle \cup {None}]
  /\ wpc \in [Waiter -> {"idle", "asleep", "awake"}]
  /\ woken \in [Waiter -> BOOLEAN]
  /\ robbed \in [Waiter -> BOOLEAN]

Init ==
  /\ live = {}
  /\ hidden = [o \in Handle |-> FALSE]
  /\ pending = [o \in Handle |-> FALSE]
  /\ poll = [o \in Handle |-> FALSE]
  /\ ref = [o \in Handle |-> 0]
  /\ holds = [u \in User |-> None]
  /\ wpc = [t \in Waiter |-> "idle"]
  /\ woken = [t \in Waiter |-> FALSE]
  /\ robbed = [t \in Waiter |-> FALSE]

-----------------------------------------------------------------------------

\* vxtsig_hash_lookup without find_hidden.
Found(o) == o \in live /\ ~hidden[o]

\* One reference more, and one less: vxtsig_object_release frees the object
\* with its last reference.  A lookup and its release cancel out.
Acquire(o) == ref' = [ref EXCEPT ![o] = @ + 1] /\ UNCHANGED live

Release(o) ==
  IF ref[o] = 1
    THEN live' = live \ {o} /\ ref' = [ref EXCEPT ![o] = 0]
    ELSE ref' = [ref EXCEPT ![o] = @ - 1] /\ UNCHANGED live

\* Fault: the flags are set and nobody is woken.
RaiseSilently(o) ==
  /\ pending' = [pending EXCEPT ![o] = TRUE]
  /\ poll' = [poll EXCEPT ![o] = TRUE]
  /\ UNCHANGED <<woken, robbed>>

Sleeper(t, o) == holds[t] = o /\ wpc[t] = "asleep"

\* Set both flags and wake whoever sleeps on the object.
Raise(o) ==
  /\ pending' = [pending EXCEPT ![o] = TRUE]
  /\ poll' = [poll EXCEPT ![o] = TRUE]
  /\ woken' = [t \in Waiter |-> woken[t] \/ Sleeper(t, o)]
  /\ robbed' = [t \in Waiter |-> robbed[t] /\ ~Sleeper(t, o)]

\* Waiter u takes the signal, and leaves none for those that still sleep.
Take(u, o) ==
  /\ pending' = [pending EXCEPT ![o] = FALSE]
  /\ robbed' = [t \in Waiter |-> robbed[t] \/ (t # u /\ pending[o] /\ Sleeper(t, o))]

\* vxtsig_object_create; the one reference is the configuration's.
Create(o) ==
  /\ o \notin live
  /\ live' = live \cup {o}
  /\ hidden' = [hidden EXCEPT ![o] = FALSE]
  /\ pending' = [pending EXCEPT ![o] = FALSE]
  /\ poll' = [poll EXCEPT ![o] = FALSE]
  /\ ref' = [ref EXCEPT ![o] = 1]
  /\ UNCHANGED <<holds, waiting>>

\* Fault: an object that is already hidden can be destroyed again.
DestroyAgain(o) ==
  /\ o \in live
  /\ Raise(o)
  /\ hidden' = [hidden EXCEPT ![o] = TRUE]
  /\ Release(o)
  /\ UNCHANGED <<holds, wpc>>

\* vxtsig_object_destroy: wake the waiters, hide the object from lookups and
\* drop the configuration's reference.
Destroy(o) ==
  /\ Found(o)
  /\ Raise(o)
  /\ hidden' = [hidden EXCEPT ![o] = TRUE]
  /\ Release(o)
  /\ UNCHANGED <<holds, wpc>>

\* vxtsig_object_signal, and one entry of the ring in vxtsig_interrupt.  The
\* handle in the ring may be one the other side remembered for too long.
SignalObject(o) ==
  /\ Found(o)
  /\ Raise(o)
  /\ UNCHANGED <<live, hidden, ref, holds, wpc>>

\* vxtsig_inc_ref when a device file is registered, vxtsig_dec_ref when it
\* goes; the latter finds hidden objects too.
IncRef(f, o) ==
  /\ holds[f] = None
  /\ Found(o)
  /\ Acquire(o)
  /\ holds' = [holds EXCEPT ![f] = o]
  /\ UNCHANGED <<hidden, pending, poll, waiting>>

DecRef(f) ==
  /\ holds[f] # None
  /\ Release(holds[f])
  /\ holds' = [holds EXCEPT ![f] = None]
  /\ UNCHANGED <<hidden, pending, poll, waiting>>

-----------------------------------------------------------------------------
(* vxtsig_wait *)

\* A signal that is already pending is taken at once.
WaitTakes(t, o) ==
  /\ wpc[t] = "idle"
  /\ Found(o) /\ pending[o]
  /\ Take(t, o)
  /\ UNCHANGED <<live, hidden, poll, ref, holds, wpc, woken>>

\* Otherwise sleep, with the reference of the lookup.
WaitSleeps(t, o) ==
  /\ wpc[t] = "idle"
  /\ Found(o) /\ ~pending[o]
  /\ Acquire(o)
  /\ holds' = [holds EXCEPT ![t] = o]
  /\ wpc' = [wpc EXCEPT ![t] = "asleep"]
  /\ woken' = [woken EXCEPT ![t] = TRUE]
  /\ robbed' = [robbed EXCEPT ![t] = FALSE]
  /\ UNCHANGED <<hidden, pending, poll>>

\* The address of pending_signal is passed as that of a long: on a 64-bit build
\* the flag of the poll behind it counts as well.
Condition(o) == pending[o] \/ (LongReads /\ poll[o])

\* The condition test of vxtcom_ctrlr_wait, on entry and when woken.
LookAtCondition(t) ==
  /\ wpc[t] = "asleep" /\ woken[t]
  /\ woken' = [woken EXCEPT ![t] = FALSE]
  /\ wpc' = IF Condition(holds[t]) THEN [wpc EXCEPT ![t] = "awake"] ELSE wpc
  /\ UNCHANGED <<object, holds, robbed>>

\* A Unix signal ends the sleep.
Interrupted(t) ==
  /\ wpc[t] = "asleep"
  /\ woken' = [woken EXCEPT ![t] = FALSE]
  /\ wpc' = [wpc EXCEPT ![t] = "awake"]
  /\ UNCHANGED <<object, holds, robbed>>

\* Fault: the reference of the lookup is kept.
WaitReturnHolding(t) ==
  /\ wpc[t] = "awake"
  /\ Take(t, holds[t])
  /\ holds' = [holds EXCEPT ![t] = None]
  /\ wpc' = [wpc EXCEPT ![t] = "idle"]
  /\ UNCHANGED <<live, hidden, poll, ref, woken>>

\* Take the signal and drop the reference, under the lock again.
WaitReturn(t) ==
  /\ wpc[t] = "awake"
  /\ Take(t, holds[t])
  /\ Release(holds[t])
  /\ holds' = [holds EXCEPT ![t] = None]
  /\ wpc' = [wpc EXCEPT ![t] = "idle"]
  /\ UNCHANGED <<hidden, poll, woken>>

-----------------------------------------------------------------------------
(* vxtsig_poll: the lock may be dropped inside vxt_poll_wait *)

PollCall(p, o) ==
  /\ holds[p] = None
  /\ Found(o)
  /\ Acquire(o)
  /\ holds' = [holds EXCEPT ![p] = o]
  /\ UNCHANGED <<hidden, pending, poll, waiting>>

PollReturn(p) ==
  /\ holds[p] # None
  /\ poll' = [poll EXCEPT ![holds[p]] = FALSE]
  /\ Release(holds[p])
  /\ holds' = [holds EXCEPT ![p] = None]
  /\ UNCHANGED <<hidden, pending, waiting>>

-----------------------------------------------------------------------------

\* A thread that was woken, or is inside a routine, runs on.
WaiterStep(t) == LookAtCondition(t) \/ WaitReturn(t)

Next ==
  \/ \E o \in Handle : Create(o) \/ Destroy(o) \/ SignalObject(o)
  \/ \E f \in File : (\E o \in Handle : IncRef(f, o)) \/ DecRef(f)
  \/ \E t \in Waiter :
       \/ \E o \in Handle : WaitTakes(t, o) \/ WaitSleeps(t, o)
       \/ WaiterStep(t) \/ Interrupted(t)
  \/ \E p \in Poller : (\E o \in Handle : PollCall(p, o)) \/ PollReturn(p)

Spec == Init /\ [][Next]_vars

FairSpec ==
  /\ Spec
  /\ \A t \in Waiter : WF_vars(WaiterStep(t))
  /\ \A p \in Poller : WF_vars(PollReturn(p))

-----------------------------------------------------------------------------
(* Properties *)

Holders(o) == {u \in User : holds[u] = o}

\* ref_cnt counts exactly the configuration's reference, until destroy hides
\* the object, and one per user; an object is freed with the last of them and
\* nobody refers to one that is not there.
RefsExact ==
  \A o \in Handle :
    /\ o \in live =>
         ref[o] = Cardinality(Holders(o)) + (IF hidden[o] THEN 0 ELSE 1)
    /\ o \in live => ref[o] > 0
    /\ o \notin live => Holders(o) = {}

\* The lock is dropped between the test of the flag and the sleep: a waiter that
\* is not due to look again has nothing to wake up for.
NoSignalMissed ==
  \A t \in Waiter : wpc[t] = "asleep" /\ ~woken[t] => ~Condition(holds[t])

\* Sleeping on an object that is signalled ends, however many sleep on it, unless
\* another waiter takes the signal first.
SleeperWoken ==
  \A t \in Waiter :
    (wpc[t] = "asleep" /\ pending[holds[t]]) ~> (wpc[t] # "asleep" \/ robbed[t])

\* A destroyed object that no device file refers to is freed: destroy gets
\* every waiter out, unless another waiter takes the signal it was woken with.
DestroyedFreed ==
  \A o \in Handle :
    (o \in live /\ hidden[o] /\ \A f \in File : holds[f] # o) ~>
      (o \notin live \/ \E t \in Waiter : holds[t] = o /\ robbed[t])
=============================================================================
