-------------------------- MODULE VxtSignalProofs --------------------------
(***************************************************************************)
(* Reference counts and waits of the signal objects of vxt_signal.c, for   *)
(* any number of objects, waiters, pollers and device files.               *)
(***************************************************************************)
EXTENDS VxtSignalObject, FiniteSetTheorems, TLAPS

\* A waiter has a reference exactly while it is inside the wait.
ObjectInv ==
  /\ TypeOK
  /\ RefsExact
  /\ \A t \in Waiter : wpc[t] # "idle" <=> holds[t] # None

LEMMA UserFacts ==
  /\ Waiter \subseteq User /\ Poller \subseteq User /\ File \subseteq User
  /\ \A u \in Poller \cup File : u \notin Waiter
BY ObjectAssumption DEF User

LEMMA HoldersFinite ==
  \A o \in Handle : IsFiniteSet(Holders(o)) /\ Cardinality(Holders(o)) \in Nat
<1>. SUFFICES ASSUME NEW o \in Handle
              PROVE  IsFiniteSet(Holders(o)) /\ Cardinality(Holders(o)) \in Nat
  OBVIOUS
<1>1. Holders(o) \subseteq User
  BY DEF Holders
<1>2. IsFiniteSet(Holders(o))
  BY <1>1, ObjectAssumption, FS_Subset
<1>. QED
  BY <1>2, FS_CardinalityType

\* A user that acquires a reference joins the holders of that object only.
LEMMA HoldersJoin ==
  ASSUME TypeOK, NEW u \in User, NEW o \in Handle, holds[u] = None,
         holds' = [holds EXCEPT ![u] = o]
  PROVE  /\ Cardinality(Holders(o)') = Cardinality(Holders(o)) + 1
         /\ Holders(o)' # {}
         /\ \A x \in Handle \ {o} : Holders(x)' = Holders(x)
<1>0. holds \in [User -> Handle \cup {None}] /\ None \notin Handle
  BY ObjectAssumption DEF TypeOK
<1>1. Holders(o)' = Holders(o) \cup {u} /\ u \notin Holders(o)
  BY <1>0 DEF Holders
<1>2. Cardinality(Holders(o) \cup {u}) = Cardinality(Holders(o)) + 1
  BY <1>1, HoldersFinite, FS_AddElement
<1>3. \A x \in Handle \ {o} : Holders(x)' = Holders(x)
  BY <1>0 DEF Holders
<1>. QED
  BY <1>1, <1>2, <1>3

LEMMA HoldersLeave ==
  ASSUME TypeOK, NEW u \in User, NEW o \in Handle, holds[u] = o,
         holds' = [holds EXCEPT ![u] = None]
  PROVE  /\ Cardinality(Holders(o)') = Cardinality(Holders(o)) - 1
         /\ Cardinality(Holders(o)) > 0
         /\ Cardinality(Holders(o)) = 1 => Holders(o)' = {}
         /\ \A x \in Handle \ {o} : Holders(x)' = Holders(x)
<1>0. holds \in [User -> Handle \cup {None}] /\ None \notin Handle
  BY ObjectAssumption DEF TypeOK
<1>1. Holders(o)' = Holders(o) \ {u} /\ u \in Holders(o)
  BY <1>0 DEF Holders
<1>2. /\ IsFiniteSet(Holders(o) \ {u})
      /\ Cardinality(Holders(o) \ {u}) = Cardinality(Holders(o)) - 1
  BY <1>1, HoldersFinite, FS_RemoveElement
<1>3. \A x \in Handle \ {o} : Holders(x)' = Holders(x)
  BY <1>0 DEF Holders
<1>4. Cardinality(Holders(o)) > 0
  BY <1>1, HoldersFinite, FS_EmptySet
<1>5. Cardinality(Holders(o)) = 1 => Holders(o)' = {}
  BY <1>1, <1>2, FS_EmptySet
<1>. QED
  BY <1>1, <1>2, <1>3, <1>4, <1>5

\* A step in which user u takes a reference to the visible object o.
LEMMA JoinStep ==
  ASSUME ObjectInv, NEW u \in User, NEW o \in Handle, holds[u] = None,
         Found(o), Acquire(o), hidden' = hidden,
         holds' = [holds EXCEPT ![u] = o]
  PROVE  /\ RefsExact'
         /\ ref' \in [Handle -> Nat] /\ live' \subseteq Handle
         /\ holds' \in [User -> Handle \cup {None}]
<1>. USE DEF ObjectInv
<1>1. /\ Cardinality(Holders(o)') = Cardinality(Holders(o)) + 1
      /\ Holders(o)' # {}
      /\ \A x \in Handle \ {o} : Holders(x)' = Holders(x)
  BY HoldersJoin
<1>2. /\ ref' = [ref EXCEPT ![o] = @ + 1] /\ live' = live
      /\ ref \in [Handle -> Nat] /\ o \in live
  BY DEF Acquire, Found, TypeOK
<1>3. ASSUME NEW x \in Handle \ {o}
      PROVE  /\ ref'[x] = ref[x] /\ Holders(x)' = Holders(x)
             /\ hidden'[x] = hidden[x]
  BY <1>1, <1>2
<1>4. ref[o] = Cardinality(Holders(o)) + (IF hidden[o] THEN 0 ELSE 1)
  BY <1>2 DEF RefsExact
<1>5. ref'[o] = Cardinality(Holders(o)') + (IF hidden'[o] THEN 0 ELSE 1)
  BY <1>1, <1>2, <1>4, HoldersFinite
<1>6. RefsExact'
  BY <1>2, <1>3, <1>5 DEF RefsExact
<1>. QED
  BY <1>2, <1>6 DEF TypeOK

\* A step in which user u gives its reference to o back.
LEMMA LeaveStep ==
  ASSUME ObjectInv, NEW u \in User, NEW o \in Handle, holds[u] = o,
         Release(o), hidden' = hidden,
         holds' = [holds EXCEPT ![u] = None]
  PROVE  /\ RefsExact'
         /\ ref' \in [Handle -> Nat] /\ live' \subseteq Handle
         /\ holds' \in [User -> Handle \cup {None}]
<1>. USE DEF ObjectInv
<1>1. /\ Cardinality(Holders(o)') = Cardinality(Holders(o)) - 1
      /\ Cardinality(Holders(o)) > 0
      /\ Cardinality(Holders(o)) = 1 => Holders(o)' = {}
      /\ \A x \in Handle \ {o} : Holders(x)' = Holders(x)
  BY HoldersLeave
<1>2. Holders(o) # {} /\ holds \in [User -> Handle \cup {None}]
  BY DEF Holders, TypeOK
<1>3. /\ o \in live /\ ref[o] > 0 /\ ref \in [Handle -> Nat]
      /\ ref[o] = Cardinality(Holders(o)) + (IF hidden[o] THEN 0 ELSE 1)
  BY <1>2 DEF RefsExact, TypeOK
<1>4. CASE ref[o] = 1
  <2>1. live' = live \ {o} /\ ref' = [ref EXCEPT ![o] = 0]
    BY <1>4 DEF Release
  <2>2. Cardinality(Holders(o)) = 1
    BY <1>1, <1>3, <1>4, HoldersFinite
  <2>3. RefsExact'
    BY <1>1, <1>3, <2>1, <2>2 DEF RefsExact
  <2>. QED
    BY <1>2, <1>3, <2>1, <2>3 DEF TypeOK
<1>5. CASE ref[o] # 1
  <2>1. live' = live /\ ref' = [ref EXCEPT ![o] = ref[o] - 1]
    BY <1>5 DEF Release
  <2>2. ref[o] - 1 \in Nat /\ ref[o] - 1 > 0
    BY <1>3, <1>5
  <2>3. ref'[o] = Cardinality(Holders(o)') + (IF hidden'[o] THEN 0 ELSE 1)
    BY <1>1, <1>3, <2>1, HoldersFinite
  <2>4. RefsExact'
    BY <1>1, <1>3, <2>1, <2>2, <2>3 DEF RefsExact
  <2>. QED
    BY <1>2, <1>3, <2>1, <2>2, <2>4 DEF TypeOK
<1>. QED
  BY <1>4, <1>5

LEMMA ObjectInit == Init => ObjectInv
<1>. SUFFICES ASSUME Init PROVE ObjectInv
  OBVIOUS
<1>1. TypeOK
  BY DEF Init, TypeOK
<1>2. \A o \in Handle : Holders(o) = {}
  BY ObjectAssumption DEF Init, Holders
<1>3. RefsExact
  BY <1>2 DEF Init, RefsExact
<1>. QED
  BY <1>1, <1>3, UserFacts DEF Init, ObjectInv

\* Steps that take or give back no reference leave the holders alone.
LEMMA HoldersSame ==
  ASSUME holds' = holds PROVE \A o : Holders(o)' = Holders(o)
BY DEF Holders

\* A step of somebody who is not a waiter, for the last part of ObjectInv.
LEMMA OthersMove ==
  ASSUME ObjectInv, NEW u \in Poller \cup File, NEW x,
         holds' = [holds EXCEPT ![u] = x], wpc' = wpc
  PROVE  \A t \in Waiter : wpc'[t] # "idle" <=> holds'[t] # None
BY UserFacts DEF ObjectInv, TypeOK

LEMMA ObjectStep == ObjectInv /\ [Next]_vars => ObjectInv'
<1>. SUFFICES ASSUME ObjectInv, [Next]_vars PROVE ObjectInv'
  OBVIOUS
<1>. USE UserFacts
<1>0. TypeOK /\ RefsExact
  BY DEF ObjectInv
<1>1. ASSUME NEW o \in Handle, Create(o) PROVE ObjectInv'
  <2>1. TypeOK'
    BY <1>0, <1>1 DEF Create, waiting, TypeOK
  <2>2. Holders(o) = {} /\ \A x \in Handle : Holders(x)' = Holders(x)
    BY <1>0, <1>1, HoldersSame DEF Create, RefsExact
  <2>3. Cardinality(Holders(o)) = 0
    BY <2>2, FS_EmptySet
  <2>4. /\ live' = live \cup {o} /\ ref' = [ref EXCEPT ![o] = 1]
        /\ hidden' = [hidden EXCEPT ![o] = FALSE]
        /\ ref \in [Handle -> Nat] /\ hidden \in [Handle -> BOOLEAN]
    BY <1>0, <1>1 DEF Create, TypeOK
  <2>5. /\ ref'[o] = 1 /\ ~hidden'[o] /\ o \in live'
        /\ \A x \in Handle \ {o} : /\ ref'[x] = ref[x]
                                   /\ hidden'[x] = hidden[x]
                                   /\ x \in live' <=> x \in live
    BY <2>4
  <2>6. Cardinality(Holders(o)') = 0
    BY <2>2, <2>3
  <2>7. RefsExact'
    <3>. SUFFICES ASSUME NEW x \in Handle
                  PROVE  /\ x \in live' => ref'[x] = Cardinality(Holders(x)')
                                          + (IF hidden'[x] THEN 0 ELSE 1)
                         /\ x \in live' => ref'[x] > 0
                         /\ x \notin live' => Holders(x)' = {}
      BY DEF RefsExact
    <3>1. CASE x = o
      BY <2>5, <2>6, <3>1
    <3>2. CASE x # o
      BY <1>0, <2>2, <2>5, <3>2 DEF RefsExact
    <3>. QED
      BY <3>1, <3>2
  <2>. QED
    BY <1>1, <2>1, <2>7 DEF Create, waiting, ObjectInv
<1>2. ASSUME NEW o \in Handle, Destroy(o) PROVE ObjectInv'
  <2>1. /\ o \in live /\ ~hidden[o] /\ ref \in [Handle -> Nat]
        /\ hidden \in [Handle -> BOOLEAN]
        /\ ref[o] = Cardinality(Holders(o)) + 1
        /\ hidden' = [hidden EXCEPT ![o] = TRUE]
    BY <1>0, <1>2 DEF Destroy, Found, RefsExact, TypeOK
  <2>2. \A x \in Handle : Holders(x)' = Holders(x)
    BY <1>2, HoldersSame DEF Destroy
  <2>3. live' \subseteq Handle /\ ref' \in [Handle -> Nat] /\ RefsExact'
    <3>1. CASE ref[o] = 1
      <4>1. live' = live \ {o} /\ ref' = [ref EXCEPT ![o] = 0]
        BY <1>2, <3>1 DEF Destroy, Release
      <4>2. Holders(o) = {}
        BY <2>1, <3>1, HoldersFinite, FS_EmptySet
      <4>. QED
        BY <1>0, <2>1, <2>2, <4>1, <4>2 DEF RefsExact, TypeOK
    <3>2. CASE ref[o] # 1
      <4>1. live' = live /\ ref' = [ref EXCEPT ![o] = ref[o] - 1]
        BY <1>2, <3>2 DEF Destroy, Release
      <4>2. ref[o] - 1 \in Nat /\ ref[o] - 1 > 0
        BY <2>1, <3>2, HoldersFinite
      <4>. QED
        BY <1>0, <2>1, <2>2, <4>1, <4>2, HoldersFinite DEF RefsExact, TypeOK
    <3>. QED
      BY <3>1, <3>2
  <2>4. TypeOK'
    BY <1>0, <1>2, <2>1, <2>3 DEF Destroy, Raise, TypeOK
  <2>. QED
    BY <1>2, <2>3, <2>4 DEF Destroy, ObjectInv
<1>3. ASSUME NEW o \in Handle, SignalObject(o) PROVE ObjectInv'
  <2>1. TypeOK'
    BY <1>0, <1>3 DEF SignalObject, Raise, TypeOK
  <2>2. RefsExact'
    BY <1>0, <1>3, HoldersSame DEF SignalObject, RefsExact
  <2>. QED
    BY <1>3, <2>1, <2>2 DEF SignalObject, ObjectInv
<1>4. ASSUME NEW f \in File, NEW o \in Handle, IncRef(f, o) PROVE ObjectInv'
  <2>1. /\ RefsExact'
        /\ ref' \in [Handle -> Nat] /\ live' \subseteq Handle
        /\ holds' \in [User -> Handle \cup {None}]
    BY <1>4, JoinStep DEF IncRef
  <2>. QED
    BY <1>0, <1>4, <2>1, OthersMove DEF IncRef, waiting, ObjectInv, TypeOK
<1>5. ASSUME NEW f \in File, DecRef(f) PROVE ObjectInv'
  <2>0. holds[f] \in Handle
    BY <1>0, <1>5 DEF DecRef, TypeOK
  <2>1. /\ RefsExact'
        /\ ref' \in [Handle -> Nat] /\ live' \subseteq Handle
        /\ holds' \in [User -> Handle \cup {None}]
    BY <1>5, <2>0, LeaveStep DEF DecRef
  <2>. QED
    BY <1>0, <1>5, <2>1, OthersMove DEF DecRef, waiting, ObjectInv, TypeOK
<1>6. ASSUME NEW t \in Waiter, NEW o \in Handle, WaitTakes(t, o)
      PROVE  ObjectInv'
  <2>1. TypeOK'
    BY <1>0, <1>6 DEF WaitTakes, Take, waiting, TypeOK
  <2>2. RefsExact'
    BY <1>0, <1>6, HoldersSame DEF WaitTakes, RefsExact
  <2>. QED
    BY <1>6, <2>1, <2>2 DEF WaitTakes, waiting, ObjectInv
<1>7. ASSUME NEW t \in Waiter, NEW o \in Handle, WaitSleeps(t, o)
      PROVE  ObjectInv'
  <2>0. holds[t] = None /\ o # None
    BY <1>7, ObjectAssumption DEF WaitSleeps, ObjectInv
  <2>1. /\ RefsExact'
        /\ ref' \in [Handle -> Nat] /\ live' \subseteq Handle
        /\ holds' \in [User -> Handle \cup {None}]
    BY <1>7, <2>0, JoinStep DEF WaitSleeps
  <2>2. \A s \in Waiter : wpc'[s] # "idle" <=> holds'[s] # None
    BY <1>0, <1>7, <2>0 DEF WaitSleeps, ObjectInv, TypeOK
  <2>. QED
    BY <1>0, <1>7, <2>1, <2>2 DEF WaitSleeps, ObjectInv, TypeOK
<1>8. ASSUME NEW t \in Waiter, LookAtCondition(t) PROVE ObjectInv'
  <2>1. wpc' = wpc \/ wpc' = [wpc EXCEPT ![t] = "awake"]
    BY <1>8 DEF LookAtCondition
  <2>2. RefsExact'
    BY <1>0, <1>8, HoldersSame DEF LookAtCondition, object, RefsExact
  <2>. QED
    BY <1>0, <1>8, <2>1, <2>2 DEF LookAtCondition, object, ObjectInv, TypeOK
<1>9. ASSUME NEW t \in Waiter, Interrupted(t) PROVE ObjectInv'
  <2>2. RefsExact'
    BY <1>0, <1>9, HoldersSame DEF Interrupted, object, RefsExact
  <2>. QED
    BY <1>0, <1>9, <2>2 DEF Interrupted, object, ObjectInv, TypeOK
<1>10. ASSUME NEW t \in Waiter, WaitReturn(t) PROVE ObjectInv'
  <2>0. holds[t] \in Handle
    BY <1>0, <1>10 DEF WaitReturn, ObjectInv, TypeOK
  <2>1. /\ RefsExact'
        /\ ref' \in [Handle -> Nat] /\ live' \subseteq Handle
        /\ holds' \in [User -> Handle \cup {None}]
    BY <1>10, <2>0, LeaveStep DEF WaitReturn
  <2>2. \A s \in Waiter : wpc'[s] # "idle" <=> holds'[s] # None
    BY <1>0, <1>10 DEF WaitReturn, ObjectInv, TypeOK
  <2>. QED
    BY <1>0, <1>10, <2>1, <2>2 DEF WaitReturn, Take, ObjectInv, TypeOK
<1>11. ASSUME NEW p \in Poller, NEW o \in Handle, PollCall(p, o)
       PROVE  ObjectInv'
  <2>1. /\ RefsExact'
        /\ ref' \in [Handle -> Nat] /\ live' \subseteq Handle
        /\ holds' \in [User -> Handle \cup {None}]
    BY <1>11, JoinStep DEF PollCall
  <2>. QED
    BY <1>0, <1>11, <2>1, OthersMove DEF PollCall, waiting, ObjectInv, TypeOK
<1>12. ASSUME NEW p \in Poller, PollReturn(p) PROVE ObjectInv'
  <2>0. holds[p] \in Handle
    BY <1>0, <1>12 DEF PollReturn, TypeOK
  <2>1. /\ RefsExact'
        /\ ref' \in [Handle -> Nat] /\ live' \subseteq Handle
        /\ holds' \in [User -> Handle \cup {None}]
    BY <1>12, <2>0, LeaveStep DEF PollReturn
  <2>. QED
    BY <1>0, <1>12, <2>1, OthersMove DEF PollReturn, waiting, ObjectInv, TypeOK
<1>13. CASE UNCHANGED vars
  <2>1. RefsExact'
    BY <1>0, <1>13, HoldersSame DEF vars, RefsExact
  <2>. QED
    BY <1>0, <1>13, <2>1 DEF vars, ObjectInv, TypeOK
<1>. QED
  BY <1>1, <1>2, <1>3, <1>4, <1>5, <1>6, <1>7, <1>8, <1>9, <1>10, <1>11,
     <1>12, <1>13 DEF Next, WaiterStep

\* The objects, their flags and the waiters of vxt_signal.c keep their types;
\* in particular no ref_cnt drops below zero.
THEOREM ObjectTypes == Spec => []TypeOK
<1>1. ObjectInv => TypeOK
  BY DEF ObjectInv
<1>. QED
  BY <1>1, ObjectInit, ObjectStep, PTL DEF Spec

\* No use after free and no leak in vxt_signal.c: an object's ref_cnt is the
\* number of those who may still use it, for every set of users.
THEOREM RefCountsExact == Spec => []RefsExact
<1>1. ObjectInv => RefsExact
  BY DEF ObjectInv
<1>. QED
  BY <1>1, ObjectInit, ObjectStep, PTL DEF Spec

-----------------------------------------------------------------------------
(* Signals and sleepers *)

LEMMA MissedStep ==
  ASSUME ObjectInv, NoSignalMissed, [Next]_vars
  PROVE  NoSignalMissed'
<1>. SUFFICES ASSUME NEW t \in Waiter, wpc'[t] = "asleep", ~woken'[t]
              PROVE  ~Condition(holds[t])'
  BY DEF NoSignalMissed
<1>. USE UserFacts
<1>0. TypeOK
  BY DEF ObjectInv
<1>. DEFINE h == holds[t]
<1>1. CASE wpc[t] = "asleep" /\ ~woken[t] /\ holds'[t] = h
  <2>0. ~pending[h] /\ ~(LongReads /\ poll[h])
    BY <1>1 DEF NoSignalMissed, Condition
  <2>1. ASSUME NEW o \in Handle, Raise(o) PROVE o # h
    BY <1>0, <1>1, <2>1 DEF Raise, Sleeper, TypeOK
  <2>3. h \in Handle
    BY <1>0, <1>1 DEF ObjectInv, TypeOK
  <2>4. ~pending'[h] /\ ~(LongReads /\ poll'[h])
    <3>1. ASSUME NEW o \in Handle, Create(o) PROVE ~pending'[h] /\ ~(LongReads /\ poll'[h])
      BY <1>0, <2>0, <2>3, <3>1 DEF Create, TypeOK
    <3>2. ASSUME NEW o \in Handle, Raise(o) PROVE ~pending'[h] /\ ~(LongReads /\ poll'[h])
      BY <1>0, <2>0, <2>1, <2>3, <3>2 DEF Raise, TypeOK
    <3>3. ASSUME NEW u \in Waiter, NEW o, Take(u, o), poll' = poll
          PROVE  ~pending'[h] /\ ~(LongReads /\ poll'[h])
      BY <1>0, <2>0, <2>3, <3>3 DEF Take, TypeOK
    <3>4. ASSUME NEW p \in Poller, PollReturn(p) PROVE ~pending'[h] /\ ~(LongReads /\ poll'[h])
      BY <1>0, <2>0, <2>3, <3>4 DEF PollReturn, TypeOK
    <3>5. CASE UNCHANGED <<pending, poll>>
      BY <2>0, <3>5
    <3>. QED
      BY <3>1, <3>2, <3>3, <3>4, <3>5
         DEF Next, WaiterStep, Destroy, SignalObject, IncRef, DecRef, WaitTakes, WaitSleeps,
             LookAtCondition, WaitReturn, Interrupted, PollCall, object, vars
  <2>. QED
    BY <1>1, <2>4 DEF Condition
<1>2. CASE ~(wpc[t] = "asleep" /\ ~woken[t] /\ holds'[t] = h)
  <2>1. LookAtCondition(t)
    <3>1. ASSUME NEW o \in Handle PROVE ~WaitSleeps(t, o)
      BY <1>0 DEF WaitSleeps, TypeOK
    <3>2. CASE wpc[t] # "asleep"
      BY <1>0, <3>1, <3>2
         DEF Next, WaiterStep, Create, Destroy, SignalObject, Raise, IncRef, DecRef, WaitTakes,
             WaitSleeps, LookAtCondition, WaitReturn, Interrupted, PollCall, PollReturn,
             object, waiting, vars, TypeOK
    <3>3. CASE wpc[t] = "asleep" /\ woken[t]
      BY <1>0, <3>1, <3>3
         DEF Next, WaiterStep, Create, Destroy, SignalObject, Raise, IncRef, DecRef, WaitTakes,
             WaitSleeps, LookAtCondition, WaitReturn, Interrupted, PollCall, PollReturn,
             object, waiting, vars, TypeOK
    <3>4. CASE wpc[t] = "asleep" /\ holds'[t] # h
      BY <1>0, <3>1, <3>4
         DEF Next, WaiterStep, Create, Destroy, SignalObject, Raise, IncRef, DecRef, WaitTakes,
             WaitSleeps, LookAtCondition, WaitReturn, Interrupted, PollCall, PollReturn,
             object, waiting, vars, TypeOK
    <3>. QED
      BY <1>2, <3>2, <3>3, <3>4
  <2>. QED
    BY <1>0, <2>1 DEF LookAtCondition, Condition, object, TypeOK
<1>. QED
  BY <1>1, <1>2

\* Between any number of waiters, also on a 64-bit build, no signal comes in
\* between vxtsig_wait's test of the flag and its sleep without waking it.
THEOREM NoSignalMissedAlways == Spec => []NoSignalMissed
<1>1. Init => NoSignalMissed
  BY DEF Init, NoSignalMissed
<1>2. ObjectInv /\ NoSignalMissed /\ [Next]_vars => NoSignalMissed'
  BY MissedStep
<1>. QED
  BY ObjectInit, ObjectStep, <1>1, <1>2, PTL DEF Spec
=============================================================================
