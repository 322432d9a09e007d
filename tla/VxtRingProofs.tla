--------------------------- MODULE VxtRingProofs ---------------------------
(***************************************************************************)
(* The signal ring of VxtSignalRing for any number of threads on the two   *)
(* controllers and any size of the ring.                                   *)
(***************************************************************************)
EXTENDS VxtSignalRing, SequenceTheorems, TLAPS

Locked == {"test", "post", "notify", "notify2"}

\* The spinlock of a controller: one of its senders or its handler.
LockExclusive ==
  \A t \in Threads : tpc[t] \in Locked =>
    /\ hpc[Home(t)] = "idle"
    /\ \A u \in Threads : Home(u) = Home(t) /\ tpc[u] \in Locked => u = t

\* Places from i forward to j, and the k-th place from i on.
Dist(i, j) == IF i <= j THEN j - i ELSE j - i + MaxSig
Place(i, k) == IF i + k - 1 < MaxSig THEN i + k - 1 ELSE i + k - 1 - MaxSig

\* recv_index, the handler's position, the end of its frozen view and
\* send_index follow one another around the ring.
InOrder(r) ==
  hpc[Other(r)] = "process" =>
    /\ Dist(recv[r], h[Other(r)].at) <= Dist(recv[r], h[Other(r)].last)
    /\ Dist(recv[r], h[Other(r)].last) <= Dist(recv[r], send[r])

\* A sender between the entry and the index has its entry and room for it.
Written(r) ==
  \A t \in Threads : Home(t) = r /\ tpc[t] = "post" =>
    slot[r][send[r]] = t /\ NextIndex(send[r]) # recv[r]

Intact(r) ==
  /\ Len(inflight[r]) = Dist(Position(r), send[r])
  /\ \A k \in 1 .. Len(inflight[r]) : inflight[r][k] = slot[r][Place(Position(r), k)]

\* A ring with signals has a reader that will look, but for the one signal a
\* sender has just put in an empty ring.
Watched(r) ==
  \/ event[Other(r)]
  \/ hpc[Other(r)] # "idle"
  \/ send[r] = recv[r]
  \/ /\ send[r] = NextIndex(recv[r])
     /\ \E t \in Threads : Home(t) = r /\ tpc[t] = "notify"

Ring(r) == InOrder(r) /\ Written(r) /\ Intact(r) /\ Watched(r)

RingInv == TypeOK /\ LockExclusive /\ \A r \in Node : Ring(r)

LEMMA NodeFacts ==
  /\ A \in Node /\ B \in Node
  /\ \A n \in Node : Other(n) \in Node /\ Other(Other(n)) = n /\ Other(n) # n
  /\ \A n, m \in Node : m = n \/ m = Other(n)
  /\ \A t \in Threads : Home(t) \in Node
BY RingAssumption DEF Node, Other, Home

LEMMA SlotFacts ==
  /\ 0 \in Slot /\ Slot \subseteq Nat
  /\ \A i \in Slot : NextIndex(i) \in Slot /\ NextIndex(i) # i
  /\ \A i, j \in Slot : Dist(i, j) \in 0 .. MaxSig - 1 /\ (Dist(i, j) = 0 <=> i = j)
  /\ \A i, j \in Slot : Dist(i, j) \in Nat /\ Dist(i, i) <= Dist(i, j)
BY RingAssumption DEF Slot, NextIndex, Dist

\* Moving either end of a stretch of the ring by one.
LEMMA DistFacts ==
  ASSUME NEW i \in Slot, NEW j \in Slot
  PROVE  /\ NextIndex(j) # i => Dist(i, NextIndex(j)) = Dist(i, j) + 1
         /\ i # j => Dist(NextIndex(i), j) = Dist(i, j) - 1
         /\ Place(i, Dist(i, j) + 1) = j
         /\ \A k \in 1 .. Dist(i, j) : Place(i, k) \in Slot /\ Place(i, k) # j
         /\ \A k \in 1 .. MaxSig - 1 : Place(NextIndex(i), k) = Place(i, k + 1)
         /\ \A k \in Slot : Dist(i, j) = Dist(i, k) => j = k
         /\ NextIndex(j) = i => Dist(i, j) = MaxSig - 1
BY RingAssumption DEF Slot, NextIndex, Dist, Place

LEMMA ThreeFacts ==
  ASSUME NEW i \in Slot, NEW j \in Slot, NEW k \in Slot, Dist(i, j) <= Dist(i, k)
  PROVE  Dist(j, k) = Dist(i, k) - Dist(i, j)
BY RingAssumption DEF Slot, Dist

LEMMA ModFacts ==
  ASSUME NEW M \in Nat, NEW i \in Int, M > 0
  PROVE  /\ i \in 0 .. M - 1 => i % M = i
         /\ i \in M .. 2 * M - 1 => i % M = i - M
         /\ i \in -M .. -1 => i % M = i + M
<1>1. i \in 0 .. M - 1 => i % M = i
  OBVIOUS
<1>2. i \in M .. 2 * M - 1 => i % M = i - M
  OBVIOUS
<1>3. i \in -M .. -1 => i % M = i + M
  OBVIOUS
<1>. QED
  BY <1>1, <1>2, <1>3

LEMMA PositionType == TypeOK => \A r \in Node : Position(r) \in Slot
BY NodeFacts DEF TypeOK, Position

LEMMA IntactFacts == RingInv => RingIntact
<1>. SUFFICES ASSUME RingInv, NEW r \in Node
              PROVE  /\ Len(inflight[r]) = (send[r] - Position(r)) % MaxSig
                     /\ \A k \in 1 .. Len(inflight[r]) :
                          inflight[r][k] = slot[r][(Position(r) + k - 1) % MaxSig]
  BY DEF RingIntact
<1>. DEFINE p == Position(r)
            s == send[r]
<1>1. p \in Slot /\ s \in Slot /\ MaxSig \in Nat /\ MaxSig > 0
  BY PositionType, RingAssumption DEF RingInv, TypeOK
<1>2. Intact(r)
  BY DEF RingInv, Ring
<1>. HIDE DEF p, s
<1>3. Dist(p, s) = (s - p) % MaxSig
  BY <1>1, ModFacts DEF Dist, Slot
<1>4. Dist(p, s) \in 0 .. MaxSig - 1
  BY <1>1, SlotFacts
<1>5. ASSUME NEW k \in 1 .. Dist(p, s) PROVE Place(p, k) = (p + k - 1) % MaxSig
  BY <1>1, <1>4, ModFacts DEF Place, Slot
<1>. QED
  BY <1>2, <1>3, <1>5 DEF Intact, p, s

LEMMA RingInit == Init => RingInv
<1>. SUFFICES ASSUME Init PROVE RingInv
  OBVIOUS
<1>. USE RingAssumption, NodeFacts, SlotFacts
<1>1. TypeOK
  BY EmptySeq DEF Init, TypeOK, NoLocals
<1>2. LockExclusive
  BY DEF Init, LockExclusive, Locked
<1>3. ASSUME NEW r \in Node PROVE Ring(r)
  <2>1. InOrder(r) /\ Written(r) /\ Watched(r)
    BY DEF Init, InOrder, Written, Watched
  <2>2. Intact(r)
    BY EmptySeq DEF Init, Intact, Position, Dist
  <2>. QED
    BY <2>1, <2>2 DEF Ring
<1>. QED
  BY <1>1, <1>2, <1>3 DEF RingInv

-----------------------------------------------------------------------------
(* The steps *)

\* The ring r as its reader and its writer see it.
View(r) == <<send[r], recv[r], slot[r], inflight[r], hpc[Other(r)], h[Other(r)]>>

\* A step that leaves ring r alone takes no event from its reader, no sender
\* away from its decision and puts none before its index.
LEMMA RingKept ==
  ASSUME NEW r \in Node, Ring(r), UNCHANGED View(r),
         event[Other(r)] => event'[Other(r)],
         \A t \in Threads : Home(t) = r /\ tpc'[t] = "post" => tpc[t] = "post",
         \A t \in Threads : Home(t) = r /\ tpc[t] = "notify" => tpc'[t] = "notify"
  PROVE  Ring(r)'
<1>1. Position(r)' = Position(r)
  BY DEF View, Position
<1>2. InOrder(r)'
  BY DEF View, Ring, InOrder
<1>3. Written(r)'
  BY DEF View, Ring, Written
<1>4. Intact(r)'
  BY <1>1 DEF View, Ring, Intact
<1>5. Watched(r)'
  BY DEF View, Ring, Watched
<1>. QED
  BY <1>2, <1>3, <1>4, <1>5 DEF Ring

\* The lock stays exclusive when a thread or a handler goes on inside it.
LEMMA LockKept ==
  ASSUME LockExclusive,
         \A t \in Threads : tpc'[t] \in Locked => tpc[t] \in Locked,
         \A n \in Node : hpc'[n] # "idle" => hpc[n] # "idle"
  PROVE  LockExclusive'
BY NodeFacts DEF LockExclusive

\* A step of a sender that touches no index and no entry, and does not end a
\* decision about the event.
LEMMA SenderQuiet ==
  ASSUME RingInv, NEW t \in Threads,
         UNCHANGED <<indices, slot, event, handler, inflight>>,
         tpc' = [tpc EXCEPT ![t] = tpc'[t]], tpc[t] # "notify", tpc'[t] # "post"
  PROVE  \A r \in Node : Ring(r)'
<1>. SUFFICES ASSUME NEW r \in Node PROVE Ring(r)'
  OBVIOUS
<1>1. tpc \in [Threads -> {"idle", "test", "post", "notify", "notify2", "asleep", "retry"}]
  BY DEF RingInv, TypeOK
<1>2. UNCHANGED View(r) /\ event' = event
  BY DEF View, indices, handler
<1>3. \A u \in Threads : u = t \/ tpc'[u] = tpc[u]
  BY <1>1
<1>4. Ring(r)
  BY DEF RingInv
<1>. QED
  BY <1>2, <1>3, <1>4, RingKept

LEMMA LockStep ==
  ASSUME RingInv, NEW t \in Threads, tpc[t] \in {"idle", "retry"}, Lock(t)
  PROVE  RingInv'
<1>1. TypeOK'
  BY NodeFacts DEF RingInv, TypeOK, Lock, indices, handler
<1>2. tpc' = [tpc EXCEPT ![t] = "test"] /\ tpc'[t] = "test"
      /\ (\A u \in Threads : u = t \/ tpc'[u] = tpc[u]) /\ hpc' = hpc
  BY DEF RingInv, TypeOK, Lock, handler
<1>3. LockExclusive'
  BY <1>2 DEF RingInv, LockExclusive, Locked, Lock, Unlocked
<1>4. \A r \in Node : Ring(r)'
  BY <1>2, SenderQuiet DEF Lock
<1>. QED
  BY <1>1, <1>3, <1>4 DEF RingInv

LEMMA SleepStep ==
  ASSUME RingInv, NEW t \in Threads, Full(t) \/ LookAtCondition(t) \/ Interrupted(t)
  PROVE  RingInv'
<1>1. /\ UNCHANGED <<indices, slot, running, event, handler, inflight>>
      /\ woken' \in [Threads -> BOOLEAN]
      /\ tpc' \in [Threads -> {"idle", "test", "post", "notify", "notify2", "asleep", "retry"}]
      /\ tpc' = [tpc EXCEPT ![t] = tpc'[t]]
      /\ tpc[t] \in {"test", "asleep"} /\ tpc'[t] \in {"asleep", "retry"}
  BY DEF RingInv, TypeOK, Full, LookAtCondition, Interrupted
<1>2. TypeOK'
  BY <1>1 DEF RingInv, TypeOK, indices, handler
<1>3. \A u \in Threads : u = t \/ tpc'[u] = tpc[u]
  BY <1>1 DEF RingInv, TypeOK
<1>4. LockExclusive'
  BY <1>1, <1>3, LockKept DEF RingInv, Locked, handler
<1>5. \A r \in Node : Ring(r)'
  BY <1>1, SenderQuiet
<1>. QED
  BY <1>2, <1>4, <1>5 DEF RingInv

LEMMA RoomStep ==
  ASSUME RingInv, NEW t \in Threads, Room(t)
  PROVE  RingInv'
<1>. USE NodeFacts
<1>. DEFINE n == Home(t)
<1>1. /\ n \in Node /\ send[n] \in Slot /\ recv[n] \in Slot
      /\ slot \in [Node -> [Slot -> Threads \cup {A}]]
      /\ tpc \in [Threads -> {"idle", "test", "post", "notify", "notify2", "asleep", "retry"}]
      /\ running' \in [Node -> BOOLEAN] /\ tpc[t] = "test"
      /\ UNCHANGED <<indices, event, woken, handler, inflight>>
  BY DEF RingInv, TypeOK, Room
<1>2. tpc' = [tpc EXCEPT ![t] = tpc'[t]] /\ tpc'[t] \in {"idle", "post"}
      /\ \A u \in Threads : u = t \/ tpc'[u] = tpc[u]
  BY <1>1 DEF Room
<1>3. LockExclusive'
  BY <1>1, <1>2, LockKept DEF RingInv, Locked, handler
<1>4. CASE tpc' = [tpc EXCEPT ![t] = "idle"] /\ UNCHANGED slot
  <2>1. TypeOK'
    BY <1>1, <1>4 DEF RingInv, TypeOK, indices, handler
  <2>2. \A r \in Node : Ring(r)'
    BY <1>1, <1>4, SenderQuiet
  <2>. QED
    BY <1>3, <2>1, <2>2 DEF RingInv
<1>5. CASE tpc' = [tpc EXCEPT ![t] = "post"] /\ slot' = [slot EXCEPT ![n][send[n]] = t]
  <2>1. TypeOK'
    BY <1>1, <1>5 DEF RingInv, TypeOK, indices, handler
  <2>2. /\ slot'[n] = [slot[n] EXCEPT ![send[n]] = t] /\ slot'[Other(n)] = slot[Other(n)]
        /\ slot[n] \in [Slot -> Threads \cup {A}]
    BY <1>1, <1>5
  <2>3. Ring(n)'
    <3>. HIDE DEF n
    <3>0. UNCHANGED <<send[n], recv[n], inflight[n], hpc[Other(n)], h[Other(n)], event[Other(n)]>>
      BY <1>1 DEF indices, handler
    <3>1. Ring(n)
      BY <1>1 DEF RingInv
    <3>2. InOrder(n)'
      BY <3>0, <3>1 DEF Ring, InOrder
    <3>3. Written(n)'
      <4>1. \A u \in Threads : Home(u) = n /\ tpc[u] = "post" => u = t
        BY <1>1 DEF RingInv, LockExclusive, Locked, n
      <4>2. NextIndex(send[n]) # recv[n]
        BY DEF Room, IsFull, n
      <4>3. slot'[n][send[n]] = t
        BY <1>1, <2>2
      <4>. QED
        BY <1>1, <1>2, <3>0, <4>1, <4>2, <4>3 DEF Written
    <3>4. Intact(n)'
      <4>1. Position(n)' = Position(n) /\ Position(n) \in Slot
        BY <1>1, <3>0, PositionType DEF Position, RingInv
      <4>2. ASSUME NEW k \in 1 .. Dist(Position(n), send[n])
            PROVE  slot'[n][Place(Position(n), k)] = slot[n][Place(Position(n), k)]
        BY <1>1, <2>2, <4>1, DistFacts
      <4>. QED
        BY <3>0, <3>1, <4>1, <4>2 DEF Ring, Intact
    <3>5. Watched(n)'
      BY <1>1, <1>2, <3>0, <3>1 DEF Ring, Watched
    <3>. QED
      BY <3>2, <3>3, <3>4, <3>5 DEF Ring
  <2>4. Ring(Other(n))'
    <3>1. UNCHANGED View(Other(n))
      BY <1>1, <2>2 DEF View, indices, handler
    <3>2. \A u \in Threads : Home(u) = Other(n) => tpc'[u] = tpc[u]
      BY <1>1, <1>2
    <3>. QED
      BY <1>1, <3>1, <3>2, RingKept DEF RingInv
  <2>. QED
    BY <1>1, <1>3, <2>1, <2>3, <2>4 DEF RingInv
<1>. QED
  BY <1>4, <1>5 DEF Room

LEMMA PostStep ==
  ASSUME RingInv, NEW t \in Threads, Post(t)
  PROVE  RingInv'
<1>. USE NodeFacts
<1>. DEFINE n == Home(t)
<1>1. /\ n \in Node /\ send \in [Node -> Slot] /\ recv[n] \in Slot
      /\ inflight \in [Node -> Seq(Threads)]
      /\ tpc \in [Threads -> {"idle", "test", "post", "notify", "notify2", "asleep", "retry"}]
      /\ tpc[t] = "post" /\ tpc' = [tpc EXCEPT ![t] = "notify"]
      /\ send' = [send EXCEPT ![n] = NextIndex(send[n])]
      /\ inflight' = [inflight EXCEPT ![n] = Append(inflight[n], t)]
      /\ UNCHANGED <<recv, slot, running, event, woken, handler>>
  BY DEF RingInv, TypeOK, Post
<1>2. tpc'[t] = "notify" /\ \A u \in Threads : u = t \/ tpc'[u] = tpc[u]
  BY <1>1
<1>3. LockExclusive'
  BY <1>1, <1>2, LockKept DEF RingInv, Locked, handler
<1>4. NextIndex(send[n]) \in Slot /\ send[n] \in Slot
  BY <1>1, SlotFacts
<1>5. inflight[n] \in Seq(Threads) /\ Append(inflight[n], t) \in Seq(Threads)
      /\ Len(Append(inflight[n], t)) = Len(inflight[n]) + 1
      /\ \A k \in 1 .. Len(inflight[n]) : Append(inflight[n], t)[k] = inflight[n][k]
      /\ Append(inflight[n], t)[Len(inflight[n]) + 1] = t
  BY <1>1
<1>6. TypeOK'
  BY <1>1, <1>4, <1>5 DEF RingInv, TypeOK, handler
<1>7. Ring(n)'
  <2>. HIDE DEF n
  <2>0. /\ UNCHANGED <<recv[n], slot[n], hpc[Other(n)], h[Other(n)], event[Other(n)]>>
        /\ send'[n] = NextIndex(send[n]) /\ inflight'[n] = Append(inflight[n], t)
    BY <1>1 DEF handler
  <2>1. Ring(n) /\ slot[n][send[n]] = t /\ NextIndex(send[n]) # recv[n]
    BY <1>1 DEF RingInv, Ring, Written, n
  <2>2. Dist(recv[n], NextIndex(send[n])) = Dist(recv[n], send[n]) + 1
    BY <1>1, <1>4, <2>1, DistFacts
  <2>3. InOrder(n)'
    <3>1. h[Other(n)].at \in Slot /\ h[Other(n)].last \in Slot
      BY <1>1 DEF RingInv, TypeOK
    <3>2. /\ Dist(recv[n], h[Other(n)].at) \in Nat /\ Dist(recv[n], h[Other(n)].last) \in Nat
          /\ Dist(recv[n], send[n]) \in Nat
      BY <1>1, <1>4, <3>1, SlotFacts
    <3>. QED
      BY <2>0, <2>1, <2>2, <3>2 DEF Ring, InOrder
  <2>4. Written(n)'
    <3>1. \A u \in Threads : Home(u) = n /\ tpc[u] = "post" => u = t
      BY <1>1 DEF RingInv, LockExclusive, Locked, n
    <3>. QED
      BY <1>2, <3>1 DEF Written
  <2>5. Position(n)' = Position(n) /\ Position(n) \in Slot
    BY <1>1, <2>0, PositionType DEF Position, RingInv
  <2>6. Dist(Position(n), NextIndex(send[n])) = Dist(Position(n), send[n]) + 1
    <3>1. Dist(recv[n], Position(n)) <= Dist(recv[n], send[n])
      <4>1. CASE hpc[Other(n)] = "process"
        <5>1. h[Other(n)].at \in Slot /\ h[Other(n)].last \in Slot
          BY <1>1 DEF RingInv, TypeOK
        <5>2. /\ Dist(recv[n], h[Other(n)].at) \in Nat /\ Dist(recv[n], h[Other(n)].last) \in Nat
              /\ Dist(recv[n], send[n]) \in Nat
          BY <1>1, <1>4, <5>1, SlotFacts
        <5>. QED
          BY <2>1, <4>1, <5>2 DEF Ring, InOrder, Position
      <4>2. CASE hpc[Other(n)] # "process"
        BY <1>1, <1>4, <4>2, SlotFacts DEF Position
      <4>. QED
        BY <4>1, <4>2
    <3>2. Dist(recv[n], send[n]) \in Nat
      BY <1>1, <1>4, SlotFacts
    <3>3. NextIndex(send[n]) # Position(n)
      BY <2>2, <3>1, <3>2
    <3>. QED
      BY <1>4, <2>5, <3>3, DistFacts
  <2>7. Intact(n)'
    <3>1. Place(Position(n), Len(inflight[n]) + 1) = send[n]
      BY <1>4, <2>1, <2>5, DistFacts DEF Ring, Intact
    <3>2. Len(inflight'[n]) = Dist(Position(n)', send'[n])
      BY <1>5, <2>0, <2>1, <2>5, <2>6 DEF Ring, Intact
    <3>3. ASSUME NEW k \in 1 .. Len(inflight'[n])
          PROVE  inflight'[n][k] = slot'[n][Place(Position(n)', k)]
      <4>1. CASE k = Len(inflight[n]) + 1
        BY <1>5, <2>0, <2>1, <2>5, <3>1, <4>1
      <4>2. CASE k # Len(inflight[n]) + 1
        <5>1. k \in 1 .. Len(inflight[n])
          BY <1>5, <2>0, <4>2
        <5>. QED
          BY <1>5, <2>0, <2>1, <2>5, <5>1 DEF Ring, Intact
      <4>. QED
        BY <4>1, <4>2
    <3>. QED
      BY <3>2, <3>3 DEF Intact
  <2>8. Watched(n)'
    <3>1. \A u \in Threads : ~(Home(u) = n /\ tpc[u] = "notify")
      BY <1>1 DEF RingInv, LockExclusive, Locked, n
    <3>. QED
      BY <1>1, <1>2, <2>0, <2>1, <3>1 DEF Ring, Watched, n
  <2>. QED
    BY <2>3, <2>4, <2>7, <2>8 DEF Ring
<1>8. Ring(Other(n))'
  <2>1. UNCHANGED View(Other(n))
    BY <1>1 DEF View, handler
  <2>2. \A u \in Threads : Home(u) = Other(n) => tpc'[u] = tpc[u]
    BY <1>1, <1>2
  <2>. QED
    BY <1>1, <2>1, <2>2, RingKept DEF RingInv
<1>. QED
  BY <1>1, <1>3, <1>6, <1>7, <1>8 DEF RingInv

LEMMA NotifyStep ==
  ASSUME RingInv, NEW t \in Threads, NotifyEmpty(t) \/ NotifyFull(t)
  PROVE  RingInv'
<1>. USE NodeFacts
<1>. DEFINE n == Home(t)
<1>1. /\ n \in Node /\ send[n] \in Slot /\ recv[n] \in Slot /\ event \in [Node -> BOOLEAN]
      /\ tpc \in [Threads -> {"idle", "test", "post", "notify", "notify2", "asleep", "retry"}]
      /\ UNCHANGED <<indices, slot, running, woken, handler, inflight>>
  BY DEF RingInv, TypeOK, NotifyEmpty, NotifyFull
<1>2. /\ tpc' \in [Threads -> {"idle", "test", "post", "notify", "notify2", "asleep", "retry"}]
      /\ tpc[t] \in {"notify", "notify2"} /\ tpc'[t] \in {"idle", "notify2"}
      /\ \A u \in Threads : u = t \/ tpc'[u] = tpc[u]
  BY <1>1 DEF NotifyEmpty, NotifyFull
<1>3. event' \in [Node -> BOOLEAN] /\ \A m \in Node : event[m] => event'[m]
  BY <1>1 DEF NotifyEmpty, NotifyFull
<1>4. TypeOK'
  BY <1>1, <1>2, <1>3 DEF RingInv, TypeOK, indices, handler
<1>5. LockExclusive'
  BY <1>1, <1>2, LockKept DEF RingInv, Locked, handler
<1>6. ASSUME NEW r \in Node PROVE Ring(r) /\ UNCHANGED View(r)
  BY <1>1 DEF RingInv, View, indices, handler
<1>7. Ring(Other(n))'
  <2>1. \A u \in Threads : Home(u) = Other(n) => tpc'[u] = tpc[u]
    BY <1>1, <1>2
  <2>. QED
    BY <1>1, <1>3, <1>6, <2>1, RingKept
<1>8. Ring(n)'
  <2>. HIDE DEF n
  <2>1. Position(n)' = Position(n)
    BY <1>1, <1>6 DEF View, Position
  <2>2. InOrder(n)' /\ Intact(n)'
    BY <1>1, <1>6, <2>1 DEF View, Ring, InOrder, Intact
  <2>3. Written(n)'
    BY <1>1, <1>2, <1>6 DEF View, Ring, Written
  <2>4. Watched(n)'
    <3>0. Watched(n) /\ UNCHANGED <<send[n], recv[n], hpc[Other(n)]>>
      BY <1>1, <1>6 DEF Ring, View
    <3>1. CASE tpc[t] = "notify"
      <4>1. NotifyEmpty(t)
        BY <3>1 DEF NotifyFull
      <4>2. CASE send[n] = NextIndex(recv[n])
        BY <1>1, <4>1, <4>2 DEF NotifyEmpty, Watched, n
      <4>. QED
        BY <1>1, <1>3, <3>0, <4>2 DEF Watched
    <3>2. CASE tpc[t] # "notify"
      BY <1>1, <1>2, <1>3, <3>0, <3>2 DEF Watched
    <3>. QED
      BY <3>1, <3>2
  <2>. QED
    BY <2>2, <2>3, <2>4 DEF Ring
<1>. QED
  BY <1>1, <1>4, <1>5, <1>7, <1>8 DEF RingInv

LEMMA WakeStep ==
  ASSUME RingInv, NEW n \in Node, ObjectWake(n)
  PROVE  RingInv'
<1>1. UNCHANGED <<indices, slot, event, tpc, handler, inflight>>
  BY DEF ObjectWake
<1>2. running' \in [Node -> BOOLEAN] /\ woken' \in [Threads -> BOOLEAN]
  BY DEF RingInv, TypeOK, ObjectWake, WakeAll
<1>3. TypeOK'
  BY <1>1, <1>2 DEF RingInv, TypeOK, indices, handler
<1>4. LockExclusive'
  BY <1>1, LockKept DEF RingInv, handler
<1>5. ASSUME NEW r \in Node PROVE Ring(r)'
  <2>1. Ring(r) /\ UNCHANGED View(r)
    BY <1>1 DEF RingInv, View, indices, handler
  <2>. QED
    BY <1>1, <2>1, RingKept
<1>. QED
  BY <1>3, <1>4, <1>5 DEF RingInv

-----------------------------------------------------------------------------
(* The handler of controller n, which reads the ring of the other one.  Of *)
(* the ring of its own controller it can only be said that an event may    *)
(* be raised for it.                                                       *)

LEMMA HandlerOther ==
  ASSUME RingInv, NEW n \in Node,
         \A m \in Node \ {n} : hpc'[m] = hpc[m] /\ h'[m] = h[m] /\ (event[m] => event'[m]),
         UNCHANGED <<send, slot, tpc, recv[n], inflight[n]>>
  PROVE  Ring(n)'
<1>. USE NodeFacts
<1>1. Ring(n) /\ UNCHANGED View(n)
  BY DEF RingInv, View
<1>. QED
  BY <1>1, RingKept

LEMMA InterruptStep ==
  ASSUME RingInv, NEW n \in Node, Interrupt(n)
  PROVE  RingInv'
<1>. USE NodeFacts
<1>1. /\ hpc \in [Node -> {"idle", "freeze", "process", "more"}] /\ event \in [Node -> BOOLEAN]
      /\ hpc' = [hpc EXCEPT ![n] = "freeze"] /\ event' = [event EXCEPT ![n] = FALSE]
      /\ UNCHANGED <<indices, slot, tpc, h, inflight>>
  BY DEF RingInv, TypeOK, Interrupt
<1>2. running' \in [Node -> BOOLEAN] /\ woken' \in [Threads -> BOOLEAN]
  BY DEF RingInv, TypeOK, Interrupt, WakeAll
<1>3. TypeOK'
  BY <1>1, <1>2 DEF RingInv, TypeOK, indices
<1>4. LockExclusive'
  BY <1>1 DEF RingInv, LockExclusive, Interrupt, Unlocked, Locked
<1>5. Ring(n)'
  BY <1>1, HandlerOther DEF indices
<1>6. Ring(Other(n))'
  <2>. DEFINE r == Other(n)
  <2>1. /\ Ring(r) /\ Other(r) = n /\ r \in Node /\ hpc'[n] = "freeze" /\ hpc[n] = "idle"
        /\ UNCHANGED <<send[r], recv[r], slot[r], inflight[r], tpc>>
    BY <1>1 DEF RingInv, indices, Interrupt, Unlocked
  <2>. HIDE DEF r
  <2>2. Position(r)' = Position(r)
    BY <2>1 DEF Position
  <2>3. InOrder(r)' /\ Watched(r)'
    BY <2>1 DEF InOrder, Watched
  <2>4. Written(r)' /\ Intact(r)'
    BY <2>1, <2>2 DEF Ring, Written, Intact
  <2>. QED
    BY <2>3, <2>4 DEF Ring, r
<1>. QED
  BY <1>3, <1>4, <1>5, <1>6 DEF RingInv

LEMMA FreezeStep ==
  ASSUME RingInv, NEW n \in Node, Freeze(n)
  PROVE  RingInv'
<1>. USE NodeFacts
<1>. DEFINE r == Other(n)
<1>1. /\ hpc \in [Node -> {"idle", "freeze", "process", "more"}]
      /\ h \in [Node -> [last: Slot, at: Slot, signal: BOOLEAN, cnt: Slot]]
      /\ hpc' = [hpc EXCEPT ![n] = "process"] /\ hpc[n] = "freeze"
      /\ send[r] \in Slot /\ recv[r] \in Slot
      /\ UNCHANGED <<indices, slot, running, event, sender, inflight>>
  BY DEF RingInv, TypeOK, Freeze
<1>2. /\ h' \in [Node -> [last: Slot, at: Slot, signal: BOOLEAN, cnt: Slot]]
      /\ h'[n].last = send[r] /\ h'[n].at = recv[r] /\ \A m \in Node \ {n} : h'[m] = h[m]
  <2>1. h[n] \in [last: Slot, at: Slot, signal: BOOLEAN, cnt: Slot]
    BY <1>1
  <2>2. h' = [h EXCEPT ![n] = [h[n] EXCEPT !.last = send[r], !.at = recv[r],
                                           !.signal = (NextIndex(send[r]) = recv[r])]]
    BY <1>1, <2>1 DEF Freeze
  <2>. HIDE DEF r
  <2>. QED
    BY <1>1, <2>1, <2>2
<1>3. TypeOK'
  BY <1>1, <1>2 DEF RingInv, TypeOK, indices, sender
<1>4. LockExclusive'
  BY <1>1, LockKept DEF RingInv, sender
<1>5. Ring(n)'
  BY <1>1, <1>2, HandlerOther DEF indices, sender
<1>6. Ring(r)'
  <2>1. /\ Ring(r) /\ Other(r) = n /\ r \in Node /\ hpc'[n] = "process"
        /\ UNCHANGED <<send[r], recv[r], slot[r], inflight[r], tpc>>
    BY <1>1 DEF RingInv, indices, sender
  <2>. HIDE DEF r
  <2>2. Position(r)' = Position(r)
    BY <1>1, <1>2, <2>1 DEF Position
  <2>3. InOrder(r)'
    <3>1. Dist(recv[r], recv[r]) <= Dist(recv[r], send[r]) /\ Dist(recv[r], send[r]) \in Nat
      BY <1>1, SlotFacts
    <3>. QED
      BY <1>2, <2>1, <3>1 DEF InOrder
  <2>4. Written(r)' /\ Intact(r)' /\ Watched(r)'
    BY <2>1, <2>2 DEF Ring, Written, Intact, Watched
  <2>. QED
    BY <2>3, <2>4 DEF Ring
<1>. QED
  BY <1>3, <1>4, <1>5, <1>6 DEF RingInv

LEMMA ProcessStep ==
  ASSUME RingInv, NEW n \in Node, Process(n)
  PROVE  RingInv'
<1>. USE NodeFacts
<1>. DEFINE r == Other(n)
            a == h[n].at
<1>1. /\ h \in [Node -> [last: Slot, at: Slot, signal: BOOLEAN, cnt: Slot]]
      /\ hpc[n] = "process" /\ h[n].at # h[n].last
      /\ send[r] \in Slot /\ recv[r] \in Slot /\ a \in Slot /\ h[n].last \in Slot
      /\ inflight \in [Node -> Seq(Threads)]
      /\ inflight' = [inflight EXCEPT ![r] = Tail(inflight[r])]
      /\ UNCHANGED <<indices, slot, running, event, sender, hpc>>
  BY DEF RingInv, TypeOK, Process
<1>2. /\ h' \in [Node -> [last: Slot, at: Slot, signal: BOOLEAN, cnt: Slot]]
      /\ h'[n].last = h[n].last /\ h'[n].at = NextIndex(a) /\ \A m \in Node \ {n} : h'[m] = h[m]
  <2>1. h[n] \in [last: Slot, at: Slot, signal: BOOLEAN, cnt: Slot]
    BY <1>1
  <2>. DEFINE c == IF h[n].cnt < MaxSig - 1 THEN h[n].cnt + 1 ELSE h[n].cnt
  <2>2. c \in Slot /\ NextIndex(a) \in Slot
    <3>1. h[n].cnt \in Slot
      BY <2>1
    <3>2. c \in Slot
      BY <3>1, RingAssumption DEF Slot
    <3>. QED
      BY <1>1, <3>2, SlotFacts
  <2>. HIDE DEF c
  <2>3. h' = [h EXCEPT ![n] = [h[n] EXCEPT !.at = NextIndex(a), !.cnt = c]]
    BY <1>1, <2>1 DEF Process, c
  <2>. QED
    BY <1>1, <2>1, <2>2, <2>3
<1>3. Ring(r) /\ Other(r) = n /\ r \in Node /\ Position(r) = a /\ inflight[r] \in Seq(Threads)
  BY <1>1 DEF RingInv, Position
<1>4. /\ Dist(recv[r], a) \in Nat /\ Dist(recv[r], h[n].last) \in Nat
      /\ Dist(recv[r], send[r]) \in 0 .. MaxSig - 1 /\ Dist(a, send[r]) \in 0 .. MaxSig - 1
  BY <1>1, SlotFacts
<1>5. /\ Dist(recv[r], a) <= Dist(recv[r], h[n].last)
      /\ Dist(recv[r], h[n].last) <= Dist(recv[r], send[r])
  BY <1>1, <1>3 DEF Ring, InOrder
<1>6. Dist(recv[r], a) # Dist(recv[r], h[n].last)
  BY <1>1, DistFacts
<1>7. Dist(a, send[r]) > 0 /\ a # send[r]
  BY <1>1, <1>4, <1>5, <1>6, ThreeFacts, RingAssumption
<1>8. /\ Len(inflight[r]) = Dist(a, send[r]) /\ inflight[r] # <<>>
      /\ Tail(inflight[r]) \in Seq(Threads) /\ Len(Tail(inflight[r])) = Len(inflight[r]) - 1
      /\ \A i \in 1 .. Len(Tail(inflight[r])) : Tail(inflight[r])[i] = inflight[r][i + 1]
  <2>1. Len(inflight[r]) = Dist(a, send[r])
    BY <1>3 DEF Ring, Intact
  <2>2. inflight[r] # <<>>
    BY <1>4, <1>7, <2>1, EmptySeq
  <2>. QED
    BY <1>3, <2>1, <2>2, HeadTailProperties
<1>9. TypeOK'
  BY <1>1, <1>2, <1>8 DEF RingInv, TypeOK, indices, sender
<1>10. LockExclusive'
  BY <1>1, LockKept DEF RingInv, sender
<1>11. Ring(n)'
  BY <1>1, <1>2, HandlerOther DEF indices, sender
<1>12. Ring(r)'
  <2>1. /\ hpc'[n] = "process" /\ UNCHANGED <<send[r], recv[r], slot[r], tpc>>
        /\ inflight'[r] = Tail(inflight[r])
    BY <1>1, <1>3 DEF indices, sender
  <2>. HIDE DEF r
  <2>2. Position(r)' = NextIndex(a)
    BY <1>2, <1>3, <2>1 DEF Position
  <2>3. InOrder(r)'
    <3>1. NextIndex(a) # recv[r]
      <4>1. ASSUME NextIndex(a) = recv[r] PROVE FALSE
        <5>1. Dist(recv[r], a) = MaxSig - 1
          BY <1>1, <4>1, DistFacts
        <5>. QED
          BY <1>4, <1>5, <1>6, <5>1, RingAssumption
      <4>. QED
        BY <4>1
    <3>2. Dist(recv[r], NextIndex(a)) = Dist(recv[r], a) + 1
      BY <1>1, <3>1, DistFacts
    <3>3. Dist(recv[r], NextIndex(a)) <= Dist(recv[r], h[n].last)
      BY <1>4, <1>5, <1>6, <3>2
    <3>. QED
      BY <1>2, <1>3, <1>5, <2>1, <3>3 DEF InOrder
  <2>4. Written(r)' /\ Watched(r)'
    BY <1>3, <2>1 DEF Ring, Written, Watched
  <2>5. Intact(r)'
    <3>1. Len(inflight'[r]) = Dist(NextIndex(a), send[r])
      <4>1. Dist(NextIndex(a), send[r]) = Dist(a, send[r]) - 1
        BY <1>1, <1>7, DistFacts
      <4>. QED
        BY <1>8, <2>1, <4>1
    <3>2. ASSUME NEW k \in 1 .. Len(inflight'[r])
          PROVE  inflight'[r][k] = slot[r][Place(NextIndex(a), k)]
      <4>1. k + 1 \in 1 .. Len(inflight[r]) /\ k \in 1 .. MaxSig - 1
        BY <1>4, <1>8, <2>1, RingAssumption
      <4>2. Place(NextIndex(a), k) = Place(a, k + 1)
        BY <1>1, <4>1, DistFacts
      <4>3. inflight[r][k + 1] = slot[r][Place(a, k + 1)]
        BY <1>3, <4>1 DEF Ring, Intact
      <4>. QED
        BY <1>8, <2>1, <4>2, <4>3
    <3>. QED
      BY <2>1, <2>2, <3>1, <3>2 DEF Intact
  <2>. QED
    BY <2>3, <2>4, <2>5 DEF Ring
<1>. QED
  BY <1>9, <1>10, <1>11, <1>12 DEF RingInv

LEMMA ConsumeStep ==
  ASSUME RingInv, NEW n \in Node, Consume(n)
  PROVE  RingInv'
<1>. USE NodeFacts
<1>. DEFINE r == Other(n)
<1>1. /\ hpc[n] = "process" /\ h[n].at = h[n].last /\ h[n].last \in Slot
      /\ hpc \in [Node -> {"idle", "freeze", "process", "more"}]
      /\ send[r] \in Slot /\ recv \in [Node -> Slot]
      /\ recv' = [recv EXCEPT ![r] = h[n].last] /\ hpc' = [hpc EXCEPT ![n] = "more"]
      /\ UNCHANGED <<send, slot, running, event, sender, h, inflight>>
  BY DEF RingInv, TypeOK, Consume
<1>2. TypeOK'
  BY <1>1 DEF RingInv, TypeOK, sender
<1>3. LockExclusive'
  BY <1>1, LockKept DEF RingInv, sender
<1>4. Ring(n)'
  BY <1>1, HandlerOther DEF sender
<1>5. Ring(r)'
  <2>1. /\ Ring(r) /\ Other(r) = n /\ r \in Node /\ hpc'[n] = "more" /\ recv[r] \in Slot
        /\ recv'[r] = h[n].last
        /\ UNCHANGED <<send[r], slot[r], inflight[r], tpc>>
    BY <1>1 DEF RingInv, sender
  <2>. HIDE DEF r
  <2>2. Position(r)' = Position(r)
    BY <1>1, <2>1 DEF Position
  <2>3. InOrder(r)' /\ Watched(r)' /\ Intact(r)'
    BY <2>1, <2>2 DEF Ring, InOrder, Watched, Intact
  <2>4. Written(r)'
    <3>1. ASSUME NextIndex(send[r]) = h[n].last PROVE NextIndex(send[r]) = recv[r]
      <4>1. Dist(recv[r], h[n].last) <= Dist(recv[r], send[r])
        BY <1>1, <2>1 DEF Ring, InOrder
      <4>. QED
        BY <1>1, <2>1, <3>1, <4>1, RingAssumption DEF Dist, Slot, NextIndex
    <3>. QED
      BY <2>1, <3>1 DEF Ring, Written
  <2>. QED
    BY <2>3, <2>4 DEF Ring
<1>. QED
  BY <1>2, <1>3, <1>4, <1>5 DEF RingInv

LEMMA MoreStep ==
  ASSUME RingInv, NEW n \in Node, More(n)
  PROVE  RingInv'
<1>. USE NodeFacts
<1>. DEFINE r == Other(n)
<1>1. /\ hpc \in [Node -> {"idle", "freeze", "process", "more"}] /\ event \in [Node -> BOOLEAN]
      /\ h \in [Node -> [last: Slot, at: Slot, signal: BOOLEAN, cnt: Slot]]
      /\ hpc[n] = "more"
      /\ UNCHANGED <<indices, slot, running, sender, inflight>>
  BY DEF RingInv, TypeOK, More
<1>2. /\ hpc' \in [Node -> {"idle", "freeze", "process", "more"}] /\ event' \in [Node -> BOOLEAN]
      /\ hpc'[n] \in {"freeze", "idle"} /\ (hpc'[n] = "idle" => send[r] = recv[r])
      /\ \A m \in Node \ {n} : hpc'[m] = hpc[m] /\ h'[m] = h[m]
      /\ \A m \in Node : event[m] => event'[m]
      /\ h' \in [Node -> [last: Slot, at: Slot, signal: BOOLEAN, cnt: Slot]]
  <2>1. CASE hpc' = [hpc EXCEPT ![n] = "freeze"] /\ UNCHANGED <<event, h>>
    BY <1>1, <2>1
  <2>2. CASE /\ send[r] = recv[r]
             /\ hpc' = [hpc EXCEPT ![n] = "idle"]
             /\ event' = [event EXCEPT ![r] = @ \/ h[n].signal \/ h[n].cnt >= MaxSig - 1]
             /\ h' = [h EXCEPT ![n] = NoLocals]
    <3>1. NoLocals \in [last: Slot, at: Slot, signal: BOOLEAN, cnt: Slot]
      BY SlotFacts DEF NoLocals
    <3>2. event' \in [Node -> BOOLEAN] /\ \A m \in Node : event[m] => event'[m]
      BY <1>1, <2>2
    <3>. QED
      BY <1>1, <2>2, <3>1, <3>2
  <2>. QED
    BY <2>1, <2>2 DEF More
<1>4. TypeOK'
  BY <1>1, <1>2 DEF RingInv, TypeOK, indices, sender
<1>5. LockExclusive'
  BY <1>1, <1>2, LockKept DEF RingInv, sender
<1>6. Ring(n)'
  BY <1>1, <1>2, HandlerOther DEF indices, sender
<1>7. Ring(r)'
  <2>1. /\ Ring(r) /\ Other(r) = n /\ r \in Node
        /\ UNCHANGED <<send[r], recv[r], slot[r], inflight[r], tpc>>
    BY <1>1 DEF RingInv, indices, sender
  <2>. HIDE DEF r
  <2>2. Position(r)' = Position(r)
    BY <1>1, <1>2, <2>1 DEF Position
  <2>3. InOrder(r)' /\ Watched(r)'
    BY <1>2, <2>1 DEF InOrder, Watched
  <2>4. Written(r)' /\ Intact(r)'
    BY <2>1, <2>2 DEF Ring, Written, Intact
  <2>. QED
    BY <2>3, <2>4 DEF Ring
<1>. QED
  BY <1>4, <1>5, <1>6, <1>7 DEF RingInv

LEMMA RingStep == RingInv /\ [Next]_vars => RingInv'
<1>. SUFFICES ASSUME RingInv, [Next]_vars PROVE RingInv'
  OBVIOUS
<1>1. CASE \E t \in Threads : SignalCall(t) \/ ThreadStep(t) \/ Interrupted(t)
  BY <1>1, LockStep, SleepStep, RoomStep, PostStep, NotifyStep
     DEF SignalCall, ThreadStep, SignalRetry
<1>2. CASE \E n \in Node : HandlerStep(n) \/ ObjectWake(n)
  BY <1>2, WakeStep, InterruptStep, FreezeStep, ProcessStep, ConsumeStep, MoreStep
     DEF HandlerStep
<1>3. CASE UNCHANGED vars
  <2>1. TypeOK' /\ LockExclusive'
    BY <1>3 DEF vars, RingInv, TypeOK, LockExclusive
  <2>2. ASSUME NEW r \in Node PROVE Ring(r)'
    BY <1>3, RingKept DEF vars, RingInv, View
  <2>. QED
    BY <2>1, <2>2 DEF RingInv
<1>. QED
  BY <1>1, <1>2, <1>3 DEF Next

\* vxtsig_signal and vxtsig_interrupt keep the types of the ring's state: both
\* indices stay inside the ring whatever its size.
THEOREM RingTypes == Spec => []TypeOK
<1>1. RingInv => TypeOK
  BY DEF RingInv
<1>. QED
  BY RingInit, RingStep, <1>1, PTL DEF Spec

\* With any number of senders, vxtsig_interrupt reads exactly the handles that
\* vxtsig_signal posted, each once and in their order: the entries between the
\* reader and send_index are the signals in flight, and none is overwritten.
THEOREM RingIntactAlways == Spec => []RingIntact
BY RingInit, RingStep, IntactFacts, PTL DEF Spec

\* vxtsig_signal leaves out the event only when a reader will still look at
\* send_index: a ring that is not empty is never left without an event, a
\* running handler, or a sender about to raise the event.
THEOREM RingAttendedAlways == Spec => []RingAttended
<1>1. RingInv => RingAttended
  BY NodeFacts DEF RingInv, Ring, Watched, RingAttended
<1>. QED
  BY RingInit, RingStep, <1>1, PTL DEF Spec
=============================================================================
