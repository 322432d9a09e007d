------------------------------ MODULE MxtProofs ------------------------------
(***************************************************************************)
(* The multiplexer never takes an entry away under the thread that works   *)
(* on it, and V and a dedicated thread never write to one socket at a      *)
(* time: for any number of descriptors, connections, messages and buffers. *)
(***************************************************************************)
EXTENDS Mxt, FiniteSetTheorems, SequenceTheorems, WellFoundedInduction, TLAPS

\* V, and the dedicated thread of f, hold a reference to the entry of f.
VHolds(s, f) ==
  /\ vp[s].fd = f
  /\ \/ vp[s].pc \in {"ack", "check", "write", "abort"}
     \/ vp[s].pc = "send" /\ vp[s].msg.type = "DATA"
THolds(s, f) == tp[s][f].pc # "none"

-----------------------------------------------------------------------------
(* The inductive invariant *)

History == round \subseteq Side /\ late \subseteq Side
Shapes == chan \in [Side -> Seq(Msg)] /\ got \in [Conn -> [Side -> Seq(Item)]]

\* What V and L work with at each place of their routines
Work ==
  \A s \in Side :
    /\ vp[s].pc # "idle" => vp[s].idx \in Index
    /\ vp[s].pc \in {"check", "write", "abort"} => vp[s].msg.type = "DATA"
    /\ vp[s].pc = "ack" => vp[s].msg.type = "NEW_CONNECTION_ACK"
    /\ vp[s].pc = "map" => vp[s].msg.type = "NEW_CONNECTION"
    /\ vp[s].pc \in {"ack", "check", "write", "map", "abort"} => vp[s].fd \in Fd
    /\ vp[s].pc = "send" /\ vp[s].msg.type = "DATA" => vp[s].fd \in Fd
    /\ lp[s].pc # "poll" => lp[s].fd \in Fd

\* The count covers those who hold a reference.
Counted ==
  \A s \in Side, f \in Fd :
    /\ VHolds(s, f) \/ THolds(s, f) => ent[s][f].ref >= 1
    /\ VHolds(s, f) /\ THolds(s, f) => ent[s][f].ref >= 2

\* The dedicated thread is not there, or is past its writing and its fd_mutex.
Past == {"none", "mark", "send", "stuck", "abort"}

\* One of V and the dedicated thread writes to a socket, and a dedicated thread
\* that has begun has made its socket blocking.
OneWriter ==
  \A s \in Side, f \in Fd :
    /\ tp[s][f].pc \in {"start", "write", "fail"} => ent[s][f].sending
    /\ tp[s][f].pc \in {"start", "write"} => tp[s][f].idx \in Index
    /\ tp[s][f].pc \notin {"none", "start"} => sock[s][f].block
    /\ vp[s].pc = "write" /\ vp[s].fd = f => ent[s][f].sending /\ tp[s][f].pc \in Past

\* A request for a connection comes from the guest and names it.
Request(m) == m.type = "NEW_CONNECTION"
Requests ==
  /\ \A f \in Fd : ent["guest"][f].used => ent["guest"][f].cookie # 0
  /\ Request(lp["guest"].out) => lp["guest"].out.cookie # 0
  /\ \A i \in DOMAIN chan["guest"] :
       Request(chan["guest"][i]) => chan["guest"][i].cookie # 0
  /\ Request(vp["host"].msg) => vp["host"].msg.cookie # 0
  /\ ~Request(lp["host"].out) /\ ~Request(vp["guest"].msg)
  /\ \A i \in DOMAIN chan["host"] : ~Request(chan["host"][i])
  /\ \A s \in Side : ~Request(vp[s].out)
  /\ \A s \in Side, f \in Fd : ~Request(tp[s][f].out)

\* An entry is there with its socket.
Entries ==
  \A s \in Side, f \in Fd :
    /\ ent[s][f].used <=> sock[s][f].conn # 0
    /\ ent[s][f].polled \/ ent[s][f].ref > 0 => ent[s][f].used

MuxInv ==
  TypeOK /\ Shapes /\ Work /\ Counted /\ OneWriter /\ Requests /\ Entries

-----------------------------------------------------------------------------
(* Lemmas about what a step changes *)

LEMMA EntryFields ==
  ASSUME NEW e \in Entry
  PROVE  /\ e.used \in BOOLEAN /\ e.peer \in AnyFd /\ e.target \in BOOLEAN
         /\ e.cookie \in 0 .. MaxConn /\ e.first \in BOOLEAN /\ e.inactive \in BOOLEAN
         /\ e.unpolled \in BOOLEAN /\ e.polled \in BOOLEAN /\ e.ref \in Nat
         /\ e.sending \in BOOLEAN /\ e.added \in BOOLEAN /\ e.slots \in [Index -> Index]
         /\ e.valid \in [Index -> BOOLEAN] /\ e.start \in Index /\ e.end \in Index
BY DEF Entry

LEMMA MarkedFacts ==
  ASSUME NEW e \in Entry, NEW rm \in BOOLEAN, NEW disc \in BOOLEAN
  PROVE  /\ Marked(e, rm, disc) \in Entry
         /\ Marked(e, rm, disc).used = e.used /\ Marked(e, rm, disc).ref = e.ref
         /\ Marked(e, rm, disc).cookie = e.cookie /\ Marked(e, rm, disc).polled = e.polled
         /\ Marked(e, rm, disc).sending = e.sending
BY DEF Marked, Entry, AnyFd, Tells

LEMMA ReleasedFacts ==
  ASSUME NEW e \in Entry, e.ref >= 1
  PROVE  /\ Released(e) \in Entry
         /\ Released(e).used = e.used /\ Released(e).ref = e.ref - 1
         /\ Released(e).cookie = e.cookie /\ Released(e).polled = e.polled
         /\ Released(e).sending = e.sending
BY DEF Released, Entry

LEMMA ClearedFacts ==
  ASSUME NEW e \in Entry
  PROVE  /\ Cleared(e) \in Entry
         /\ Cleared(e).used = e.used /\ Cleared(e).ref = e.ref
         /\ Cleared(e).cookie = e.cookie /\ Cleared(e).polled = e.polled
         /\ Cleared(e).sending = FALSE
BY DEF Cleared, Entry

LEMMA CleanedFacts ==
  ASSUME NEW e \in Entry
  PROVE  /\ Cleaned(e) \in Entry
         /\ Cleaned(e).used = e.used /\ Cleaned(e).ref = e.ref
         /\ Cleaned(e).cookie = e.cookie /\ Cleaned(e).polled = e.polled
         /\ Cleaned(e).sending = FALSE
<1>. USE MxtAssumption DEF Index
<1>. DEFINE v == [j \in Index |-> e.valid[j] /\ ~(e.start <= j /\ j < e.end)]
            q == [j \in Index |-> IF e.start <= j /\ j < e.end THEN 0 ELSE e.slots[j]]
            c == Cleared(e)
<1>1. v \in [Index -> BOOLEAN] /\ q \in [Index -> Index]
  <2>1. e.valid \in [Index -> BOOLEAN] /\ e.slots \in [Index -> Index]
    BY EntryFields
  <2>2. 0 \in Index
    OBVIOUS
  <2>3. \A j \in Index : (IF e.start <= j /\ j < e.end THEN 0 ELSE e.slots[j]) \in Index
    BY <2>1, <2>2
  <2>4. \A j \in Index : (e.valid[j] /\ ~(e.start <= j /\ j < e.end)) \in BOOLEAN
    OBVIOUS
  <2>. QED
    BY <2>3, <2>4
<1>2. Cleaned(e) = [c EXCEPT !.valid = v, !.slots = q]
  BY DEF Cleaned, Cleared, Entry
<1>3. c \in Entry
  BY ClearedFacts
<1>. HIDE DEF v, q, c
<1>4. Cleaned(e) \in Entry
  BY <1>1, <1>2, <1>3 DEF Entry
<1>5. /\ Cleaned(e).used = c.used /\ Cleaned(e).ref = c.ref
      /\ Cleaned(e).cookie = c.cookie /\ Cleaned(e).polled = c.polled
      /\ Cleaned(e).sending = c.sending
  BY <1>2, <1>3 DEF Entry
<1>. QED
  BY <1>4, <1>5, ClearedFacts DEF c

LEMMA QueueFacts ==
  ASSUME NEW e \in Entry, NEW i \in Index
  PROVE  /\ Queue(e, i) \in Entry
         /\ Queue(e, i).used = e.used /\ Queue(e, i).ref = e.ref
         /\ Queue(e, i).cookie = e.cookie /\ Queue(e, i).polled = e.polled
         /\ Queue(e, i).sending = e.sending
<1>. USE MxtAssumption DEF Index
<1>. DEFINE n == (e.end + 1) % BufCnt
            q == [e.slots EXCEPT ![e.end] = i]
            v == [e.valid EXCEPT ![e.end] = TRUE]
            b == IF e.added THEN e.start ELSE e.end
<1>1. n \in Index /\ b \in Index /\ q \in [Index -> Index] /\ v \in [Index -> BOOLEAN]
  <2>1. /\ e.end \in Index /\ e.start \in Index /\ e.end \in Nat /\ BufCnt \in Nat \ {0}
        /\ e.slots \in [Index -> Index] /\ e.valid \in [Index -> BOOLEAN]
    BY EntryFields
  <2>2. n \in Index /\ b \in Index
    BY <2>1
  <2>. HIDE DEF Index
  <2>3. q \in [Index -> Index] /\ v \in [Index -> BOOLEAN]
    BY <2>1
  <2>. QED
    BY <2>2, <2>3
<1>2. Queue(e, i) = [e EXCEPT !.slots = q, !.valid = v, !.start = b, !.added = TRUE, !.end = n]
  BY DEF Queue, Entry
<1>. HIDE DEF n, q, v, b
<1>. QED
  BY <1>1, <1>2 DEF Entry

LEMMA NewEntryFacts ==
  ASSUME NEW c \in 0 .. MaxConn
  PROVE  /\ NewEntry(c) \in Entry
         /\ NewEntry(c).used /\ NewEntry(c).ref = 0 /\ NewEntry(c).cookie = c
<1>1. NoEntry \in Entry
  <2>1. 0 \in Index /\ 0 \in 0 .. MaxConn
    BY MxtAssumption DEF Index
  <2>2. [i \in Index |-> 0] \in [Index -> Index] /\ [i \in Index |-> FALSE] \in [Index -> BOOLEAN]
    BY <2>1
  <2>. QED
    BY <2>1, <2>2 DEF NoEntry, Entry, AnyFd
<1>2. NewEntry(c) = [NoEntry EXCEPT !.used = TRUE, !.polled = TRUE, !.cookie = c]
  BY DEF NewEntry
<1>3. NoEntry.ref = 0
  BY DEF NoEntry
<1>. HIDE DEF NoEntry
<1>. QED
  BY <1>1, <1>2, <1>3 DEF Entry

LEMMA EntFrame ==
  ASSUME TypeOK, NEW s \in Side, NEW f \in Fd, NEW e \in Entry,
         ent' = [ent EXCEPT ![s][f] = e]
  PROVE  /\ ent' \in [Side -> [Fd -> Entry]]
         /\ ent'[s][f] = e
         /\ \A t \in Side, g \in Fd : t # s \/ g # f => ent'[t][g] = ent[t][g]
BY DEF TypeOK

LEMMA TpFrame ==
  ASSUME TypeOK, NEW s \in Side, NEW f \in Fd,
         NEW p \in TThread,
         tp' = [tp EXCEPT ![s][f] = p]
  PROVE  /\ tp' \in [Side -> [Fd -> TThread]]
         /\ tp'[s][f] = p
         /\ \A t \in Side, g \in Fd : t # s \/ g # f => tp'[t][g] = tp[t][g]
BY DEF TypeOK

LEMMA VpFrame ==
  ASSUME TypeOK, NEW s \in Side,
         NEW v \in VThread,
         vp' = [vp EXCEPT ![s] = v]
  PROVE  /\ vp' \in [Side -> VThread]
         /\ vp'[s] = v
         /\ \A t \in Side : t # s => vp'[t] = vp[t]
BY DEF TypeOK

LEMMA ShutFacts ==
  ASSUME TypeOK, NEW s \in Side, NEW f \in Fd, NEW e \in Entry, Shut(s, f, e)
  PROVE  /\ sock' \in [Side -> [Fd -> Socket]]
         /\ \A t \in Side, g \in Fd : /\ sock'[t][g].conn = sock[t][g].conn
                                      /\ sock[t][g].block => sock'[t][g].block
         /\ ~e.sending => sock'[s][f].shut
<1>1. CASE e.sending
  BY <1>1 DEF Shut, TypeOK, Socket
<1>2. CASE ~e.sending
  <2>1. sock' = [sock EXCEPT ![s][f].shut = TRUE]
    BY <1>2 DEF Shut
  <2>2. sock'[s][f] = [sock[s][f] EXCEPT !.shut = TRUE]
    BY <2>1 DEF TypeOK
  <2>3. \A t \in Side, g \in Fd : t # s \/ g # f => sock'[t][g] = sock[t][g]
    BY <2>1 DEF TypeOK
  <2>4. sock'[s][f] \in Socket /\ sock'[s][f].conn = sock[s][f].conn /\ sock'[s][f].shut
        /\ sock'[s][f].block = sock[s][f].block
    <3>1. sock[s][f] \in Socket
      BY DEF TypeOK
    <3>. QED
      BY <2>2, <3>1 DEF Socket
  <2>5. sock' \in [Side -> [Fd -> Socket]]
    BY <2>1, <2>2, <2>4 DEF TypeOK
  <2>. QED
    BY <2>3, <2>4, <2>5
<1>. QED
  BY <1>1, <1>2 DEF TypeOK, Entry

LEMMA NoMsgType == NoMsg \in Msg /\ NoMsg.type = "NONE" /\ NoItem \in Item
BY MxtAssumption DEF NoMsg, Msg, NoItem, Item, Type, AnyFd, NoFd

\* The least member of a set of numbers
LEMMA MinFacts ==
  ASSUME NEW S \in SUBSET Nat, S # {}
  PROVE  Min(S) \in S
<1>. DEFINE R == OpToRel(<, Nat)
<1>2. R = {ss \in Nat \X Nat : ss[1] < ss[2]}
  BY DEF OpToRel
<1>3. PICK k \in S : \A j \in S : ~(<<j, k>> \in R)
  <2>1. IsWellFoundedOn(R, Nat)
    BY NatLessThanWellFounded
  <2>. HIDE DEF R
  <2>. QED
    BY <2>1, WFMin
<1>4. \A j \in S : k <= j
  <2>. HIDE DEF R
  <2>. SUFFICES ASSUME NEW j \in S, j < k PROVE FALSE
    OBVIOUS
  <2>1. <<j, k>> \in R
    BY <1>2
  <2>. QED
    BY <1>3, <2>1
<1>. QED
  BY <1>3, <1>4 DEF Min

LEMMA FreeSpaceType ==
  ASSUME TypeOK, NEW s \in Side
  PROVE  FreeSpace(s) \in 0 .. BufCnt /\ (FreeSpace(s) > 0 => GetBuf(s) \in Index \ alloted[s])
<1>1. IsFiniteSet(Index) /\ Cardinality(Index) = BufCnt
  BY FS_Interval, MxtAssumption DEF Index
<1>2. alloted[s] \subseteq Index
  BY DEF TypeOK
<1>3. IsFiniteSet(alloted[s]) /\ Cardinality(alloted[s]) <= Cardinality(Index)
  BY <1>1, <1>2, FS_Subset
<1>4. Cardinality(alloted[s]) \in Nat
  BY <1>3, FS_CardinalityType
<1>5. ASSUME FreeSpace(s) > 0 PROVE Index \ alloted[s] # {}
  <2>1. alloted[s] # Index
    BY <1>1, <1>5, MxtAssumption DEF FreeSpace
  <2>. QED
    BY <1>2, <2>1
<1>6. Index \ alloted[s] \subseteq Nat
  BY DEF Index
<1>. QED
  BY <1>1, <1>3, <1>4, <1>5, <1>6, MinFacts, MxtAssumption DEF FreeSpace, GetBuf

LEMMA PutFacts ==
  ASSUME TypeOK, Shapes, NEW s \in Side, NEW m \in Msg, Room(s), Put(s, m)
  PROVE  /\ chan' \in [Side -> Seq(Msg)]
         /\ \A t \in Side : Len(chan'[t]) <= QueueLen
         /\ \A t \in Side : t # s => chan'[t] = chan[t]
         /\ \A i \in DOMAIN chan'[s] :
              chan'[s][i] = m \/ (i \in DOMAIN chan[s] /\ chan'[s][i] = chan[s][i])
<1>1. chan' = [chan EXCEPT ![s] = Append(chan[s], m)] /\ Len(chan[s]) < QueueLen
  BY DEF Put, Room
<1>2. chan[s] \in Seq(Msg)
  BY DEF Shapes
<1>3. /\ Append(chan[s], m) \in Seq(Msg)
      /\ Len(Append(chan[s], m)) = Len(chan[s]) + 1
      /\ \A i \in DOMAIN Append(chan[s], m) :
           Append(chan[s], m)[i] = m
           \/ (i \in DOMAIN chan[s] /\ Append(chan[s], m)[i] = chan[s][i])
  BY <1>2
<1>4. QueueLen \in Nat /\ Len(chan[s]) \in Nat
  BY <1>2, MxtAssumption
<1>5. chan'[s] = Append(chan[s], m) /\ \A t \in Side : t # s => chan'[t] = chan[t]
  BY <1>1 DEF Shapes
<1>6. chan' \in [Side -> Seq(Msg)]
  BY <1>1, <1>3 DEF Shapes
<1>7. \A t \in Side : Len(chan'[t]) <= QueueLen
  <2>1. Len(chan'[s]) <= QueueLen
    BY <1>1, <1>3, <1>4, <1>5
  <2>. QED
    BY <2>1, <1>5 DEF TypeOK
<1>. QED
  BY <1>3, <1>5, <1>6, <1>7

\* What is put on the link keeps what is known of the requests on it.
LEMMA PutRequests ==
  ASSUME MuxInv, NEW s \in Side, NEW m \in Msg, Room(s), Put(s, m),
         Request(m) => s = "guest" /\ m.cookie # 0
  PROVE  /\ \A i \in DOMAIN chan'["guest"] :
              Request(chan'["guest"][i]) => chan'["guest"][i].cookie # 0
         /\ \A i \in DOMAIN chan'["host"] : ~Request(chan'["host"][i])
<1>1. /\ \A t \in Side : t # s => chan'[t] = chan[t]
      /\ \A i \in DOMAIN chan'[s] :
           chan'[s][i] = m \/ (i \in DOMAIN chan[s] /\ chan'[s][i] = chan[s][i])
  BY PutFacts DEF MuxInv
<1>2. CASE s = "guest"
  BY <1>1, <1>2 DEF MuxInv, Requests, Side
<1>3. CASE s = "host"
  BY <1>1, <1>3 DEF MuxInv, Requests, Side
<1>. QED
  BY <1>2, <1>3 DEF Side

-----------------------------------------------------------------------------
(* The clients, and L *)

\* A descriptor the kernel gives out is nobody's.
LEMMA FreeFdFacts ==
  ASSUME MuxInv, NEW s \in Side, FreeFds(s) # {}
  PROVE  LET f == Min(FreeFds(s)) IN
         /\ f \in Fd /\ sock[s][f].conn = 0
         /\ ~ent[s][f].used /\ ent[s][f].ref = 0
         /\ ~VHolds(s, f) /\ ~THolds(s, f)
<1>. DEFINE f == Min(FreeFds(s))
<1>1. f \in FreeFds(s)
  BY MinFacts DEF FreeFds, Fd
<1>2. f \in Fd /\ sock[s][f].conn = 0
  BY <1>1 DEF FreeFds
<1>. HIDE DEF f
<1>3. ~ent[s][f].used /\ ~(ent[s][f].ref > 0)
  BY <1>2 DEF MuxInv, Entries
<1>4. ent[s][f].ref \in Nat
  BY <1>2, EntryFields DEF MuxInv, TypeOK
<1>5. ~VHolds(s, f) /\ ~THolds(s, f)
  BY <1>2, <1>3, <1>4 DEF MuxInv, Counted
<1>. QED
  BY <1>2, <1>3, <1>4, <1>5 DEF f

LEMMA OpenStep ==
  ASSUME MuxInv, History', Open
  PROVE  MuxInv'
<1>. DEFINE f == Min(FreeFds("guest"))
            c == opened + 1
<1>1. /\ f \in Fd /\ sock["guest"][f].conn = 0
      /\ ~ent["guest"][f].used /\ ent["guest"][f].ref = 0
      /\ ~VHolds("guest", f) /\ ~THolds("guest", f)
  BY FreeFdFacts DEF Open, Side
<1>2. c \in 1 .. MaxConn /\ c \in 0 .. MaxConn
  BY MxtAssumption DEF Open, MuxInv, TypeOK
<1>3. /\ sock' = [sock EXCEPT !["guest"][f] = NewSocket("guest", c)]
      /\ ent' = [ent EXCEPT !["guest"][f] = NewEntry(c)]
      /\ opened' = c
      /\ UNCHANGED <<wrote, took, got, chan, flow, pool, lp, vp, tp>>
  BY DEF Open
<1>. HIDE DEF f, c
<1>4. /\ NewEntry(c) \in Entry
      /\ NewEntry(c).used /\ NewEntry(c).ref = 0 /\ NewEntry(c).cookie = c
  BY <1>2, NewEntryFacts
<1>5. /\ ent' \in [Side -> [Fd -> Entry]]
      /\ ent'["guest"][f] = NewEntry(c)
      /\ \A t \in Side, g \in Fd : t # "guest" \/ g # f => ent'[t][g] = ent[t][g]
  BY <1>1, <1>3, <1>4, EntFrame DEF MuxInv, Side
<1>6. /\ NewSocket("guest", c) \in Socket /\ NewSocket("guest", c).conn = c
  BY <1>2 DEF NewSocket, NoSocket, Socket
<1>7. /\ sock' \in [Side -> [Fd -> Socket]]
      /\ sock'["guest"][f] = NewSocket("guest", c)
      /\ \A t \in Side, g \in Fd : t # "guest" \/ g # f => sock'[t][g] = sock[t][g]
  BY <1>1, <1>3, <1>6 DEF MuxInv, TypeOK, Side
<1>8. TypeOK' /\ Shapes'
  BY <1>2, <1>3, <1>5, <1>7 DEF MuxInv, TypeOK, Shapes, flow, pool, History
<1>9. Work'
  BY <1>3 DEF MuxInv, Work
<1>10. Counted'
  BY <1>1, <1>3, <1>5 DEF MuxInv, Counted, VHolds, THolds
<1>11. OneWriter'
  BY <1>1, <1>3, <1>5, <1>7 DEF MuxInv, OneWriter, VHolds, THolds
<1>12. Requests'
  BY <1>2, <1>3, <1>4, <1>5 DEF MuxInv, Requests, Side
<1>13. Entries'
  BY <1>2, <1>3, <1>4, <1>5, <1>6, <1>7 DEF MuxInv, Entries
<1>. QED
  BY <1>8, <1>9, <1>10, <1>11, <1>12, <1>13 DEF MuxInv

LEMMA WriteStep ==
  ASSUME MuxInv, History', NEW s \in Side, NEW f \in Fd, Write(s, f)
  PROVE  MuxInv'
<1>. DEFINE c == sock[s][f].conn
<1>1. /\ wrote[c][s] < MaxData /\ <<c, s>> \in Writers
      /\ wrote' = [wrote EXCEPT ![c][s] = @ + 1]
      /\ UNCHANGED <<ent, sock, took, got, opened, chan, flow, pool, lp, vp, tp>>
  BY DEF Write
<1>2. c \in Conn
  BY <1>1, MxtAssumption
<1>. HIDE DEF c
<1>3. wrote' \in [Conn -> [Side -> 0 .. MaxData]]
  <2>1. wrote[c][s] + 1 \in 0 .. MaxData
    BY <1>1, <1>2, MxtAssumption DEF MuxInv, TypeOK
  <2>. QED
    BY <1>1, <1>2, <2>1 DEF MuxInv, TypeOK
<1>4. TypeOK' /\ Shapes'
  BY <1>1, <1>3 DEF MuxInv, TypeOK, Shapes, flow, pool, History
<1>5. Work' /\ Counted' /\ OneWriter' /\ Requests' /\ Entries'
  BY <1>1 DEF MuxInv, Work, Counted, OneWriter, Requests, Entries, VHolds, THolds
<1>. QED
  BY <1>4, <1>5 DEF MuxInv

LEMMA CloseStep ==
  ASSUME MuxInv, History', NEW s \in Side, NEW f \in Fd, Close(s, f)
  PROVE  MuxInv'
<1>1. /\ sock' = [sock EXCEPT ![s][f].gone = TRUE]
      /\ UNCHANGED <<ent, clients, chan, flow, pool, lp, vp, tp>>
  BY DEF Close
<1>2. /\ sock' \in [Side -> [Fd -> Socket]]
      /\ \A t \in Side, g \in Fd : /\ sock'[t][g].conn = sock[t][g].conn
                                   /\ sock'[t][g].block = sock[t][g].block
  <2>1. sock[s][f] \in Socket
    BY DEF MuxInv, TypeOK
  <2>2. sock'[s][f] = [sock[s][f] EXCEPT !.gone = TRUE]
    BY <1>1 DEF MuxInv, TypeOK
  <2>3. \A t \in Side, g \in Fd : t # s \/ g # f => sock'[t][g] = sock[t][g]
    BY <1>1 DEF MuxInv, TypeOK
  <2>4. /\ sock'[s][f] \in Socket /\ sock'[s][f].conn = sock[s][f].conn
        /\ sock'[s][f].block = sock[s][f].block
    BY <2>1, <2>2 DEF Socket
  <2>5. sock' \in [Side -> [Fd -> Socket]]
    BY <1>1, <2>2, <2>4 DEF MuxInv, TypeOK
  <2>. QED
    BY <2>3, <2>4, <2>5
<1>3. TypeOK' /\ Shapes'
  BY <1>1, <1>2 DEF MuxInv, TypeOK, Shapes, clients, flow, pool, History
<1>4. Work' /\ Counted' /\ Requests'
  BY <1>1 DEF MuxInv, Work, Counted, Requests, VHolds, THolds
<1>5. OneWriter' /\ Entries'
  BY <1>1, <1>2 DEF MuxInv, OneWriter, Entries
<1>. QED
  BY <1>3, <1>4, <1>5 DEF MuxInv

LEMMA FarewellType ==
  ASSUME NEW e \in Entry
  PROVE  Farewell(e) \in Msg /\ ~Request(Farewell(e))
<1>1. Farewell(e) = [NoMsg EXCEPT !.type = "DISCONNECT", !.dst = e.peer, !.cookie = e.cookie]
  BY DEF Farewell
<1>2. e.peer \in AnyFd /\ e.cookie \in 0 .. MaxConn
  BY EntryFields
<1>. QED
  BY <1>1, <1>2, NoMsgType DEF Msg, Type, Request

\* L takes up a message for f.
LEMMA LSends ==
  ASSUME MuxInv, NEW s \in Side, NEW f \in Fd, NEW m \in Msg,
         lp' = [lp EXCEPT ![s] = [pc |-> "send", fd |-> f, out |-> m]],
         Request(m) => s = "guest" /\ m.cookie # 0
  PROVE  /\ lp' \in [Side -> LThread]
         /\ \A t \in Side : lp'[t].pc # "poll" => lp'[t].fd \in Fd
         /\ Request(lp'["guest"].out) => lp'["guest"].out.cookie # 0
         /\ ~Request(lp'["host"].out)
<1>1. [pc |-> "send", fd |-> f, out |-> m] \in LThread
  BY DEF LThread, AnyFd
<1>2. lp' \in [Side -> LThread]
  BY <1>1 DEF MuxInv, TypeOK
<1>3. lp'[s].fd = f /\ lp'[s].out = m /\ \A t \in Side : t # s => lp'[t] = lp[t]
  BY DEF MuxInv, TypeOK
<1>4. \A t \in Side : lp'[t].pc # "poll" => lp'[t].fd \in Fd
  BY <1>3 DEF MuxInv, Work
<1>5. CASE s = "guest"
  BY <1>2, <1>3, <1>4, <1>5 DEF MuxInv, Requests, Side
<1>6. CASE s = "host"
  BY <1>2, <1>3, <1>4, <1>6 DEF MuxInv, Requests, Side
<1>. QED
  BY <1>5, <1>6 DEF Side

LEMMA LMarkStep ==
  ASSUME MuxInv, History', NEW s \in Side, NEW f \in Fd, NEW disc \in BOOLEAN, LMark(s, f, disc)
  PROVE  MuxInv'
<1>. DEFINE e == ent[s][f]
            m == Marked(e, TRUE, disc)
            n == [m EXCEPT !.polled = FALSE]
<1>1. /\ ent' = [ent EXCEPT ![s][f] = n]
      /\ Shut(s, f, e)
      /\ UNCHANGED <<clients, chan, flow, pool, vp, tp>>
      /\ lp' = IF Tells(e, disc)
                 THEN [lp EXCEPT ![s] = [pc |-> "send", fd |-> f, out |-> Farewell(e)]]
                 ELSE lp
  BY DEF LMark
<1>2. e \in Entry
  BY DEF MuxInv, TypeOK
<1>. HIDE DEF e
<1>3. /\ m \in Entry /\ m.used = e.used /\ m.ref = e.ref
      /\ m.cookie = e.cookie /\ m.sending = e.sending
  BY <1>2, MarkedFacts
<1>. HIDE DEF m
<1>4. /\ n \in Entry /\ n.used = e.used /\ n.ref = e.ref
      /\ n.cookie = e.cookie /\ n.sending = e.sending /\ ~n.polled
  BY <1>3 DEF Entry
<1>. HIDE DEF n
<1>5. /\ ent' \in [Side -> [Fd -> Entry]]
      /\ ent'[s][f] = n
      /\ \A t \in Side, g \in Fd : t # s \/ g # f => ent'[t][g] = ent[t][g]
  BY <1>1, <1>4, EntFrame DEF MuxInv
<1>6. /\ sock' \in [Side -> [Fd -> Socket]]
      /\ \A t \in Side, g \in Fd : /\ sock'[t][g].conn = sock[t][g].conn
                                   /\ sock[t][g].block => sock'[t][g].block
  BY <1>1, <1>2, ShutFacts DEF MuxInv
<1>7. /\ lp' \in [Side -> LThread]
      /\ \A t \in Side : lp'[t].pc # "poll" => lp'[t].fd \in Fd
      /\ Request(lp'["guest"].out) => lp'["guest"].out.cookie # 0
      /\ ~Request(lp'["host"].out)
  <2>1. CASE Tells(e, disc)
    BY <1>1, <1>2, <2>1, FarewellType, LSends
  <2>2. CASE ~Tells(e, disc)
    BY <1>1, <2>2 DEF MuxInv, TypeOK, Work, Requests
  <2>. QED
    BY <2>1, <2>2
<1>8. TypeOK' /\ Shapes'
  BY <1>1, <1>5, <1>6, <1>7 DEF MuxInv, TypeOK, Shapes, clients, flow, pool, History
<1>9. Work'
  BY <1>1, <1>7 DEF MuxInv, Work
<1>10. Counted'
  BY <1>1, <1>4, <1>5 DEF MuxInv, Counted, VHolds, THolds, e
<1>14. \A t \in Side, g \in Fd :
         /\ ent'[t][g].used <=> ent[t][g].used
         /\ ent'[t][g].ref = ent[t][g].ref
         /\ ent'[t][g].sending <=> ent[t][g].sending
         /\ ent'[t][g].polled => ent[t][g].polled
  <2>. SUFFICES ASSUME NEW t \in Side, NEW g \in Fd
                PROVE  /\ ent'[t][g].used <=> ent[t][g].used
                       /\ ent'[t][g].ref = ent[t][g].ref
                       /\ ent'[t][g].sending <=> ent[t][g].sending
                       /\ ent'[t][g].polled => ent[t][g].polled
    OBVIOUS
  <2>1. CASE t = s /\ g = f
    BY <1>4, <1>5, <2>1 DEF e
  <2>2. CASE t # s \/ g # f
    BY <1>5, <2>2
  <2>. QED
    BY <2>1, <2>2
<1>11. OneWriter'
  BY <1>1, <1>6, <1>14 DEF MuxInv, OneWriter
<1>12. Requests'
  BY <1>1, <1>4, <1>5, <1>7 DEF MuxInv, Requests, Side, e
<1>13. Entries'
  BY <1>6, <1>14 DEF MuxInv, Entries
<1>. QED
  BY <1>8, <1>9, <1>10, <1>11, <1>12, <1>13 DEF MuxInv

\* Steps of L that only take up a message
LEMMA LQuiet ==
  ASSUME MuxInv, History', NEW s \in Side, NEW f \in Fd, NEW m \in Msg,
         lp' = [lp EXCEPT ![s] = [pc |-> "send", fd |-> f, out |-> m]],
         Request(m) => s = "guest" /\ m.cookie # 0,
         took' \in [Conn -> [Side -> 0 .. MaxData]],
         asked' \in [Side -> BOOLEAN],
         UNCHANGED <<ent, sock, wrote, got, opened, chan, win, pool, vp, tp>>
  PROVE  MuxInv'
<1>1. /\ lp' \in [Side -> LThread]
      /\ \A t \in Side : lp'[t].pc # "poll" => lp'[t].fd \in Fd
      /\ Request(lp'["guest"].out) => lp'["guest"].out.cookie # 0
      /\ ~Request(lp'["host"].out)
  BY LSends
<1>2. TypeOK' /\ Shapes'
  BY <1>1 DEF MuxInv, TypeOK, Shapes, pool, History
<1>3. Work' /\ Requests'
  BY <1>1 DEF MuxInv, Work, Requests
<1>4. Counted' /\ OneWriter' /\ Entries'
  BY DEF MuxInv, Counted, OneWriter, Entries, VHolds, THolds
<1>. QED
  BY <1>2, <1>3, <1>4 DEF MuxInv

LEMMA LHandshakeStep ==
  ASSUME MuxInv, History', NEW s \in Side, NEW f \in Fd, LHandshake(s, f)
  PROVE  MuxInv'
<1>. DEFINE e == ent[s][f]
            m == [NoMsg EXCEPT !.type = "NEW_CONNECTION", !.src = f, !.cookie = e.cookie]
<1>1. /\ lp' = [lp EXCEPT ![s] = [pc |-> "send", fd |-> f, out |-> m]]
      /\ UNCHANGED <<ent, sock, clients, chan, flow, pool, vp, tp>>
      /\ s = "guest" /\ e.polled
  BY DEF LHandshake, Hello, Event
<1>2. e \in Entry /\ e.cookie # 0
  <2>1. e.used
    BY <1>1 DEF MuxInv, Entries
  <2>2. ent["guest"][f].used
    BY <1>1, <2>1
  <2>3. ent["guest"][f].cookie # 0
    BY <2>2 DEF MuxInv, Requests
  <2>. QED
    BY <1>1, <2>3 DEF MuxInv, TypeOK
<1>. HIDE DEF e
<1>3. e.cookie \in 0 .. MaxConn
  BY <1>2, EntryFields
<1>4. m \in Msg /\ m.cookie = e.cookie
  BY <1>3, NoMsgType DEF Msg, Type, AnyFd
<1>. HIDE DEF m
<1>5. took' \in [Conn -> [Side -> 0 .. MaxData]] /\ asked' \in [Side -> BOOLEAN]
  BY <1>1 DEF MuxInv, TypeOK, clients, flow
<1>6. UNCHANGED <<wrote, took, got, opened, win, asked>>
  BY <1>1 DEF clients, flow
<1>. QED
  BY <1>1, <1>2, <1>4, <1>5, <1>6, LQuiet

LEMMA LAskStep ==
  ASSUME MuxInv, History', NEW s \in Side, NEW f \in Fd, LAsk(s, f)
  PROVE  MuxInv'
<1>. DEFINE m == [NoMsg EXCEPT !.type = "WINDOW_SIZE_UPDATE", !.win = FreeSpace(s)]
<1>1. /\ lp' = [lp EXCEPT ![s] = [pc |-> "send", fd |-> f, out |-> m]]
      /\ asked' = [asked EXCEPT ![s] = TRUE]
      /\ UNCHANGED <<ent, sock, clients, chan, win, pool, vp, tp>>
  BY DEF LAsk
<1>2. FreeSpace(s) \in 0 .. BufCnt
  BY FreeSpaceType DEF MuxInv
<1>3. m \in Msg /\ ~Request(m)
  BY <1>2, NoMsgType DEF Msg, Type, Request
<1>. HIDE DEF m
<1>4. took' \in [Conn -> [Side -> 0 .. MaxData]] /\ asked' \in [Side -> BOOLEAN]
  BY <1>1 DEF MuxInv, TypeOK, clients
<1>5. UNCHANGED <<wrote, took, got, opened, win>>
  BY <1>1 DEF clients
<1>. QED
  BY <1>1, <1>3, <1>4, <1>5, LQuiet

LEMMA LReadStep ==
  ASSUME MuxInv, History', NEW s \in Side, NEW f \in Fd, LRead(s, f)
  PROVE  MuxInv'
<1>. DEFINE c == sock[s][f].conn
            p == ent[s][f].peer
            i == [conn |-> c, item |-> took[c][s] + 1]
            m == [NoMsg EXCEPT !.type = "DATA", !.src = f, !.dst = p, !.data = i]
<1>1. /\ lp' = [lp EXCEPT ![s] = [pc |-> "send", fd |-> f, out |-> m]]
      /\ took' = [took EXCEPT ![c][s] = @ + 1]
      /\ c # 0 /\ took[c][s] < wrote[c][s]
      /\ UNCHANGED <<ent, sock, wrote, got, opened, chan, flow, pool, vp, tp>>
  BY DEF LRead, Readable, Unread
<1>2. c \in Conn /\ c \in 0 .. MaxConn
  <2>1. sock[s][f] \in Socket
    BY DEF MuxInv, TypeOK
  <2>. QED
    BY <1>1, <2>1, MxtAssumption DEF Socket, Conn
<1>3. p \in AnyFd
  BY EntryFields DEF MuxInv, TypeOK
<1>. HIDE DEF c, p
<1>4. took[c][s] + 1 \in 0 .. MaxData
  BY <1>1, <1>2, MxtAssumption DEF MuxInv, TypeOK
<1>5. i \in Item
  BY <1>2, <1>4 DEF Item
<1>. HIDE DEF i
<1>6. m \in Msg /\ ~Request(m)
  BY <1>3, <1>5, NoMsgType DEF Msg, Type, AnyFd, Request
<1>. HIDE DEF m
<1>7. took' \in [Conn -> [Side -> 0 .. MaxData]]
  BY <1>1, <1>2, <1>4 DEF MuxInv, TypeOK
<1>8. asked' \in [Side -> BOOLEAN] /\ UNCHANGED win
  BY <1>1 DEF MuxInv, TypeOK, flow
<1>. QED
  BY <1>1, <1>6, <1>7, <1>8, LQuiet

LEMMA LSentStep ==
  ASSUME MuxInv, History', NEW s \in Side, LSent(s)
  PROVE  MuxInv'
<1>. DEFINE m == lp[s].out
            l == [lp[s] EXCEPT !.pc = "sent"]
<1>1. /\ lp[s].pc = "send" /\ Room(s) /\ Put(s, m)
      /\ lp' = [lp EXCEPT ![s].pc = "sent"]
      /\ UNCHANGED <<ent, sock, clients, flow, pool, vp, tp>>
  BY DEF LSent
<1>2. m \in Msg /\ (Request(m) => s = "guest" /\ m.cookie # 0)
  BY <1>1 DEF MuxInv, TypeOK, LThread, Requests, Side, Request
<1>3. /\ l \in LThread /\ l.fd = lp[s].fd /\ l.out = m /\ lp[s].fd \in Fd
  BY <1>1 DEF MuxInv, TypeOK, LThread, Work
<1>4. lp' = [lp EXCEPT ![s] = l]
  BY <1>1 DEF MuxInv, TypeOK
<1>. HIDE DEF m, l
<1>5. /\ lp' \in [Side -> LThread]
      /\ lp'[s] = l
      /\ \A t \in Side : t # s => lp'[t] = lp[t]
  BY <1>3, <1>4 DEF MuxInv, TypeOK
<1>6. /\ chan' \in [Side -> Seq(Msg)]
      /\ \A t \in Side : Len(chan'[t]) <= QueueLen
  BY <1>1, <1>2, PutFacts DEF MuxInv
<1>7. TypeOK' /\ Shapes'
  BY <1>1, <1>5, <1>6 DEF MuxInv, TypeOK, Shapes, clients, flow, pool, History
<1>8. Work'
  BY <1>1, <1>3, <1>5 DEF MuxInv, Work
<1>9. Counted' /\ OneWriter' /\ Entries'
  BY <1>1 DEF MuxInv, Counted, OneWriter, Entries, VHolds, THolds
<1>10. Requests'
  <2>1. /\ \A i \in DOMAIN chan'["guest"] :
             Request(chan'["guest"][i]) => chan'["guest"][i].cookie # 0
        /\ \A i \in DOMAIN chan'["host"] : ~Request(chan'["host"][i])
    BY <1>1, <1>2, PutRequests
  <2>2. /\ Request(lp'["guest"].out) => lp'["guest"].out.cookie # 0
        /\ ~Request(lp'["host"].out)
    <3>1. lp'["guest"].out = lp["guest"].out /\ lp'["host"].out = lp["host"].out
      BY <1>3, <1>5 DEF Side, m
    <3>. QED
      BY <3>1 DEF MuxInv, Requests
  <2>. QED
    BY <1>1, <2>1, <2>2 DEF MuxInv, Requests
<1>. QED
  BY <1>7, <1>8, <1>9, <1>10 DEF MuxInv

LEMMA LReturnStep ==
  ASSUME MuxInv, History', NEW s \in Side, LReturn(s)
  PROVE  MuxInv'
<1>. DEFINE m == lp[s].out
            f == lp[s].fd
            e == ent[s][f]
            n == [e EXCEPT !.first = TRUE, !.target = TRUE]
<1>1. /\ lp[s].pc = "sent"
      /\ lp' = [lp EXCEPT ![s] = IdleL]
      /\ m.type = "NEW_CONNECTION" =>
           ent' = [ent EXCEPT ![s][f].first = TRUE, ![s][f].target = TRUE]
      /\ m.type # "NEW_CONNECTION" => ent' = ent
      /\ win' = (IF m.type = "DATA" THEN [win EXCEPT ![s] = @ - 1] ELSE win)
      /\ UNCHANGED <<sock, clients, chan, asked, pool, vp, tp>>
  BY DEF LReturn
<1>2. f \in Fd
  BY <1>1 DEF MuxInv, Work
<1>3. e \in Entry
  BY <1>2 DEF MuxInv, TypeOK
<1>4. IdleL \in LThread /\ IdleL.pc = "poll" /\ ~Request(IdleL.out)
  BY NoMsgType DEF IdleL, LThread, AnyFd, Request
<1>5. m.type = "NEW_CONNECTION" => ent' = [ent EXCEPT ![s][f] = n]
  BY <1>1, <1>2 DEF MuxInv, TypeOK
<1>6. win' \in [Side -> Int]
  BY <1>1 DEF MuxInv, TypeOK
<1>. HIDE DEF e, m, f, IdleL
<1>7. /\ n \in Entry /\ n.used = e.used /\ n.ref = e.ref /\ n.polled = e.polled
      /\ n.cookie = e.cookie /\ n.sending = e.sending
  BY <1>3 DEF Entry
<1>. HIDE DEF n
<1>8. /\ ent' \in [Side -> [Fd -> Entry]]
      /\ \A t \in Side, g \in Fd :
           /\ ent'[t][g].used <=> ent[t][g].used
           /\ ent'[t][g].ref = ent[t][g].ref /\ ent'[t][g].cookie = ent[t][g].cookie
           /\ ent'[t][g].sending <=> ent[t][g].sending
           /\ ent'[t][g].polled <=> ent[t][g].polled
  <2>1. CASE m.type # "NEW_CONNECTION"
    BY <1>1, <2>1 DEF MuxInv, TypeOK
  <2>2. CASE m.type = "NEW_CONNECTION"
    <3>1. /\ ent' \in [Side -> [Fd -> Entry]]
          /\ ent'[s][f] = n
          /\ \A t \in Side, g \in Fd : t # s \/ g # f => ent'[t][g] = ent[t][g]
      BY <1>2, <1>5, <1>7, <2>2, EntFrame DEF MuxInv
    <3>2. \A t \in Side, g \in Fd : t = s /\ g = f => ent'[t][g] = n /\ ent[t][g] = e
      BY <3>1 DEF e
    <3>. QED
      BY <1>7, <3>1, <3>2
  <2>. QED
    BY <2>1, <2>2
<1>9. /\ lp' \in [Side -> LThread]
      /\ lp'[s] = IdleL
      /\ \A t \in Side : t # s => lp'[t] = lp[t]
  BY <1>1, <1>4 DEF MuxInv, TypeOK
<1>10. TypeOK' /\ Shapes'
  BY <1>1, <1>6, <1>8, <1>9 DEF MuxInv, TypeOK, Shapes, clients, pool, History
<1>11. Work'
  BY <1>1, <1>4, <1>9 DEF MuxInv, Work
<1>12. Counted' /\ OneWriter' /\ Entries'
  <2>1. Counted'
    BY <1>1, <1>8 DEF MuxInv, Counted, VHolds, THolds
  <2>2. OneWriter'
    BY <1>1, <1>8 DEF MuxInv, OneWriter
  <2>3. Entries'
    BY <1>1, <1>8 DEF MuxInv, Entries
  <2>. QED
    BY <2>1, <2>2, <2>3
<1>13. Requests'
  <2>1. /\ Request(lp'["guest"].out) => lp'["guest"].out.cookie # 0
        /\ ~Request(lp'["host"].out)
    BY <1>4, <1>9 DEF MuxInv, Requests, Side
  <2>. QED
    BY <1>1, <1>8, <2>1 DEF MuxInv, Requests, Side
<1>. QED
  BY <1>10, <1>11, <1>12, <1>13 DEF MuxInv

\* The collection takes only entries nobody holds.
LEMMA LCollectStep ==
  ASSUME MuxInv, History', NEW s \in Side, LCollect(s)
  PROVE  MuxInv'
<1>. DEFINE C == Collectable(s)
            q == UNION {Queued(ent[s][f]) : f \in Collectable(s)}
<1>1. /\ ent' = [ent EXCEPT ![s] = [f \in Fd |-> IF f \in C THEN NoEntry ELSE @[f]]]
      /\ sock' = [sock EXCEPT ![s] = [f \in Fd |-> IF f \in C THEN NoSocket ELSE @[f]]]
      /\ alloted' = [alloted EXCEPT ![s] = @ \ q]
      /\ buf' = [buf EXCEPT ![s] = [i \in Index |-> IF i \in q THEN NoItem ELSE @[i]]]
      /\ UNCHANGED <<clients, chan, flow, lp, vp, tp>>
  BY DEF LCollect
<1>2. \A f \in C : f \in Fd /\ ent[s][f].ref = 0
  BY DEF Collectable
<1>. HIDE DEF C, q
<1>3. \A f \in C : ~VHolds(s, f) /\ ~THolds(s, f)
  BY <1>2 DEF MuxInv, Counted
<1>4. /\ NoEntry \in Entry /\ ~NoEntry.used /\ ~NoEntry.polled /\ NoEntry.ref = 0
      /\ NoSocket \in Socket /\ NoSocket.conn = 0
  <2>1. 0 \in Index /\ 0 \in 0 .. MaxConn
    BY MxtAssumption DEF Index
  <2>2. [i \in Index |-> 0] \in [Index -> Index] /\ [i \in Index |-> FALSE] \in [Index -> BOOLEAN]
    BY <2>1
  <2>3. NoEntry \in Entry
    BY <2>1, <2>2 DEF NoEntry, Entry, AnyFd
  <2>4. ~NoEntry.used /\ ~NoEntry.polled /\ NoEntry.ref = 0
    BY DEF NoEntry
  <2>. QED
    BY <2>1, <2>3, <2>4 DEF NoSocket, Socket
<1>5. /\ ent' \in [Side -> [Fd -> Entry]]
      /\ \A f \in Fd : ent'[s][f] = IF f \in C THEN NoEntry ELSE ent[s][f]
      /\ \A t \in Side : t # s => ent'[t] = ent[t]
  <2>1. [f \in Fd |-> IF f \in C THEN NoEntry ELSE ent[s][f]] \in [Fd -> Entry]
    BY <1>4 DEF MuxInv, TypeOK
  <2>. QED
    BY <1>1, <2>1 DEF MuxInv, TypeOK
<1>6. /\ sock' \in [Side -> [Fd -> Socket]]
      /\ \A f \in Fd : sock'[s][f] = IF f \in C THEN NoSocket ELSE sock[s][f]
      /\ \A t \in Side : t # s => sock'[t] = sock[t]
  <2>1. [f \in Fd |-> IF f \in C THEN NoSocket ELSE sock[s][f]] \in [Fd -> Socket]
    BY <1>4 DEF MuxInv, TypeOK
  <2>. QED
    BY <1>1, <2>1 DEF MuxInv, TypeOK
<1>7. alloted' \in [Side -> SUBSET Index] /\ buf' \in [Side -> [Index -> Item]]
  <2>1. [i \in Index |-> IF i \in q THEN NoItem ELSE buf[s][i]] \in [Index -> Item]
    BY NoMsgType DEF MuxInv, TypeOK
  <2>2. alloted[s] \ q \in SUBSET Index
    BY DEF MuxInv, TypeOK
  <2>. QED
    BY <1>1, <2>1, <2>2 DEF MuxInv, TypeOK
<1>8. TypeOK' /\ Shapes'
  BY <1>1, <1>5, <1>6, <1>7 DEF MuxInv, TypeOK, Shapes, clients, flow, History
<1>9. Work'
  BY <1>1 DEF MuxInv, Work
<1>10. \A t \in Side, g \in Fd :
         t # s \/ g \notin C => ent'[t][g] = ent[t][g] /\ sock'[t][g] = sock[t][g]
  BY <1>5, <1>6
<1>11. \A t \in Side, g \in Fd : VHolds(t, g)' \/ THolds(t, g)' => t # s \/ g \notin C
  BY <1>1, <1>3 DEF VHolds, THolds
<1>12. Counted'
  BY <1>1, <1>10, <1>11 DEF MuxInv, Counted, VHolds, THolds
<1>13. OneWriter'
  BY <1>1, <1>10, <1>11 DEF MuxInv, OneWriter, VHolds, THolds
<1>14. Requests'
  BY <1>1, <1>4, <1>5 DEF MuxInv, Requests, Side
<1>15. Entries'
  BY <1>4, <1>5, <1>6 DEF MuxInv, Entries
<1>. QED
  BY <1>8, <1>9, <1>12, <1>13, <1>14, <1>15 DEF MuxInv

-----------------------------------------------------------------------------
(* V *)


\* What V may have in hand, on side s
Sound(s, v) ==
  /\ v \in VThread
  /\ v.pc # "idle" => v.idx \in Index
  /\ v.pc \in {"check", "write", "abort"} => v.msg.type = "DATA"
  /\ v.pc = "ack" => v.msg.type = "NEW_CONNECTION_ACK"
  /\ v.pc = "map" => v.msg.type = "NEW_CONNECTION"
  /\ v.pc \in {"ack", "check", "write", "map", "abort"} => v.fd \in Fd
  /\ v.pc = "send" /\ v.msg.type = "DATA" => v.fd \in Fd
  /\ Request(v.msg) => s = "host" /\ v.msg.cookie # 0
  /\ ~Request(v.out)

\* The entries and their sockets as far as the references go
SameEntries ==
  \A t \in Side, g \in Fd :
    /\ ent'[t][g].used <=> ent[t][g].used
    /\ ent'[t][g].ref = ent[t][g].ref
    /\ ent'[t][g].sending <=> ent[t][g].sending
    /\ ent'[t][g].polled <=> ent[t][g].polled
    /\ sock'[t][g].conn = sock[t][g].conn
    /\ sock[t][g].block => sock'[t][g].block

\* Every guest entry names its connection, and no host asks for one.
GuestCookies == \A f \in Fd : ent["guest"][f].used => ent["guest"][f].cookie # 0
LinkRequests ==
  /\ \A i \in DOMAIN chan["guest"] :
       Request(chan["guest"][i]) => chan["guest"][i].cookie # 0
  /\ \A i \in DOMAIN chan["host"] : ~Request(chan["host"][i])

LEMMA VSound ==
  ASSUME MuxInv, NEW s \in Side
  PROVE  Sound(s, vp[s])
<1>1. vp[s] \in VThread
  BY DEF MuxInv, TypeOK, VThread
<1>2. Request(vp[s].msg) => s = "host" /\ vp[s].msg.cookie # 0
  BY DEF MuxInv, Requests, Side
<1>3. ~Request(vp[s].out)
  BY DEF MuxInv, Requests
<1>. QED
  BY <1>1, <1>2, <1>3 DEF MuxInv, Work, Sound

\* The part of the invariant that is not about references
LEMMA VBase ==
  ASSUME MuxInv, History', NEW s \in Side, NEW v, Sound(s, v),
         vp' = [vp EXCEPT ![s] = v],
         ent' \in [Side -> [Fd -> Entry]],
         sock' \in [Side -> [Fd -> Socket]],
         got' \in [Conn -> [Side -> Seq(Item)]],
         chan' \in [Side -> Seq(Msg)],
         \A t \in Side : Len(chan'[t]) <= QueueLen,
         win' \in [Side -> Int],
         asked' \in [Side -> BOOLEAN],
         alloted' \in [Side -> SUBSET Index],
         buf' \in [Side -> [Index -> Item]],
         UNCHANGED <<wrote, took, opened, lp, tp>>,
         GuestCookies', LinkRequests'
  PROVE  TypeOK' /\ Shapes' /\ Work' /\ Requests'
<1>1. /\ vp' \in [Side -> VThread]
      /\ vp'[s] = v
      /\ \A t \in Side : t # s => vp'[t] = vp[t]
  BY DEF MuxInv, TypeOK, VThread, Sound
<1>2. TypeOK' /\ Shapes'
  BY <1>1 DEF MuxInv, TypeOK, Shapes, VThread, History
<1>3. \A t \in Side : Sound(t, vp'[t])
  BY <1>1, VSound
<1>4. Work'
  BY <1>3 DEF MuxInv, Work, Sound
<1>5. Requests'
  BY <1>3 DEF MuxInv, Requests, Sound, GuestCookies, LinkRequests, Side
<1>. QED
  BY <1>2, <1>4, <1>5

\* Steps of V that leave the references alone
LEMMA VQuiet ==
  ASSUME MuxInv, History', NEW s \in Side, NEW v, Sound(s, v),
         vp' = [vp EXCEPT ![s] = v],
         v.pc = "send" => v.msg.type # "DATA",
         v.pc \notin {"ack", "check", "write", "abort"},
         ent' \in [Side -> [Fd -> Entry]],
         sock' \in [Side -> [Fd -> Socket]],
         SameEntries,
         chan' \in [Side -> Seq(Msg)],
         \A t \in Side : Len(chan'[t]) <= QueueLen,
         win' \in [Side -> Int],
         asked' \in [Side -> BOOLEAN],
         alloted' \in [Side -> SUBSET Index],
         buf' \in [Side -> [Index -> Item]],
         UNCHANGED <<wrote, took, got, opened, lp, tp>>,
         GuestCookies', LinkRequests'
  PROVE  MuxInv'
<1>1. got' \in [Conn -> [Side -> Seq(Item)]]
  BY DEF MuxInv, Shapes
<1>2. TypeOK' /\ Shapes' /\ Work' /\ Requests'
  BY <1>1, VBase
<1>3. /\ vp'[s] = v
      /\ \A t \in Side : t # s => vp'[t] = vp[t]
  BY DEF MuxInv, TypeOK
<1>4. \A t \in Side, g \in Fd : VHolds(t, g)' => VHolds(t, g)
  BY <1>3 DEF VHolds
<1>5. Counted'
  BY <1>4 DEF MuxInv, Counted, THolds, SameEntries
<1>6. OneWriter'
  BY <1>3 DEF MuxInv, OneWriter, SameEntries
<1>7. Entries'
  <2>. SUFFICES ASSUME NEW t \in Side, NEW g \in Fd
                PROVE  /\ ent'[t][g].used <=> sock'[t][g].conn # 0
                       /\ ent'[t][g].polled \/ ent'[t][g].ref > 0 => ent'[t][g].used
    BY DEF Entries
  <2>1. /\ ent[t][g].used <=> sock[t][g].conn # 0
        /\ ent[t][g].polled \/ ent[t][g].ref > 0 => ent[t][g].used
    BY DEF MuxInv, Entries
  <2>. QED
    BY <2>1 DEF SameEntries
<1>. QED
  BY <1>2, <1>5, <1>6, <1>7 DEF MuxInv

LEMMA VDoneFacts ==
  ASSUME MuxInv, NEW s \in Side, VDone(s)
  PROVE  /\ vp' = [vp EXCEPT ![s] = IdleV] /\ Sound(s, IdleV) /\ IdleV.pc = "idle"
         /\ alloted' \in [Side -> SUBSET Index]
         /\ buf' \in [Side -> [Index -> Item]]
<1>1. /\ vp' = [vp EXCEPT ![s] = IdleV]
      /\ alloted' = [alloted EXCEPT ![s] = @ \ {vp[s].idx}]
      /\ buf' = [buf EXCEPT ![s][vp[s].idx] = NoItem]
  BY DEF VDone, Reclaim
<1>2. Sound(s, IdleV) /\ IdleV.pc = "idle"
  BY NoMsgType DEF IdleV, Sound, VThread, AnyFd, Request
<1>3. alloted' \in [Side -> SUBSET Index]
  BY <1>1 DEF MuxInv, TypeOK
<1>4. buf' \in [Side -> [Index -> Item]]
  BY <1>1, NoMsgType DEF MuxInv, TypeOK
<1>. QED
  BY <1>1, <1>2, <1>3, <1>4

LEMMA VSaysFacts ==
  ASSUME MuxInv, NEW s \in Side, NEW m \in Msg, VSays(s, m), ~Request(m),
         vp[s].pc # "idle",
         vp[s].msg.type = "DATA" => vp[s].fd \in Fd
  PROVE  LET v == [vp[s] EXCEPT !.pc = "send", !.out = m] IN
         /\ vp' = [vp EXCEPT ![s] = v] /\ Sound(s, v)
         /\ v.pc = "send" /\ v.fd = vp[s].fd /\ v.msg = vp[s].msg
         /\ UNCHANGED pool
         /\ alloted' \in [Side -> SUBSET Index]
         /\ buf' \in [Side -> [Index -> Item]]
<1>. DEFINE v == [vp[s] EXCEPT !.pc = "send", !.out = m]
<1>1. vp' = [vp EXCEPT ![s] = v] /\ UNCHANGED pool
  BY DEF VSays, MuxInv, TypeOK
<1>2. vp[s] \in VThread /\ Sound(s, vp[s])
  BY VSound DEF Sound
<1>3. v \in VThread /\ v.pc = "send" /\ v.out = m
      /\ v.fd = vp[s].fd /\ v.msg = vp[s].msg /\ v.idx = vp[s].idx
  BY <1>2 DEF VThread
<1>. HIDE DEF v
<1>4. Sound(s, v)
  BY <1>2, <1>3 DEF Sound
<1>5. /\ alloted' \in [Side -> SUBSET Index]
      /\ buf' \in [Side -> [Index -> Item]]
  BY <1>1 DEF pool, MuxInv, TypeOK
<1>. QED
  BY <1>1, <1>3, <1>4, <1>5 DEF v

\* Marking an entry, by V for a message of the link
LEMMA MarkSame ==
  ASSUME MuxInv, NEW s \in Side, NEW f \in Fd, NEW e, e = ent[s][f], NEW m \in Entry,
         m.used = e.used, m.ref = e.ref, m.cookie = e.cookie, m.polled = e.polled,
         m.sending = e.sending,
         ent' = [ent EXCEPT ![s][f] = m],
         Shut(s, f, e)
  PROVE  /\ ent' \in [Side -> [Fd -> Entry]]
         /\ sock' \in [Side -> [Fd -> Socket]]
         /\ SameEntries /\ GuestCookies'
<1>1. e \in Entry
  BY DEF MuxInv, TypeOK
<1>2. /\ ent' \in [Side -> [Fd -> Entry]]
      /\ ent'[s][f] = m
      /\ \A t \in Side, g \in Fd : t # s \/ g # f => ent'[t][g] = ent[t][g]
  BY EntFrame DEF MuxInv
<1>3. /\ sock' \in [Side -> [Fd -> Socket]]
      /\ \A t \in Side, g \in Fd : /\ sock'[t][g].conn = sock[t][g].conn
                                   /\ sock[t][g].block => sock'[t][g].block
  BY <1>1, ShutFacts DEF MuxInv
<1>4. SameEntries
  BY <1>2, <1>3 DEF SameEntries
<1>5. GuestCookies'
  BY <1>2 DEF MuxInv, Requests, GuestCookies, Side
<1>. QED
  BY <1>2, <1>3, <1>4, <1>5

\* Nothing but V's own state and what it holds changes.
LEMMA NothingElse ==
  ASSUME MuxInv, UNCHANGED <<ent, sock>>
  PROVE  /\ ent' \in [Side -> [Fd -> Entry]]
         /\ sock' \in [Side -> [Fd -> Socket]]
         /\ SameEntries /\ GuestCookies'
<1>1. SameEntries
  BY DEF SameEntries
<1>2. GuestCookies'
  BY DEF MuxInv, Requests, GuestCookies
<1>. QED
  BY <1>1, <1>2 DEF MuxInv, TypeOK

LEMMA SameLink ==
  ASSUME MuxInv, UNCHANGED chan
  PROVE  /\ chan' \in [Side -> Seq(Msg)]
         /\ \A t \in Side : Len(chan'[t]) <= QueueLen
         /\ LinkRequests'
BY DEF MuxInv, TypeOK, Shapes, Requests, LinkRequests

LEMMA VTakeStep ==
  ASSUME MuxInv, History', NEW s \in Side, VTake(s)
  PROVE  MuxInv'
<1>. DEFINE i == GetBuf(s)
            p == Peer(s)
            m == Head(chan[p])
            v == [pc |-> "msg", fd |-> m.dst, idx |-> i, msg |-> m, out |-> NoMsg]
<1>1. /\ chan[p] # <<>> /\ FreeSpace(s) > 0
      /\ vp' = [vp EXCEPT ![s] = v]
      /\ alloted' = [alloted EXCEPT ![s] = @ \cup {i}]
      /\ buf' = [buf EXCEPT ![s][i] = m.data]
      /\ chan' = [chan EXCEPT ![p] = Tail(chan[p])]
      /\ UNCHANGED <<ent, sock, clients, flow, lp, tp>>
  BY DEF VTake, MuxInv, Shapes
<1>2. i \in Index
  BY <1>1, FreeSpaceType DEF MuxInv
<1>3. p \in Side /\ p # s
  BY DEF Peer, Side
<1>. HIDE DEF p, i
<1>4. chan[p] \in Seq(Msg)
  BY <1>3 DEF MuxInv, Shapes
<1>5. /\ m \in Msg /\ m = chan[p][1] /\ 1 \in DOMAIN chan[p]
      /\ Tail(chan[p]) \in Seq(Msg) /\ Len(Tail(chan[p])) <= Len(chan[p])
      /\ \A j \in DOMAIN Tail(chan[p]) :
           j + 1 \in DOMAIN chan[p] /\ Tail(chan[p])[j] = chan[p][j + 1]
  BY <1>1, <1>4
<1>6. /\ p = "guest" => (Request(m) => m.cookie # 0)
      /\ p = "host" => ~Request(m)
  BY <1>5 DEF MuxInv, Requests
<1>7. Request(m) => s = "host" /\ m.cookie # 0
  BY <1>3, <1>6 DEF Side
<1>. HIDE DEF m
<1>8. m.dst \in AnyFd /\ m.data \in Item
  BY <1>5 DEF Msg
<1>9. v \in VThread /\ Sound(s, v)
  BY <1>2, <1>5, <1>7, <1>8, NoMsgType DEF VThread, Sound, Request
<1>10. v.pc = "msg"
  OBVIOUS
<1>. HIDE DEF v
<1>11. /\ chan' \in [Side -> Seq(Msg)]
       /\ chan'[p] = Tail(chan[p])
       /\ \A t \in Side : t # p => chan'[t] = chan[t]
  BY <1>1, <1>3, <1>5 DEF MuxInv, Shapes
<1>12. \A t \in Side : Len(chan'[t]) <= QueueLen
  <2>1. Len(chan[p]) <= QueueLen /\ Len(chan[p]) \in Nat /\ Len(Tail(chan[p])) \in Nat
    BY <1>3, <1>4, <1>5 DEF MuxInv, TypeOK
  <2>2. Len(chan'[p]) <= QueueLen
    BY <2>1, <1>5, <1>11, MxtAssumption
  <2>. QED
    BY <2>2, <1>11 DEF MuxInv, TypeOK
<1>13. LinkRequests'
  <2>1. CASE p = "guest"
    <3>1. \A j \in DOMAIN chan'["guest"] :
            j + 1 \in DOMAIN chan["guest"] /\ chan'["guest"][j] = chan["guest"][j + 1]
      BY <1>5, <1>11, <2>1
    <3>. QED
      BY <3>1, <1>11, <2>1 DEF MuxInv, Requests, LinkRequests, Side
  <2>2. CASE p = "host"
    <3>1. \A j \in DOMAIN chan'["host"] :
            j + 1 \in DOMAIN chan["host"] /\ chan'["host"][j] = chan["host"][j + 1]
      BY <1>5, <1>11, <2>2
    <3>. QED
      BY <3>1, <1>11, <2>2 DEF MuxInv, Requests, LinkRequests, Side
  <2>. QED
    BY <1>3, <2>1, <2>2 DEF Side
<1>14. alloted' \in [Side -> SUBSET Index] /\ buf' \in [Side -> [Index -> Item]]
  BY <1>1, <1>2, <1>8 DEF MuxInv, TypeOK
<1>15. /\ UNCHANGED <<ent, sock, wrote, took, got, opened, lp, tp>>
       /\ win' \in [Side -> Int] /\ asked' \in [Side -> BOOLEAN]
  BY <1>1 DEF MuxInv, TypeOK, clients, flow
<1>16. /\ ent' \in [Side -> [Fd -> Entry]]
       /\ sock' \in [Side -> [Fd -> Socket]]
       /\ SameEntries /\ GuestCookies'
  BY <1>15, NothingElse
<1>. QED
  BY <1>1, <1>9, <1>10, <1>11, <1>12, <1>13, <1>14, <1>15, <1>16, VQuiet

LEMMA VDisconnectStep ==
  ASSUME MuxInv, History', NEW s \in Side, VDisconnect(s)
  PROVE  MuxInv'
<1>. DEFINE f == vp[s].fd
            e == ent[s][f]
            m == Marked(e, FALSE, FALSE)
<1>1. /\ VDone(s)
      /\ UNCHANGED <<clients, chan, flow, lp, tp>>
  BY DEF VDisconnect
<1>2. /\ vp' = [vp EXCEPT ![s] = IdleV] /\ Sound(s, IdleV) /\ IdleV.pc = "idle"
      /\ alloted' \in [Side -> SUBSET Index]
      /\ buf' \in [Side -> [Index -> Item]]
  BY <1>1, VDoneFacts
<1>3. /\ UNCHANGED <<wrote, took, got, opened, lp, tp>>
      /\ win' \in [Side -> Int] /\ asked' \in [Side -> BOOLEAN]
  BY <1>1 DEF MuxInv, TypeOK, clients, flow
<1>4. /\ ent' \in [Side -> [Fd -> Entry]]
      /\ sock' \in [Side -> [Fd -> Socket]]
      /\ SameEntries /\ GuestCookies'
  <2>1. CASE Active(s, f, vp[s].msg.cookie)
    <3>1. f \in Fd /\ ent' = [ent EXCEPT ![s][f] = m] /\ Shut(s, f, e)
      BY <2>1 DEF VDisconnect, Active, MuxInv, TypeOK
    <3>2. e \in Entry
      BY <3>1 DEF MuxInv, TypeOK
    <3>3. /\ m \in Entry /\ m.used = e.used /\ m.ref = e.ref
          /\ m.cookie = e.cookie /\ m.polled = e.polled /\ m.sending = e.sending
      BY <3>2, MarkedFacts
    <3>. HIDE DEF m, f
    <3>. QED
      BY <3>1, <3>3, MarkSame
  <2>2. CASE ~Active(s, f, vp[s].msg.cookie)
    <3>1. UNCHANGED <<ent, sock>>
      BY <2>2 DEF VDisconnect
    <3>. QED
      BY <3>1, NothingElse
  <2>. QED
    BY <2>1, <2>2
<1>5. /\ chan' \in [Side -> Seq(Msg)]
      /\ \A t \in Side : Len(chan'[t]) <= QueueLen
      /\ LinkRequests'
  BY <1>1, SameLink
<1>. QED
  BY <1>2, <1>3, <1>4, <1>5, VQuiet

LEMMA VNewStep ==
  ASSUME MuxInv, History', NEW s \in Side, VNew(s)
  PROVE  MuxInv'
<1>. DEFINE f == Min(FreeFds(s))
            c == vp[s].msg.cookie
            v == [vp[s] EXCEPT !.pc = "map", !.fd = f]
            n == NewEntry(0)
<1>1. /\ f \in Fd /\ sock[s][f].conn = 0
      /\ ~ent[s][f].used /\ ent[s][f].ref = 0
      /\ ~VHolds(s, f) /\ ~THolds(s, f)
  BY FreeFdFacts DEF VNew
<1>. HIDE DEF f
<1>2. Sound(s, vp[s]) /\ vp[s].pc = "msg" /\ vp[s].msg.type = "NEW_CONNECTION"
  BY VSound DEF VNew, VHas
<1>3. s = "host" /\ c # 0 /\ c \in 0 .. MaxConn
  <2>1. vp[s].msg \in Msg
    BY <1>2 DEF Sound, VThread
  <2>. QED
    BY <1>2, <2>1 DEF Sound, Request, Msg
<1>. HIDE DEF c
<1>4. /\ sock' = [sock EXCEPT ![s][f] = NewSocket(s, c)]
      /\ ent' = [ent EXCEPT ![s][f] = n]
      /\ vp' = [vp EXCEPT ![s] = v]
      /\ UNCHANGED <<clients, chan, flow, pool, lp, tp>>
  BY DEF VNew, MuxInv, TypeOK, f, c
<1>5. v \in VThread /\ Sound(s, v) /\ v.pc = "map"
  <2>1. v \in VThread /\ v.pc = "map" /\ v.fd = f
        /\ v.msg = vp[s].msg /\ v.out = vp[s].out /\ v.idx = vp[s].idx
    BY <1>1, <1>2 DEF Sound, VThread, AnyFd
  <2>. HIDE DEF v
  <2>. QED
    BY <1>1, <1>2, <2>1 DEF Sound
<1>. HIDE DEF v
<1>6. n \in Entry /\ n.used /\ n.ref = 0
  BY NewEntryFacts, MxtAssumption
<1>. HIDE DEF n
<1>7. /\ ent' \in [Side -> [Fd -> Entry]]
      /\ ent'[s][f] = n
      /\ \A t \in Side, g \in Fd : t # s \/ g # f => ent'[t][g] = ent[t][g]
  <2>1. ent \in [Side -> [Fd -> Entry]]
    BY DEF MuxInv, TypeOK
  <2>. QED
    BY <1>1, <1>4, <1>6, <2>1
<1>8. /\ NewSocket(s, c) \in Socket /\ NewSocket(s, c).conn = c
  BY <1>3 DEF NewSocket, NoSocket, Socket
<1>9. /\ sock' \in [Side -> [Fd -> Socket]]
      /\ sock'[s][f] = NewSocket(s, c)
      /\ \A t \in Side, g \in Fd : t # s \/ g # f => sock'[t][g] = sock[t][g]
  BY <1>1, <1>4, <1>8 DEF MuxInv, TypeOK
<1>10. GuestCookies'
  BY <1>3, <1>7 DEF MuxInv, Requests, GuestCookies, Side
<1>11. TypeOK' /\ Shapes' /\ Work' /\ Requests'
  <2>1. /\ UNCHANGED <<wrote, took, opened, lp, tp>>
        /\ win' \in [Side -> Int] /\ asked' \in [Side -> BOOLEAN]
        /\ got' \in [Conn -> [Side -> Seq(Item)]]
        /\ alloted' \in [Side -> SUBSET Index] /\ buf' \in [Side -> [Index -> Item]]
    BY <1>4 DEF MuxInv, TypeOK, Shapes, clients, flow, pool
  <2>2. /\ chan' \in [Side -> Seq(Msg)]
        /\ \A t \in Side : Len(chan'[t]) <= QueueLen
        /\ LinkRequests'
    BY <1>4, SameLink
  <2>. QED
    BY <1>4, <1>5, <1>7, <1>9, <1>10, <2>1, <2>2, VBase
<1>12. /\ vp'[s] = v
       /\ \A t \in Side : t # s => vp'[t] = vp[t]
  BY <1>4 DEF MuxInv, TypeOK
<1>13. \A t \in Side, g \in Fd : VHolds(t, g)' => VHolds(t, g) /\ (t # s \/ g # f)
  BY <1>1, <1>5, <1>12 DEF VHolds
<1>14. \A t \in Side, g \in Fd : THolds(t, g)' => THolds(t, g) /\ (t # s \/ g # f)
  BY <1>1, <1>4 DEF THolds
<1>15. Counted'
  BY <1>7, <1>13, <1>14 DEF MuxInv, Counted
<1>16. OneWriter'
  BY <1>1, <1>4, <1>5, <1>7, <1>9, <1>12 DEF MuxInv, OneWriter, VHolds, THolds
<1>17. Entries'
  BY <1>3, <1>6, <1>7, <1>8, <1>9 DEF MuxInv, Entries
<1>. QED
  BY <1>11, <1>15, <1>16, <1>17 DEF MuxInv

LEMMA ConnectAckType ==
  ASSUME MuxInv, NEW s \in Side, NEW f \in AnyFd
  PROVE  ConnectAck(s, f) \in Msg /\ ~Request(ConnectAck(s, f))
<1>. DEFINE m == vp[s].msg
<1>1. m \in Msg
  BY DEF MuxInv, TypeOK, VThread
<1>2. m.src \in AnyFd /\ m.cookie \in 0 .. MaxConn
  BY <1>1 DEF Msg
<1>. QED
  BY <1>2, NoMsgType DEF ConnectAck, Msg, Type, Request

LEMMA VNewFailsStep ==
  ASSUME MuxInv, History', NEW s \in Side, VNewFails(s)
  PROVE  MuxInv'
<1>. DEFINE m == ConnectAck(s, NoFd)
            v == [vp[s] EXCEPT !.pc = "send", !.out = m]
<1>1. /\ VSays(s, m) /\ vp[s].pc = "msg" /\ vp[s].msg.type = "NEW_CONNECTION"
      /\ UNCHANGED <<ent, sock, clients, chan, flow, lp, tp>>
  BY DEF VNewFails, VHas
<1>2. m \in Msg /\ ~Request(m)
  BY ConnectAckType DEF AnyFd
<1>. HIDE DEF m
<1>3. /\ vp' = [vp EXCEPT ![s] = v] /\ Sound(s, v)
      /\ v.pc = "send" /\ v.msg = vp[s].msg
      /\ alloted' \in [Side -> SUBSET Index]
      /\ buf' \in [Side -> [Index -> Item]]
  BY <1>1, <1>2, VSaysFacts
<1>. HIDE DEF v
<1>4. /\ UNCHANGED <<wrote, took, got, opened, lp, tp>>
      /\ win' \in [Side -> Int] /\ asked' \in [Side -> BOOLEAN]
  BY <1>1 DEF MuxInv, TypeOK, clients, flow
<1>5. /\ ent' \in [Side -> [Fd -> Entry]]
      /\ sock' \in [Side -> [Fd -> Socket]]
      /\ SameEntries /\ GuestCookies'
  BY <1>1, NothingElse
<1>6. /\ chan' \in [Side -> Seq(Msg)]
      /\ \A t \in Side : Len(chan'[t]) <= QueueLen
      /\ LinkRequests'
  BY <1>1, SameLink
<1>. QED
  BY <1>1, <1>3, <1>4, <1>5, <1>6, VQuiet

LEMMA VMapStep ==
  ASSUME MuxInv, History', NEW s \in Side, VMap(s)
  PROVE  MuxInv'
<1>. DEFINE f == vp[s].fd
            c == vp[s].msg.cookie
            p == vp[s].msg.src
            e == ent[s][f]
            n == [e EXCEPT !.target = TRUE, !.cookie = c, !.peer = p, !.first = TRUE]
            m == ConnectAck(s, f)
            v == [vp[s] EXCEPT !.pc = "send", !.out = m]
<1>1. /\ vp[s].pc = "map" /\ VSays(s, m)
      /\ UNCHANGED <<sock, clients, chan, flow, lp, tp>>
  BY DEF VMap
<1>2. Sound(s, vp[s])
  BY VSound
<1>3. /\ f \in Fd /\ f \in AnyFd /\ s = "host" /\ vp[s].msg.type = "NEW_CONNECTION"
      /\ c \in 0 .. MaxConn /\ p \in AnyFd
  <2>1. vp[s].msg \in Msg
    BY <1>2 DEF Sound, VThread
  <2>. QED
    BY <1>1, <1>2, <2>1 DEF Sound, Request, Msg, AnyFd
<1>4. ent' = [ent EXCEPT ![s][f] = n]
  <2>1. ent' = [ent EXCEPT ![s][f].target = TRUE, ![s][f].cookie = c,
                           ![s][f].peer = p, ![s][f].first = TRUE]
    BY DEF VMap
  <2>2. ent \in [Side -> [Fd -> Entry]]
    BY DEF MuxInv, TypeOK
  <2>. HIDE DEF f, c, p
  <2>. QED
    BY <1>3, <2>1, <2>2
<1>5. m \in Msg /\ ~Request(m)
  BY <1>3, ConnectAckType
<1>6. e \in Entry
  BY <1>3 DEF MuxInv, TypeOK
<1>7. /\ vp' = [vp EXCEPT ![s] = v] /\ Sound(s, v)
      /\ v.pc = "send" /\ v.msg = vp[s].msg
      /\ alloted' \in [Side -> SUBSET Index]
      /\ buf' \in [Side -> [Index -> Item]]
  <2>. HIDE DEF m
  <2>. QED
    BY <1>1, <1>3, <1>5, VSaysFacts
<1>. HIDE DEF f, c, p, m, v, e
<1>8. /\ n \in Entry /\ n.used = e.used /\ n.ref = e.ref
      /\ n.polled = e.polled /\ n.sending = e.sending
  BY <1>3, <1>6 DEF Entry
<1>. HIDE DEF n
<1>9. /\ ent' \in [Side -> [Fd -> Entry]]
      /\ ent'[s][f] = n
      /\ \A t \in Side, g \in Fd : t # s \/ g # f => ent'[t][g] = ent[t][g]
  <2>1. TypeOK /\ f \in Fd /\ n \in Entry
    BY <1>3, <1>8 DEF MuxInv
  <2>. QED
    BY <1>4, <2>1, EntFrame
<1>10. SameEntries
  BY <1>1, <1>8, <1>9 DEF SameEntries, e
<1>11. GuestCookies'
  BY <1>3, <1>9 DEF MuxInv, Requests, GuestCookies, Side
<1>12. /\ UNCHANGED <<wrote, took, got, opened, lp, tp>>
       /\ win' \in [Side -> Int] /\ asked' \in [Side -> BOOLEAN]
       /\ sock' \in [Side -> [Fd -> Socket]]
  BY <1>1 DEF MuxInv, TypeOK, clients, flow
<1>13. /\ chan' \in [Side -> Seq(Msg)]
       /\ \A t \in Side : Len(chan'[t]) <= QueueLen
       /\ LinkRequests'
  BY <1>1, SameLink
<1>. QED
  BY <1>3, <1>7, <1>9, <1>10, <1>11, <1>12, <1>13, VQuiet

LEMMA VUpdateStep ==
  ASSUME MuxInv, History', NEW s \in Side, VUpdate(s)
  PROVE  MuxInv'
<1>. DEFINE m == [NoMsg EXCEPT !.type = "WINDOW_SIZE_UPDATE_ACK", !.win = FreeSpace(s)]
            v == [vp[s] EXCEPT !.pc = "send", !.out = m]
<1>1. /\ VSays(s, m) /\ vp[s].pc = "msg" /\ vp[s].msg.type = "WINDOW_SIZE_UPDATE"
      /\ win' = [win EXCEPT ![s] = vp[s].msg.win]
      /\ UNCHANGED <<ent, sock, clients, chan, asked, lp, tp>>
  BY DEF VUpdate, VHas
<1>2. m \in Msg /\ ~Request(m)
  <2>1. FreeSpace(s) \in 0 .. BufCnt
    BY FreeSpaceType DEF MuxInv
  <2>. QED
    BY <2>1, NoMsgType DEF Msg, Type, Request
<1>. HIDE DEF m
<1>3. /\ vp' = [vp EXCEPT ![s] = v] /\ Sound(s, v)
      /\ v.pc = "send" /\ v.msg = vp[s].msg
      /\ alloted' \in [Side -> SUBSET Index]
      /\ buf' \in [Side -> [Index -> Item]]
  BY <1>1, <1>2, VSaysFacts
<1>. HIDE DEF v
<1>4. win' \in [Side -> Int]
  <2>1. vp[s].msg.win \in Int
    BY MxtAssumption DEF MuxInv, TypeOK, VThread, Msg
  <2>. QED
    BY <1>1, <2>1 DEF MuxInv, TypeOK
<1>5. UNCHANGED <<wrote, took, got, opened, lp, tp>> /\ asked' \in [Side -> BOOLEAN]
  BY <1>1 DEF MuxInv, TypeOK, clients
<1>6. /\ ent' \in [Side -> [Fd -> Entry]]
      /\ sock' \in [Side -> [Fd -> Socket]]
      /\ SameEntries /\ GuestCookies'
  BY <1>1, NothingElse
<1>7. /\ chan' \in [Side -> Seq(Msg)]
      /\ \A t \in Side : Len(chan'[t]) <= QueueLen
      /\ LinkRequests'
  BY <1>1, SameLink
<1>. QED
  BY <1>1, <1>3, <1>4, <1>5, <1>6, <1>7, VQuiet

LEMMA VUpdateAckStep ==
  ASSUME MuxInv, History', NEW s \in Side, VUpdateAck(s)
  PROVE  MuxInv'
<1>1. /\ VDone(s)
      /\ win' = [win EXCEPT ![s] = vp[s].msg.win]
      /\ asked' = [asked EXCEPT ![s] = FALSE]
      /\ UNCHANGED <<ent, sock, clients, chan, lp, tp>>
  BY DEF VUpdateAck
<1>2. /\ vp' = [vp EXCEPT ![s] = IdleV] /\ Sound(s, IdleV) /\ IdleV.pc = "idle"
      /\ alloted' \in [Side -> SUBSET Index]
      /\ buf' \in [Side -> [Index -> Item]]
  BY <1>1, VDoneFacts
<1>3. win' \in [Side -> Int]
  <2>1. vp[s].msg.win \in Int
    BY MxtAssumption DEF MuxInv, TypeOK, VThread, Msg
  <2>. QED
    BY <1>1, <2>1 DEF MuxInv, TypeOK
<1>4. UNCHANGED <<wrote, took, got, opened, lp, tp>> /\ asked' \in [Side -> BOOLEAN]
  BY <1>1 DEF MuxInv, TypeOK, clients
<1>5. /\ ent' \in [Side -> [Fd -> Entry]]
      /\ sock' \in [Side -> [Fd -> Socket]]
      /\ SameEntries /\ GuestCookies'
  BY <1>1, NothingElse
<1>6. /\ chan' \in [Side -> Seq(Msg)]
      /\ \A t \in Side : Len(chan'[t]) <= QueueLen
      /\ LinkRequests'
  BY <1>1, SameLink
<1>. QED
  BY <1>2, <1>3, <1>4, <1>5, <1>6, VQuiet

\* Steps of V that change the entry of f, which it works on: the entry n keeps
\* a reference for each of those who hold one, and the flag of a writer.
LEMMA VHolding ==
  ASSUME MuxInv, History', NEW s \in Side, NEW v, Sound(s, v), NEW f \in Fd, NEW n \in Entry,
         vp' = [vp EXCEPT ![s] = v],
         vp[s].fd = f, v.pc = "idle" \/ v.fd = f,
         v.pc \in {"idle", "ack", "check", "write", "send", "abort"},
         ent' = [ent EXCEPT ![s][f] = n],
         n.used, ent[s][f].used,
         n.cookie = ent[s][f].cookie,
         v.pc # "idle" \/ THolds(s, f) => n.ref >= 1,
         v.pc # "idle" /\ THolds(s, f) => n.ref >= 2,
         tp[s][f].pc \in {"start", "write", "fail"} => n.sending,
         v.pc = "write" => n.sending /\ tp[s][f].pc \in Past,
         sock' \in [Side -> [Fd -> Socket]],
         \A t \in Side, g \in Fd : /\ sock'[t][g].conn = sock[t][g].conn
                                   /\ sock[t][g].block => sock'[t][g].block,
         got' \in [Conn -> [Side -> Seq(Item)]],
         chan' \in [Side -> Seq(Msg)],
         \A t \in Side : Len(chan'[t]) <= QueueLen,
         alloted' \in [Side -> SUBSET Index],
         buf' \in [Side -> [Index -> Item]],
         UNCHANGED <<wrote, took, opened, win, asked, lp, tp>>,
         LinkRequests'
  PROVE  MuxInv'
<1>1. /\ ent' \in [Side -> [Fd -> Entry]]
      /\ ent'[s][f] = n
      /\ \A t \in Side, g \in Fd : t # s \/ g # f => ent'[t][g] = ent[t][g]
  <2>1. ent \in [Side -> [Fd -> Entry]]
    BY DEF MuxInv, TypeOK
  <2>. QED
    BY <2>1
<1>2. GuestCookies'
  BY <1>1 DEF MuxInv, Requests, GuestCookies, Side
<1>3. win' \in [Side -> Int] /\ asked' \in [Side -> BOOLEAN]
  BY DEF MuxInv, TypeOK
<1>4. TypeOK' /\ Shapes' /\ Work' /\ Requests'
  BY <1>1, <1>2, <1>3, VBase
<1>5. /\ vp'[s] = v
      /\ \A t \in Side : t # s => vp'[t] = vp[t]
  BY DEF MuxInv, TypeOK
<1>6. \A t \in Side, g \in Fd :
        (VHolds(t, g)' => (t = s /\ g = f) \/ VHolds(t, g)) /\ (THolds(t, g)' => THolds(t, g))
  BY <1>5 DEF VHolds, THolds
<1>7. /\ VHolds(s, f)' => v.pc # "idle"
      /\ THolds(s, f)' => THolds(s, f)
  BY <1>5 DEF VHolds, THolds
<1>8. Counted'
  <2>1. /\ VHolds(s, f)' \/ THolds(s, f)' => ent'[s][f].ref >= 1
        /\ VHolds(s, f)' /\ THolds(s, f)' => ent'[s][f].ref >= 2
    BY <1>1, <1>7
  <2>2. \A t \in Side, g \in Fd : t # s \/ g # f =>
          /\ VHolds(t, g)' \/ THolds(t, g)' => ent'[t][g].ref >= 1
          /\ VHolds(t, g)' /\ THolds(t, g)' => ent'[t][g].ref >= 2
    BY <1>1, <1>6 DEF MuxInv, Counted
  <2>. QED
    BY <2>1, <2>2 DEF Counted
<1>9. OneWriter'
  <2>1. /\ tp'[s][f].pc \in {"start", "write", "fail"} => ent'[s][f].sending
        /\ tp'[s][f].pc \in {"start", "write"} => tp'[s][f].idx \in Index
        /\ tp'[s][f].pc \notin {"none", "start"} => sock'[s][f].block
        /\ vp'[s].pc = "write" => ent'[s][f].sending /\ tp'[s][f].pc \in Past
    BY <1>1, <1>5 DEF MuxInv, OneWriter
  <2>2. \A t \in Side, g \in Fd : t # s \/ g # f =>
          /\ tp'[t][g].pc \in {"start", "write", "fail"} => ent'[t][g].sending
          /\ tp'[t][g].pc \in {"start", "write"} => tp'[t][g].idx \in Index
          /\ tp'[t][g].pc \notin {"none", "start"} => sock'[t][g].block
          /\ vp'[t].pc = "write" /\ vp'[t].fd = g =>
               ent'[t][g].sending /\ tp'[t][g].pc \in Past
    <3>1. \A t \in Side, g \in Fd : (t # s \/ g # f) /\ vp'[t].pc = "write" /\ vp'[t].fd = g =>
            vp[t].pc = "write" /\ vp[t].fd = g
      BY <1>5
    <3>. QED
      BY <1>1, <3>1 DEF MuxInv, OneWriter
  <2>. QED
    BY <2>1, <2>2 DEF OneWriter
<1>10. Entries'
  <2>. SUFFICES ASSUME NEW t \in Side, NEW g \in Fd
                PROVE  /\ ent'[t][g].used <=> sock'[t][g].conn # 0
                       /\ ent'[t][g].polled \/ ent'[t][g].ref > 0 => ent'[t][g].used
    BY DEF Entries
  <2>1. /\ ent[t][g].used <=> sock[t][g].conn # 0
        /\ ent[t][g].polled \/ ent[t][g].ref > 0 => ent[t][g].used
    BY DEF MuxInv, Entries
  <2>2. sock'[t][g].conn = sock[t][g].conn
    OBVIOUS
  <2>3. CASE t = s /\ g = f
    BY <1>1, <2>1, <2>2, <2>3
  <2>4. CASE t # s \/ g # f
    BY <1>1, <2>1, <2>2, <2>4
  <2>. QED
    BY <2>3, <2>4
<1>. QED
  BY <1>4, <1>8, <1>9, <1>10 DEF MuxInv

\* What V holds a reference to
LEMMA VHoldsFacts ==
  ASSUME MuxInv, NEW s \in Side,
         \/ vp[s].pc \in {"ack", "check", "write"}
         \/ vp[s].pc = "send" /\ vp[s].msg.type = "DATA"
  PROVE  LET f == vp[s].fd
             e == ent[s][f] IN
         /\ f \in Fd /\ e \in Entry /\ e.used /\ e.ref >= 1
         /\ THolds(s, f) => e.ref >= 2
         /\ sock[s][f].conn \in Conn
         /\ vp[s].idx \in Index /\ (vp[s].pc # "ack" => vp[s].msg.type = "DATA")
<1>. DEFINE f == vp[s].fd
            e == ent[s][f]
<1>1. f \in Fd /\ vp[s].idx \in Index /\ (vp[s].pc # "ack" => vp[s].msg.type = "DATA")
  BY DEF MuxInv, Work
<1>2. VHolds(s, f)
  BY DEF VHolds
<1>. HIDE DEF f
<1>3. e.ref >= 1 /\ (THolds(s, f) => e.ref >= 2)
  BY <1>1, <1>2 DEF MuxInv, Counted
<1>4. e \in Entry
  BY <1>1 DEF MuxInv, TypeOK
<1>5. e.ref \in Nat
  BY <1>4, EntryFields
<1>6. e.used /\ sock[s][f].conn # 0
  BY <1>1, <1>3, <1>5 DEF MuxInv, Entries
<1>7. sock[s][f].conn \in Conn
  <2>1. sock[s][f] \in Socket
    BY <1>1 DEF MuxInv, TypeOK
  <2>. QED
    BY <1>6, <2>1, MxtAssumption DEF Socket, Conn
<1>. QED
  BY <1>1, <1>3, <1>4, <1>6, <1>7 DEF f

LEMMA SameRest ==
  ASSUME MuxInv, UNCHANGED <<sock, got, chan, pool>>
  PROVE  /\ sock' \in [Side -> [Fd -> Socket]]
         /\ \A t \in Side, g \in Fd : /\ sock'[t][g].conn = sock[t][g].conn
                                      /\ sock[t][g].block => sock'[t][g].block
         /\ got' \in [Conn -> [Side -> Seq(Item)]]
         /\ chan' \in [Side -> Seq(Msg)]
         /\ \A t \in Side : Len(chan'[t]) <= QueueLen
         /\ alloted' \in [Side -> SUBSET Index]
         /\ buf' \in [Side -> [Index -> Item]]
         /\ LinkRequests'
<1>1. LinkRequests'
  BY SameLink
<1>. QED
  BY <1>1 DEF MuxInv, TypeOK, Shapes, pool

\* is_fd_active has taken a reference for V.
LEMMA VRefersStep ==
  ASSUME MuxInv, History', NEW s \in Side, NEW pc,
         vp[s].pc = "msg", vp[s].fd \in Fd, ent[s][vp[s].fd].used,
         \/ pc = "ack" /\ vp[s].msg.type = "NEW_CONNECTION_ACK"
         \/ pc = "check" /\ vp[s].msg.type = "DATA",
         ent' = [ent EXCEPT ![s][vp[s].fd].ref = @ + 1],
         vp' = [vp EXCEPT ![s].pc = pc],
         UNCHANGED <<sock, wrote, took, got, opened, chan, win, asked, pool, lp, tp>>
  PROVE  MuxInv'
<1>. DEFINE f == vp[s].fd
            e == ent[s][f]
            n == [e EXCEPT !.ref = @ + 1]
            v == [vp[s] EXCEPT !.pc = pc]
<1>1. e \in Entry /\ e.ref \in Nat
  BY EntryFields DEF MuxInv, TypeOK
<1>2. ent' = [ent EXCEPT ![s][f] = n]
  BY DEF MuxInv, TypeOK
<1>3. vp' = [vp EXCEPT ![s] = v]
  BY DEF MuxInv, TypeOK
<1>4. Sound(s, v) /\ v.pc = pc /\ v.fd = f
  <2>1. Sound(s, vp[s])
    BY VSound
  <2>2. v \in VThread /\ v.pc = pc /\ v.fd = f /\ v.msg = vp[s].msg /\ v.out = vp[s].out
        /\ v.idx = vp[s].idx
    BY <2>1 DEF Sound, VThread
  <2>. HIDE DEF v
  <2>. QED
    BY <2>1, <2>2 DEF Sound
<1>. HIDE DEF v
<1>5. THolds(s, f) => e.ref >= 1
  BY DEF MuxInv, Counted
<1>6. tp[s][f].pc \in {"start", "write", "fail"} => e.sending
  BY DEF MuxInv, OneWriter
<1>7. f \in Fd /\ e.used /\ vp[s].fd = f /\ ent[s][f] = e
  OBVIOUS
<1>. HIDE DEF e, f
<1>8. /\ n \in Entry /\ n.used = e.used /\ n.ref = e.ref + 1
      /\ n.cookie = e.cookie /\ n.sending = e.sending
  BY <1>1 DEF Entry
<1>. HIDE DEF n
<1>9. /\ n.used /\ n.ref >= 1 /\ (THolds(s, f) => n.ref >= 2)
      /\ (tp[s][f].pc \in {"start", "write", "fail"} => n.sending)
  BY <1>1, <1>5, <1>6, <1>7, <1>8
<1>10. UNCHANGED <<sock, got, chan, pool>>
  OBVIOUS
<1>. QED
  BY <1>2, <1>3, <1>4, <1>7, <1>8, <1>9, <1>10, SameRest, VHolding

LEMMA VAckStep ==
  ASSUME MuxInv, History', NEW s \in Side, VAck(s)
  PROVE  MuxInv'
<1>. DEFINE f == vp[s].fd
            c == vp[s].msg.cookie
            p == vp[s].msg.src
            m == [NoMsg EXCEPT !.type = "DISCONNECT", !.dst = p, !.cookie = c]
            v == [vp[s] EXCEPT !.pc = "send", !.out = m]
<1>1. /\ vp[s].pc = "msg" /\ vp[s].msg.type = "NEW_CONNECTION_ACK"
      /\ UNCHANGED <<sock, clients, chan, flow, lp, tp>>
      /\ \/ ~Active(s, f, c) /\ VSays(s, m) /\ UNCHANGED ent
         \/ /\ Active(s, f, c) /\ UNCHANGED pool
            /\ ent' = [ent EXCEPT ![s][f].ref = @ + 1]
            /\ vp' = [vp EXCEPT ![s].pc = "ack"]
  BY DEF VAck, VHas
<1>2. c \in 0 .. MaxConn /\ p \in AnyFd
  <2>1. vp[s].msg \in Msg
    BY DEF MuxInv, TypeOK, VThread
  <2>. QED
    BY <2>1 DEF Msg
<1>3. /\ UNCHANGED <<wrote, took, got, opened, lp, tp>>
      /\ win' \in [Side -> Int] /\ asked' \in [Side -> BOOLEAN]
  BY <1>1 DEF MuxInv, TypeOK, clients, flow
<1>4. CASE ~Active(s, f, c) /\ VSays(s, m) /\ UNCHANGED ent
  <2>1. m \in Msg /\ ~Request(m)
    BY <1>2, NoMsgType DEF Msg, Type, Request
  <2>. HIDE DEF m
  <2>2. /\ vp' = [vp EXCEPT ![s] = v] /\ Sound(s, v)
        /\ v.pc = "send" /\ v.msg = vp[s].msg
        /\ alloted' \in [Side -> SUBSET Index]
        /\ buf' \in [Side -> [Index -> Item]]
    BY <1>1, <1>4, <2>1, VSaysFacts
  <2>3. /\ ent' \in [Side -> [Fd -> Entry]]
        /\ sock' \in [Side -> [Fd -> Socket]]
        /\ SameEntries /\ GuestCookies'
    BY <1>1, <1>4, NothingElse
  <2>4. /\ chan' \in [Side -> Seq(Msg)]
        /\ \A t \in Side : Len(chan'[t]) <= QueueLen
        /\ LinkRequests'
    BY <1>1, SameLink
  <2>. HIDE DEF v
  <2>. QED
    BY <1>1, <1>3, <2>2, <2>3, <2>4, VQuiet
<1>5. CASE /\ Active(s, f, c) /\ UNCHANGED pool
           /\ ent' = [ent EXCEPT ![s][f].ref = @ + 1]
           /\ vp' = [vp EXCEPT ![s].pc = "ack"]
  BY <1>1, <1>5, VRefersStep DEF flow, clients, Active
<1>. QED
  BY <1>1, <1>4, <1>5

LEMMA VAckedStep ==
  ASSUME MuxInv, History', NEW s \in Side, VAcked(s)
  PROVE  MuxInv'
<1>. DEFINE f == vp[s].fd
            p == vp[s].msg.src
            e == ent[s][f]
            k == Marked(e, FALSE, FALSE)
            r == Released(k)
            q == Released(e)
            n == [q EXCEPT !.peer = p]
<1>1. /\ vp[s].pc = "ack" /\ VDone(s)
      /\ \/ ent' = [ent EXCEPT ![s][f] = r] /\ Shut(s, f, e)
         \/ ent' = [ent EXCEPT ![s][f] = n] /\ sock' = [sock EXCEPT ![s][f].ready = TRUE]
      /\ UNCHANGED <<clients, chan, flow, lp, tp>>
  BY DEF VAcked
<1>2. /\ f \in Fd /\ e \in Entry /\ e.used /\ e.ref >= 1
      /\ THolds(s, f) => e.ref >= 2
  BY <1>1, VHoldsFacts
<1>3. p \in AnyFd
  <2>1. vp[s].msg \in Msg
    BY DEF MuxInv, TypeOK, VThread
  <2>. QED
    BY <2>1 DEF Msg
<1>4. /\ UNCHANGED <<wrote, took, opened, win, asked, lp, tp>>
      /\ got' \in [Conn -> [Side -> Seq(Item)]]
  BY <1>1 DEF clients, flow, MuxInv, Shapes
<1>5. /\ chan' \in [Side -> Seq(Msg)]
      /\ \A t \in Side : Len(chan'[t]) <= QueueLen
      /\ LinkRequests'
  BY <1>1, SameLink
<1>6. /\ vp' = [vp EXCEPT ![s] = IdleV] /\ Sound(s, IdleV) /\ IdleV.pc = "idle"
      /\ alloted' \in [Side -> SUBSET Index]
      /\ buf' \in [Side -> [Index -> Item]]
  BY <1>1, VDoneFacts
<1>7. vp[s].fd = f /\ ent[s][f] = e
  OBVIOUS
<1>8. tp[s][f].pc \in {"start", "write", "fail"} => e.sending
  BY <1>2 DEF MuxInv, OneWriter
<1>. HIDE DEF f, e, p
<1>9. e.ref \in Nat
  BY <1>2, EntryFields
<1>10. CASE ent' = [ent EXCEPT ![s][f] = r] /\ Shut(s, f, e)
  <2>1. /\ k \in Entry /\ k.used = e.used /\ k.ref = e.ref
        /\ k.cookie = e.cookie /\ k.sending = e.sending
    BY <1>2, MarkedFacts
  <2>. HIDE DEF k
  <2>2. /\ r \in Entry /\ r.used = k.used /\ r.ref = k.ref - 1
        /\ r.cookie = k.cookie /\ r.sending = k.sending
    BY <1>2, <2>1, ReleasedFacts
  <2>. HIDE DEF r
  <2>3. /\ r.used /\ r.cookie = e.cookie /\ (THolds(s, f) => r.ref >= 1)
        /\ (tp[s][f].pc \in {"start", "write", "fail"} => r.sending)
    BY <1>2, <1>8, <1>9, <2>1, <2>2
  <2>4. /\ sock' \in [Side -> [Fd -> Socket]]
        /\ \A t \in Side, g \in Fd : /\ sock'[t][g].conn = sock[t][g].conn
                                     /\ sock[t][g].block => sock'[t][g].block
    BY <1>2, <1>10, ShutFacts DEF MuxInv
  <2>. QED
    BY <1>2, <1>4, <1>5, <1>6, <1>7, <1>10, <2>2, <2>3, <2>4, VHolding
<1>11. CASE ent' = [ent EXCEPT ![s][f] = n] /\ sock' = [sock EXCEPT ![s][f].ready = TRUE]
  <2>1. /\ q \in Entry /\ q.used = e.used /\ q.ref = e.ref - 1
        /\ q.cookie = e.cookie /\ q.sending = e.sending
    BY <1>2, ReleasedFacts
  <2>. HIDE DEF q
  <2>2. /\ n \in Entry /\ n.used = q.used /\ n.ref = q.ref
        /\ n.cookie = q.cookie /\ n.sending = q.sending
    BY <1>3, <2>1 DEF Entry
  <2>. HIDE DEF n
  <2>3. /\ n.used /\ n.cookie = e.cookie /\ (THolds(s, f) => n.ref >= 1)
        /\ (tp[s][f].pc \in {"start", "write", "fail"} => n.sending)
    BY <1>2, <1>8, <1>9, <2>1, <2>2
  <2>4. /\ sock' \in [Side -> [Fd -> Socket]]
        /\ \A t \in Side, g \in Fd : /\ sock'[t][g].conn = sock[t][g].conn
                                     /\ sock[t][g].block => sock'[t][g].block
    <3>1. sock[s][f] \in Socket /\ sock \in [Side -> [Fd -> Socket]]
      BY <1>2 DEF MuxInv, TypeOK
    <3>2. sock'[s][f] = [sock[s][f] EXCEPT !.ready = TRUE]
      BY <1>2, <1>11, <3>1
    <3>3. \A t \in Side, g \in Fd : t # s \/ g # f => sock'[t][g] = sock[t][g]
      BY <1>2, <1>11, <3>1
    <3>4. /\ sock'[s][f] \in Socket /\ sock'[s][f].conn = sock[s][f].conn
          /\ sock[s][f].block => sock'[s][f].block
      BY <3>1, <3>2 DEF Socket
    <3>5. sock' \in [Side -> [Fd -> Socket]]
      BY <1>2, <1>11, <3>1, <3>2, <3>4
    <3>. QED
      BY <3>3, <3>4, <3>5
  <2>. QED
    BY <1>2, <1>4, <1>5, <1>6, <1>7, <1>11, <2>2, <2>3, <2>4, VHolding
<1>. QED
  BY <1>1, <1>10, <1>11

LEMMA VDataStep ==
  ASSUME MuxInv, History', NEW s \in Side, VData(s)
  PROVE  MuxInv'
<1>. DEFINE f == vp[s].fd
<1>1. /\ vp[s].pc = "msg" /\ vp[s].msg.type = "DATA"
      /\ UNCHANGED <<sock, clients, chan, flow, lp, tp>>
      /\ \/ ~Active(s, f, 0) /\ VDone(s) /\ UNCHANGED ent
         \/ /\ Active(s, f, 0) /\ UNCHANGED pool
            /\ ent' = [ent EXCEPT ![s][f].ref = @ + 1]
            /\ vp' = [vp EXCEPT ![s].pc = "check"]
  BY DEF VData, VHas
<1>2. UNCHANGED <<wrote, took, got, opened, win, asked, lp, tp>>
  BY <1>1 DEF clients, flow
<1>3. CASE ~Active(s, f, 0) /\ VDone(s) /\ UNCHANGED ent
  <2>1. /\ vp' = [vp EXCEPT ![s] = IdleV] /\ Sound(s, IdleV) /\ IdleV.pc = "idle"
        /\ alloted' \in [Side -> SUBSET Index]
        /\ buf' \in [Side -> [Index -> Item]]
    BY <1>3, VDoneFacts
  <2>2. /\ ent' \in [Side -> [Fd -> Entry]]
        /\ sock' \in [Side -> [Fd -> Socket]]
        /\ SameEntries /\ GuestCookies'
    BY <1>1, <1>3, NothingElse
  <2>3. /\ chan' \in [Side -> Seq(Msg)]
        /\ \A t \in Side : Len(chan'[t]) <= QueueLen
        /\ LinkRequests'
    BY <1>1, SameLink
  <2>4. win' \in [Side -> Int] /\ asked' \in [Side -> BOOLEAN]
    BY <1>2 DEF MuxInv, TypeOK
  <2>. QED
    BY <1>2, <2>1, <2>2, <2>3, <2>4, VQuiet
<1>4. CASE /\ Active(s, f, 0) /\ UNCHANGED pool
           /\ ent' = [ent EXCEPT ![s][f].ref = @ + 1]
           /\ vp' = [vp EXCEPT ![s].pc = "check"]
  BY <1>1, <1>2, <1>4, VRefersStep DEF Active
<1>. QED
  BY <1>1, <1>3, <1>4

LEMMA VAssertStep ==
  ASSUME MuxInv, History', NEW s \in Side, VAssert(s)
  PROVE  MuxInv'
<1>. DEFINE f == vp[s].fd
            e == ent[s][f]
            v == [vp[s] EXCEPT !.pc = "abort"]
<1>1. /\ vp[s].pc = "check" /\ vp' = [vp EXCEPT ![s].pc = "abort"]
      /\ UNCHANGED <<ent, sock, clients, chan, flow, pool, lp, tp>>
  BY DEF VAssert
<1>2. /\ f \in Fd /\ e \in Entry /\ e.used /\ e.ref >= 1
      /\ THolds(s, f) => e.ref >= 2
  BY <1>1, VHoldsFacts
<1>3. vp' = [vp EXCEPT ![s] = v] /\ ent' = [ent EXCEPT ![s][f] = e]
  BY <1>1, <1>2 DEF MuxInv, TypeOK
<1>4. Sound(s, v) /\ v.pc = "abort" /\ v.fd = f
  <2>1. Sound(s, vp[s])
    BY VSound
  <2>2. v \in VThread /\ v.pc = "abort" /\ v.fd = f /\ v.msg = vp[s].msg /\ v.out = vp[s].out
        /\ v.idx = vp[s].idx
    BY <2>1 DEF Sound, VThread
  <2>. HIDE DEF v
  <2>. QED
    BY <1>1, <1>2, <2>1, <2>2 DEF Sound
<1>5. UNCHANGED <<sock, got, chan, pool, wrote, took, opened, win, asked, lp, tp>>
  BY <1>1 DEF clients, flow
<1>6. tp[s][f].pc \in {"start", "write", "fail"} => e.sending
  BY <1>2 DEF MuxInv, OneWriter
<1>7. vp[s].fd = f /\ ent[s][f] = e /\ UNCHANGED <<sock, got, chan, pool>>
  BY <1>5
<1>. HIDE DEF f, e, v
<1>. QED
  BY <1>2, <1>3, <1>4, <1>5, <1>6, <1>7, SameRest, VHolding

LEMMA VCheckStep ==
  ASSUME MuxInv, History', NEW s \in Side, VCheck(s)
  PROVE  MuxInv'
<1>. DEFINE f == vp[s].fd
            e == ent[s][f]
            i == vp[s].idx
            w == [e EXCEPT !.sending = TRUE, !.added = FALSE]
            v == [vp[s] EXCEPT !.pc = "write"]
<1>1. /\ vp[s].pc = "check" /\ Enter(s, f)
      /\ ent' = [ent EXCEPT ![s][f] = IF e.sending THEN Queue(e, i) ELSE w]
      /\ vp' = [vp EXCEPT ![s] = IF e.sending THEN IdleV ELSE v]
      /\ UNCHANGED <<sock, clients, chan, flow, pool, lp, tp>>
  BY DEF VCheck, MuxInv, TypeOK
<1>2. /\ f \in Fd /\ e \in Entry /\ e.used /\ e.ref >= 1 /\ i \in Index
      /\ THolds(s, f) => e.ref >= 2
  BY <1>1, VHoldsFacts
<1>3. UNCHANGED <<wrote, took, got, opened, win, asked, lp, tp>>
  BY <1>1 DEF clients, flow
<1>4. /\ sock' \in [Side -> [Fd -> Socket]]
      /\ \A t \in Side, g \in Fd : /\ sock'[t][g].conn = sock[t][g].conn
                                   /\ sock[t][g].block => sock'[t][g].block
      /\ got' \in [Conn -> [Side -> Seq(Item)]]
      /\ chan' \in [Side -> Seq(Msg)]
      /\ \A t \in Side : Len(chan'[t]) <= QueueLen
      /\ alloted' \in [Side -> SUBSET Index]
      /\ buf' \in [Side -> [Index -> Item]]
      /\ LinkRequests'
  BY <1>1, <1>3, SameRest
<1>5. e.sending \in BOOLEAN /\ e.ref \in Nat
  BY <1>2, EntryFields
<1>6. tp[s][f].pc \in {"start", "write", "fail"} => e.sending
  BY <1>2 DEF MuxInv, OneWriter
<1>7. tp[s][f].pc \notin {"start", "write"} => tp[s][f].pc \in Past
  <2>1. tp[s][f] \in TThread
    BY <1>2 DEF MuxInv, TypeOK
  <2>2. tp[s][f].pc \notin {"clear", "fail"}
    BY <1>1, <1>2 DEF Enter, Held
  <2>. QED
    BY <2>1, <2>2 DEF TThread, Past
<1>8. /\ Sound(s, IdleV) /\ IdleV.pc = "idle"
      /\ Sound(s, v) /\ v.pc = "write" /\ v.fd = f
  <2>1. Sound(s, vp[s]) /\ vp[s].msg.type = "DATA"
    BY <1>1, VSound, VHoldsFacts
  <2>2. v \in VThread /\ v.pc = "write" /\ v.fd = f /\ v.msg = vp[s].msg /\ v.out = vp[s].out
        /\ v.idx = vp[s].idx
    BY <2>1 DEF Sound, VThread
  <2>. HIDE DEF v
  <2>3. Sound(s, v)
    BY <1>2, <2>1, <2>2 DEF Sound
  <2>4. Sound(s, IdleV) /\ IdleV.pc = "idle"
    BY NoMsgType DEF IdleV, Sound, VThread, AnyFd, Request
  <2>. QED
    BY <2>2, <2>3, <2>4
<1>9. vp[s].fd = f /\ ent[s][f] = e
  OBVIOUS
<1>10. CASE e.sending
  <2>. DEFINE q == Queue(e, i)
  <2>1. ent' = [ent EXCEPT ![s][f] = q] /\ vp' = [vp EXCEPT ![s] = IdleV]
    BY <1>1, <1>10
  <2>. HIDE DEF f, e, i, v
  <2>2. /\ q \in Entry /\ q.used = e.used /\ q.ref = e.ref
        /\ q.cookie = e.cookie /\ q.sending = e.sending
    BY <1>2, QueueFacts
  <2>. HIDE DEF q
  <2>3. q.used /\ q.ref >= 1 /\ q.sending
    BY <1>2, <1>10, <2>2
  <2>. QED
    BY <1>2, <1>3, <1>4, <1>8, <1>9, <2>1, <2>2, <2>3, VHolding
<1>11. CASE ~e.sending
  <2>1. ent' = [ent EXCEPT ![s][f] = w] /\ vp' = [vp EXCEPT ![s] = v]
    BY <1>1, <1>11
  <2>. HIDE DEF f, e, i, v
  <2>2. /\ w \in Entry /\ w.used = e.used /\ w.ref = e.ref
        /\ w.cookie = e.cookie /\ w.sending
    BY <1>2 DEF Entry
  <2>. HIDE DEF w
  <2>3. w.used /\ w.ref >= 1 /\ (THolds(s, f) => w.ref >= 2)
    BY <1>2, <2>2
  <2>4. tp[s][f].pc \in Past
    BY <1>6, <1>7, <1>11
  <2>. QED
    BY <1>2, <1>3, <1>4, <1>8, <1>9, <2>1, <2>2, <2>3, <2>4, VHolding
<1>. QED
  BY <1>5, <1>10, <1>11

\* What a client is given keeps its type.
LEMMA GivenType ==
  ASSUME MuxInv, NEW s \in Side, NEW f \in Fd, NEW i \in Index, got' = Given(s, f, i)
  PROVE  got' \in [Conn -> [Side -> Seq(Item)]]
<1>. DEFINE c == sock[s][f].conn
            b == buf[s][i]
<1>1. b \in Item
  BY DEF MuxInv, TypeOK
<1>2. got \in [Conn -> [Side -> Seq(Item)]]
  BY DEF MuxInv, Shapes
<1>3. got' = got \/ got' = [got EXCEPT ![c][s] = Append(@, b)]
  BY DEF Given
<1>. HIDE DEF b, c
<1>4. CASE c \in Conn
  <2>1. Append(got[c][s], b) \in Seq(Item)
    BY <1>1, <1>2, <1>4
  <2>. DEFINE r == [got[c] EXCEPT ![s] = Append(got[c][s], b)]
  <2>2. got' = got \/ got' = [got EXCEPT ![c] = r]
    BY <1>2, <1>3, <1>4
  <2>3. r \in [Side -> Seq(Item)]
    BY <1>2, <1>4, <2>1
  <2>. HIDE DEF r
  <2>. QED
    BY <1>2, <1>4, <2>2, <2>3
<1>5. CASE c \notin Conn
  BY <1>2, <1>3, <1>5
<1>. QED
  BY <1>4, <1>5

LEMMA VWriteStep ==
  ASSUME MuxInv, History', NEW s \in Side, VWrite(s)
  PROVE  MuxInv'
<1>. DEFINE f == vp[s].fd
            e == ent[s][f]
            c == Cleared(e)
            n == Released(c)
<1>1. /\ vp[s].pc = "write" /\ VDone(s)
      /\ got' = Given(s, f, vp[s].idx)
      /\ ent' = [ent EXCEPT ![s][f] = Released(Cleared(@))]
      /\ UNCHANGED <<sock, wrote, took, opened, chan, flow, lp, tp>>
  BY DEF VWrite
<1>2. /\ f \in Fd /\ e \in Entry /\ e.used /\ e.ref >= 1 /\ vp[s].idx \in Index
      /\ THolds(s, f) => e.ref >= 2
  BY <1>1, VHoldsFacts
<1>3. ent' = [ent EXCEPT ![s][f] = n]
  BY <1>1, <1>2 DEF MuxInv, TypeOK
<1>4. got' \in [Conn -> [Side -> Seq(Item)]]
  BY <1>1, <1>2, GivenType
<1>5. /\ vp' = [vp EXCEPT ![s] = IdleV] /\ Sound(s, IdleV) /\ IdleV.pc = "idle"
      /\ alloted' \in [Side -> SUBSET Index]
      /\ buf' \in [Side -> [Index -> Item]]
  BY <1>1, VDoneFacts
<1>6. /\ UNCHANGED <<wrote, took, opened, win, asked, lp, tp>>
      /\ sock' \in [Side -> [Fd -> Socket]]
      /\ \A t \in Side, g \in Fd : /\ sock'[t][g].conn = sock[t][g].conn
                                   /\ sock[t][g].block => sock'[t][g].block
  BY <1>1 DEF flow, MuxInv, TypeOK
<1>7. /\ chan' \in [Side -> Seq(Msg)]
      /\ \A t \in Side : Len(chan'[t]) <= QueueLen
      /\ LinkRequests'
  BY <1>1, SameLink
<1>8. vp[s].fd = f /\ ent[s][f] = e
  OBVIOUS
<1>9. tp[s][f].pc \in Past
  BY <1>1, <1>2 DEF MuxInv, OneWriter
<1>. HIDE DEF f, e
<1>10. /\ c \in Entry /\ c.used = e.used /\ c.ref = e.ref /\ c.cookie = e.cookie
  BY <1>2, ClearedFacts
<1>. HIDE DEF c
<1>11. /\ n \in Entry /\ n.used = c.used /\ n.ref = c.ref - 1 /\ n.cookie = c.cookie
  BY <1>2, <1>10, ReleasedFacts
<1>. HIDE DEF n
<1>12. n.used /\ n.cookie = e.cookie /\ (THolds(s, f) => n.ref >= 1)
  <2>1. e.ref \in Nat
    BY <1>2, EntryFields
  <2>. QED
    BY <1>2, <1>10, <1>11, <2>1
<1>. QED
  BY <1>2, <1>3, <1>4, <1>5, <1>6, <1>7, <1>8, <1>9, <1>11, <1>12, VHolding DEF Past

\* The socket is written by nobody but V, which gives way to a new thread.
LEMMA VSlowStep ==
  ASSUME MuxInv, History', NEW s \in Side, VSlow(s)
  PROVE  MuxInv'
<1>. DEFINE f == vp[s].fd
            i == vp[s].idx
            p == [IdleT EXCEPT !.pc = "start", !.idx = i]
<1>1. /\ vp[s].pc = "write" /\ ~sock[s][f].block
      /\ tp' = [tp EXCEPT ![s][f] = p]
      /\ vp' = [vp EXCEPT ![s] = IdleV]
      /\ UNCHANGED <<ent, sock, clients, chan, flow, pool, lp>>
  BY DEF VSlow
<1>2. f \in Fd /\ i \in Index /\ ent[s][f].ref >= 1
  BY <1>1, VHoldsFacts
<1>3. ent[s][f].sending /\ tp[s][f].pc = "none"
  BY <1>1, <1>2 DEF MuxInv, OneWriter, Past
<1>. HIDE DEF f, i
<1>4. /\ p \in TThread
      /\ p.pc = "start" /\ p.idx \in Index /\ ~Request(p.out)
  <2>1. 0 \in Index
    BY MxtAssumption DEF Index
  <2>. QED
    BY <1>2, <2>1, NoMsgType DEF IdleT, TThread, Request
<1>. HIDE DEF p
<1>5. /\ tp' \in [Side -> [Fd -> TThread]]
      /\ tp'[s][f] = p
      /\ \A t \in Side, g \in Fd : t # s \/ g # f => tp'[t][g] = tp[t][g]
  <2>1. tp \in [Side -> [Fd -> TThread]]
    BY DEF MuxInv, TypeOK
  <2>. QED
    BY <1>1, <1>2, <1>4, <2>1
<1>6. Sound(s, IdleV) /\ IdleV.pc = "idle"
  BY NoMsgType DEF IdleV, Sound, VThread, AnyFd, Request
<1>7. /\ vp' \in [Side -> VThread]
      /\ vp'[s] = IdleV
      /\ \A t \in Side : t # s => vp'[t] = vp[t]
  BY <1>1, <1>6 DEF MuxInv, TypeOK, VThread, Sound
<1>8. TypeOK' /\ Shapes'
  BY <1>1, <1>5, <1>7 DEF MuxInv, TypeOK, Shapes, VThread, clients, flow, pool, History
<1>9. Work'
  BY <1>1, <1>6, <1>7 DEF MuxInv, Work
<1>10. \A t \in Side, g \in Fd :
         /\ VHolds(t, g)' => VHolds(t, g) /\ (t # s \/ g # f)
         /\ THolds(t, g)' => THolds(t, g) \/ (t = s /\ g = f)
  <2>1. vp[s].fd = f
    BY DEF f
  <2>2. \A t \in Side, g \in Fd : VHolds(t, g)' => t # s /\ VHolds(t, g)
    BY <1>6, <1>7 DEF VHolds
  <2>3. \A t \in Side, g \in Fd : THolds(t, g)' => THolds(t, g) \/ (t = s /\ g = f)
    BY <1>5 DEF THolds
  <2>. QED
    BY <2>2, <2>3
<1>11. Counted'
  BY <1>1, <1>2, <1>10 DEF MuxInv, Counted
<1>12. OneWriter'
  <2>1. /\ tp'[s][f].pc = "start" /\ ent'[s][f].sending /\ tp'[s][f].idx \in Index
        /\ vp'[s].pc = "idle"
    BY <1>1, <1>3, <1>4, <1>5, <1>6, <1>7
  <2>2. \A t \in Side, g \in Fd : t # s \/ g # f =>
          /\ tp'[t][g].pc \in {"start", "write", "fail"} => ent'[t][g].sending
          /\ tp'[t][g].pc \in {"start", "write"} => tp'[t][g].idx \in Index
          /\ tp'[t][g].pc \notin {"none", "start"} => sock'[t][g].block
          /\ vp'[t].pc = "write" /\ vp'[t].fd = g =>
               ent'[t][g].sending /\ tp'[t][g].pc \in Past
    <3>1. \A t \in Side : vp'[t].pc = "write" => vp'[t] = vp[t]
      BY <1>6, <1>7
    <3>. QED
      BY <1>1, <1>5, <3>1 DEF MuxInv, OneWriter
  <2>. QED
    BY <2>1, <2>2 DEF OneWriter
<1>13. Requests'
  <2>1. /\ Request(vp'["host"].msg) => vp'["host"].msg.cookie # 0
        /\ ~Request(vp'["guest"].msg)
        /\ \A t \in Side : ~Request(vp'[t].out)
    <3>1. ~Request(IdleV.msg) /\ ~Request(IdleV.out)
      BY NoMsgType DEF IdleV, Request
    <3>. QED
      BY <1>7, <3>1 DEF MuxInv, Requests, Side
  <2>2. \A t \in Side, g \in Fd : ~Request(tp'[t][g].out)
    BY <1>4, <1>5 DEF MuxInv, Requests
  <2>. QED
    BY <1>1, <2>1, <2>2 DEF MuxInv, Requests
<1>14. Entries'
  BY <1>1 DEF MuxInv, Entries
<1>. QED
  BY <1>8, <1>9, <1>11, <1>12, <1>13, <1>14 DEF MuxInv

LEMMA VBrokenStep ==
  ASSUME MuxInv, History', NEW s \in Side, VBroken(s)
  PROVE  MuxInv'
<1>. DEFINE f == vp[s].fd
            d == ent[s][f]
            e == Cleared(d)
            k == Marked(e, FALSE, TRUE)
            n == Released(k)
            m == Farewell(e)
            v == [vp[s] EXCEPT !.pc = "send", !.out = m]
<1>1. /\ vp[s].pc = "write"
      /\ Shut(s, f, e)
      /\ \/ ent' = [ent EXCEPT ![s][f] = k] /\ VSays(s, m)
         \/ ent' = [ent EXCEPT ![s][f] = n] /\ VDone(s)
      /\ UNCHANGED <<clients, chan, flow, lp, tp>>
  BY DEF VBroken
<1>2. /\ f \in Fd /\ d \in Entry /\ d.used /\ d.ref >= 1 /\ vp[s].msg.type = "DATA"
      /\ THolds(s, f) => d.ref >= 2
  BY <1>1, VHoldsFacts
<1>3. vp[s].fd = f /\ ent[s][f] = d
  OBVIOUS
<1>4. tp[s][f].pc \in Past
  BY <1>1, <1>2 DEF MuxInv, OneWriter
<1>. HIDE DEF f, d
<1>5. /\ e \in Entry /\ e.used = d.used /\ e.ref = d.ref /\ e.cookie = d.cookie
      /\ e.sending = FALSE
  BY <1>2, ClearedFacts
<1>. HIDE DEF e
<1>6. /\ k \in Entry /\ k.used = e.used /\ k.ref = e.ref /\ k.cookie = e.cookie
  BY <1>5, MarkedFacts
<1>. HIDE DEF k
<1>7. /\ sock' \in [Side -> [Fd -> Socket]]
      /\ \A t \in Side, g \in Fd : /\ sock'[t][g].conn = sock[t][g].conn
                                   /\ sock[t][g].block => sock'[t][g].block
  BY <1>1, <1>2, <1>5, ShutFacts DEF MuxInv
<1>8. /\ UNCHANGED <<wrote, took, opened, win, asked, lp, tp>>
      /\ got' \in [Conn -> [Side -> Seq(Item)]]
  BY <1>1 DEF clients, flow, MuxInv, Shapes
<1>9. /\ chan' \in [Side -> Seq(Msg)]
      /\ \A t \in Side : Len(chan'[t]) <= QueueLen
      /\ LinkRequests'
  BY <1>1, SameLink
<1>10. d.ref \in Nat
  BY <1>2, EntryFields
<1>11. CASE ent' = [ent EXCEPT ![s][f] = k] /\ VSays(s, m)
  <2>1. m \in Msg /\ ~Request(m)
    BY <1>5, FarewellType
  <2>. HIDE DEF m
  <2>2. /\ vp' = [vp EXCEPT ![s] = v] /\ Sound(s, v)
        /\ v.pc = "send" /\ v.fd = f
        /\ alloted' \in [Side -> SUBSET Index]
        /\ buf' \in [Side -> [Index -> Item]]
    BY <1>1, <1>2, <1>3, <1>11, <2>1, VSaysFacts
  <2>. HIDE DEF v
  <2>3. /\ k.used /\ k.cookie = d.cookie /\ k.ref >= 1 /\ (THolds(s, f) => k.ref >= 2)
    BY <1>2, <1>5, <1>6
  <2>. QED
    BY <1>2, <1>3, <1>4, <1>6, <1>7, <1>8, <1>9, <1>11, <2>2, <2>3, VHolding DEF Past
<1>12. CASE ent' = [ent EXCEPT ![s][f] = n] /\ VDone(s)
  <2>1. /\ n \in Entry /\ n.used = k.used /\ n.ref = k.ref - 1 /\ n.cookie = k.cookie
    BY <1>2, <1>5, <1>6, ReleasedFacts
  <2>. HIDE DEF n
  <2>2. n.used /\ n.cookie = d.cookie /\ (THolds(s, f) => n.ref >= 1)
    BY <1>2, <1>5, <1>6, <1>10, <2>1
  <2>3. /\ vp' = [vp EXCEPT ![s] = IdleV] /\ Sound(s, IdleV) /\ IdleV.pc = "idle"
        /\ alloted' \in [Side -> SUBSET Index]
        /\ buf' \in [Side -> [Index -> Item]]
    BY <1>12, VDoneFacts
  <2>. QED
    BY <1>2, <1>3, <1>4, <1>7, <1>8, <1>9, <1>12, <2>1, <2>2, <2>3, VHolding DEF Past
<1>. QED
  BY <1>1, <1>11, <1>12

LEMMA VSentStep ==
  ASSUME MuxInv, History', NEW s \in Side, VSent(s)
  PROVE  MuxInv'
<1>. DEFINE f == vp[s].fd
            e == ent[s][f]
            m == vp[s].out
            n == Released(e)
<1>1. /\ vp[s].pc = "send" /\ Room(s) /\ Put(s, m) /\ VDone(s)
      /\ vp[s].msg.type = "DATA" => ent' = [ent EXCEPT ![s][f] = Released(@)]
      /\ vp[s].msg.type # "DATA" => ent' = ent
      /\ UNCHANGED <<sock, clients, flow, lp, tp>>
  BY DEF VSent
<1>2. m \in Msg /\ ~Request(m)
  BY VSound DEF Sound, VThread
<1>3. /\ chan' \in [Side -> Seq(Msg)]
      /\ \A t \in Side : Len(chan'[t]) <= QueueLen
  BY <1>1, <1>2, PutFacts DEF MuxInv
<1>4. LinkRequests'
  BY <1>1, <1>2, PutRequests DEF LinkRequests
<1>5. /\ vp' = [vp EXCEPT ![s] = IdleV] /\ Sound(s, IdleV) /\ IdleV.pc = "idle"
      /\ alloted' \in [Side -> SUBSET Index]
      /\ buf' \in [Side -> [Index -> Item]]
  BY <1>1, VDoneFacts
<1>6. /\ UNCHANGED <<wrote, took, got, opened, win, asked, lp, tp>>
      /\ got' \in [Conn -> [Side -> Seq(Item)]]
      /\ sock' \in [Side -> [Fd -> Socket]]
      /\ \A t \in Side, g \in Fd : /\ sock'[t][g].conn = sock[t][g].conn
                                   /\ sock[t][g].block => sock'[t][g].block
  BY <1>1 DEF clients, flow, MuxInv, TypeOK, Shapes
<1>7. CASE vp[s].msg.type # "DATA"
  <2>1. /\ ent' \in [Side -> [Fd -> Entry]]
        /\ sock' \in [Side -> [Fd -> Socket]]
        /\ SameEntries /\ GuestCookies'
    BY <1>1, <1>7, NothingElse
  <2>2. win' \in [Side -> Int] /\ asked' \in [Side -> BOOLEAN]
    BY <1>6 DEF MuxInv, TypeOK
  <2>. QED
    BY <1>3, <1>4, <1>5, <1>6, <2>1, <2>2, VQuiet
<1>8. CASE vp[s].msg.type = "DATA"
  <2>1. /\ f \in Fd /\ e \in Entry /\ e.used /\ e.ref >= 1
        /\ THolds(s, f) => e.ref >= 2
    BY <1>1, <1>8, VHoldsFacts
  <2>2. ent' = [ent EXCEPT ![s][f] = n]
    BY <1>1, <1>8, <2>1 DEF MuxInv, TypeOK
  <2>3. vp[s].fd = f /\ ent[s][f] = e
    OBVIOUS
  <2>4. tp[s][f].pc \in {"start", "write", "fail"} => e.sending
    BY <2>1 DEF MuxInv, OneWriter
  <2>. HIDE DEF f, e
  <2>5. /\ n \in Entry /\ n.used = e.used /\ n.ref = e.ref - 1
        /\ n.cookie = e.cookie /\ n.sending = e.sending
    BY <2>1, ReleasedFacts
  <2>6. e.ref \in Nat
    BY <2>1, EntryFields
  <2>. HIDE DEF n
  <2>7. /\ n.used /\ (THolds(s, f) => n.ref >= 1)
        /\ (tp[s][f].pc \in {"start", "write", "fail"} => n.sending)
    BY <2>1, <2>4, <2>5, <2>6
  <2>. QED
    BY <1>3, <1>4, <1>5, <1>6, <2>1, <2>2, <2>3, <2>5, <2>7, VHolding
<1>. QED
  BY <1>7, <1>8

-----------------------------------------------------------------------------
(* The dedicated threads *)


LEMMA IdleTFacts ==
  /\ IdleT \in TThread /\ IdleT.pc = "none" /\ ~Request(IdleT.out) /\ IdleT.pc \in Past
<1>1. 0 \in Index
  BY MxtAssumption DEF Index
<1>. QED
  BY <1>1, NoMsgType DEF IdleT, TThread, Request, Past

\* Steps of the thread of f that change its entry to n: a reference remains
\* for each of those who hold one.
LEMMA THolding ==
  ASSUME MuxInv, History', NEW s \in Side, NEW f \in Fd, NEW p \in TThread, NEW n \in Entry,
         ~Request(p.out),
         tp' = [tp EXCEPT ![s][f] = p],
         ent' = [ent EXCEPT ![s][f] = n],
         n.used, ent[s][f].used,
         n.cookie = ent[s][f].cookie,
         VHolds(s, f) \/ p.pc # "none" => n.ref >= 1,
         VHolds(s, f) /\ p.pc # "none" => n.ref >= 2,
         p.pc \in {"start", "write", "fail"} => n.sending,
         p.pc \in {"start", "write"} => p.idx \in Index,
         p.pc \notin {"none", "start"} => sock'[s][f].block,
         vp[s].pc = "write" /\ vp[s].fd = f => n.sending /\ p.pc \in Past,
         sock' \in [Side -> [Fd -> Socket]],
         \A t \in Side, g \in Fd : /\ sock'[t][g].conn = sock[t][g].conn
                                   /\ sock[t][g].block => sock'[t][g].block,
         got' \in [Conn -> [Side -> Seq(Item)]],
         chan' \in [Side -> Seq(Msg)],
         \A t \in Side : Len(chan'[t]) <= QueueLen,
         alloted' \in [Side -> SUBSET Index],
         buf' \in [Side -> [Index -> Item]],
         UNCHANGED <<wrote, took, opened, win, asked, lp, vp>>,
         LinkRequests'
  PROVE  MuxInv'
<1>1. /\ ent' \in [Side -> [Fd -> Entry]]
      /\ ent'[s][f] = n
      /\ \A t \in Side, g \in Fd : t # s \/ g # f => ent'[t][g] = ent[t][g]
  <2>1. ent \in [Side -> [Fd -> Entry]]
    BY DEF MuxInv, TypeOK
  <2>. QED
    BY <2>1
<1>2. /\ tp' \in [Side -> [Fd -> TThread]]
      /\ tp'[s][f] = p
      /\ \A t \in Side, g \in Fd : t # s \/ g # f => tp'[t][g] = tp[t][g]
  <2>1. tp \in [Side -> [Fd -> TThread]]
    BY DEF MuxInv, TypeOK, TThread
  <2>. QED
    BY <2>1
<1>3. TypeOK' /\ Shapes'
  BY <1>1, <1>2 DEF MuxInv, TypeOK, Shapes, TThread, History
<1>4. Work'
  BY DEF MuxInv, Work
<1>5. Requests'
  <2>1. \A t \in Side, g \in Fd : ~Request(tp'[t][g].out)
    BY <1>2 DEF MuxInv, Requests
  <2>2. \A g \in Fd : ent'["guest"][g].used => ent'["guest"][g].cookie # 0
    BY <1>1 DEF MuxInv, Requests, Side
  <2>. QED
    BY <2>1, <2>2 DEF MuxInv, Requests, LinkRequests
<1>6. Counted'
  <2>1. /\ VHolds(s, f)' \/ THolds(s, f)' => ent'[s][f].ref >= 1
        /\ VHolds(s, f)' /\ THolds(s, f)' => ent'[s][f].ref >= 2
    BY <1>1, <1>2 DEF VHolds, THolds
  <2>2. \A t \in Side, g \in Fd : t # s \/ g # f =>
          /\ VHolds(t, g)' \/ THolds(t, g)' => ent'[t][g].ref >= 1
          /\ VHolds(t, g)' /\ THolds(t, g)' => ent'[t][g].ref >= 2
    BY <1>1, <1>2 DEF MuxInv, Counted, VHolds, THolds
  <2>. QED
    BY <2>1, <2>2 DEF Counted
<1>7. OneWriter'
  <2>1. /\ tp'[s][f].pc \in {"start", "write", "fail"} => ent'[s][f].sending
        /\ tp'[s][f].pc \in {"start", "write"} => tp'[s][f].idx \in Index
        /\ tp'[s][f].pc \notin {"none", "start"} => sock'[s][f].block
        /\ vp'[s].pc = "write" /\ vp'[s].fd = f =>
             ent'[s][f].sending /\ tp'[s][f].pc \in Past
    BY <1>1, <1>2
  <2>2. \A t \in Side, g \in Fd : t # s \/ g # f =>
          /\ tp'[t][g].pc \in {"start", "write", "fail"} => ent'[t][g].sending
          /\ tp'[t][g].pc \in {"start", "write"} => tp'[t][g].idx \in Index
          /\ tp'[t][g].pc \notin {"none", "start"} => sock'[t][g].block
          /\ vp'[t].pc = "write" /\ vp'[t].fd = g =>
               ent'[t][g].sending /\ tp'[t][g].pc \in Past
    BY <1>1, <1>2 DEF MuxInv, OneWriter
  <2>. QED
    BY <2>1, <2>2 DEF OneWriter
<1>8. Entries'
  <2>. SUFFICES ASSUME NEW t \in Side, NEW g \in Fd
                PROVE  /\ ent'[t][g].used <=> sock'[t][g].conn # 0
                       /\ ent'[t][g].polled \/ ent'[t][g].ref > 0 => ent'[t][g].used
    BY DEF Entries
  <2>1. /\ ent[t][g].used <=> sock[t][g].conn # 0
        /\ ent[t][g].polled \/ ent[t][g].ref > 0 => ent[t][g].used
    BY DEF MuxInv, Entries
  <2>2. sock'[t][g].conn = sock[t][g].conn
    OBVIOUS
  <2>3. CASE t = s /\ g = f
    BY <1>1, <2>1, <2>2, <2>3
  <2>4. CASE t # s \/ g # f
    BY <1>1, <2>1, <2>2, <2>4
  <2>. QED
    BY <2>3, <2>4
<1>. QED
  BY <1>3, <1>4, <1>5, <1>6, <1>7, <1>8 DEF MuxInv

\* What the thread of f holds a reference to
LEMMA THoldsFacts ==
  ASSUME MuxInv, NEW s \in Side, NEW f \in Fd, THolds(s, f)
  PROVE  /\ ent[s][f] \in Entry /\ ent[s][f].used /\ ent[s][f].ref >= 1
         /\ ent[s][f].ref \in Nat
         /\ VHolds(s, f) => ent[s][f].ref >= 2
         /\ tp[s][f] \in TThread
<1>1. ent[s][f].ref >= 1 /\ (VHolds(s, f) => ent[s][f].ref >= 2)
  BY DEF MuxInv, Counted
<1>2. ent[s][f] \in Entry /\ tp[s][f] \in TThread
  BY DEF MuxInv, TypeOK, TThread
<1>3. ent[s][f].ref \in Nat
  BY <1>2, EntryFields
<1>4. ent[s][f].used
  BY <1>1, <1>3 DEF MuxInv, Entries
<1>. QED
  BY <1>1, <1>2, <1>3, <1>4

LEMMA ReclaimType ==
  ASSUME MuxInv, NEW s \in Side, NEW i, Reclaim(s, i)
  PROVE  alloted' \in [Side -> SUBSET Index] /\ buf' \in [Side -> [Index -> Item]]
<1>1. alloted' = [alloted EXCEPT ![s] = @ \ {i}] /\ buf' = [buf EXCEPT ![s][i] = NoItem]
  BY DEF Reclaim
<1>2. alloted' \in [Side -> SUBSET Index]
  BY <1>1 DEF MuxInv, TypeOK
<1>3. buf' \in [Side -> [Index -> Item]]
  BY <1>1, NoMsgType DEF MuxInv, TypeOK
<1>. QED
  BY <1>2, <1>3

LEMMA TStartStep ==
  ASSUME MuxInv, History', NEW s \in Side, NEW f \in Fd, TStart(s, f)
  PROVE  MuxInv'
<1>. DEFINE e == ent[s][f]
            i == e.start
            p == [tp[s][f] EXCEPT !.pc = "write", !.next = i]
<1>1. /\ tp[s][f].pc = "start"
      /\ tp' = [tp EXCEPT ![s][f].pc = "write", ![s][f].next = i]
      /\ sock' = [sock EXCEPT ![s][f].block = TRUE]
      /\ UNCHANGED <<ent, clients, chan, flow, pool, lp, vp>>
  BY DEF TStart
<1>2. THolds(s, f)
  BY <1>1 DEF THolds
<1>3. /\ e \in Entry /\ e.used /\ e.ref >= 1 /\ (VHolds(s, f) => e.ref >= 2)
      /\ tp[s][f] \in TThread
  BY <1>2, THoldsFacts
<1>4. i \in Index
  BY <1>3, EntryFields
<1>5. /\ tp' = [tp EXCEPT ![s][f] = p]
      /\ ent' = [ent EXCEPT ![s][f] = e]
  <2>1. tp \in [Side -> [Fd -> TThread]] /\ ent \in [Side -> [Fd -> Entry]]
    BY DEF MuxInv, TypeOK, TThread
  <2>. HIDE DEF i
  <2>2. tp' = [tp EXCEPT ![s][f] = p]
    BY <1>1, <2>1
  <2>3. [ent EXCEPT ![s][f] = ent[s][f]] = ent
    BY <2>1
  <2>. QED
    BY <1>1, <2>2, <2>3
<1>6. /\ e.sending /\ tp[s][f].idx \in Index
      /\ ~(vp[s].pc = "write" /\ vp[s].fd = f)
  BY <1>1 DEF MuxInv, OneWriter, Past
<1>7. ~Request(tp[s][f].out)
  BY DEF MuxInv, Requests
<1>8. ent[s][f] = e
  OBVIOUS
<1>. HIDE DEF i, e
<1>9. p \in TThread /\ p.pc = "write" /\ p.out = tp[s][f].out /\ p.idx \in Index
  BY <1>3, <1>4, <1>6 DEF TThread
<1>. HIDE DEF p
<1>10. /\ UNCHANGED <<wrote, took, opened, chan, win, asked, lp, vp>>
       /\ got' \in [Conn -> [Side -> Seq(Item)]]
       /\ alloted' \in [Side -> SUBSET Index]
       /\ buf' \in [Side -> [Index -> Item]]
  BY <1>1 DEF clients, flow, pool, MuxInv, TypeOK, Shapes
<1>11. /\ chan' \in [Side -> Seq(Msg)]
       /\ \A t \in Side : Len(chan'[t]) <= QueueLen
       /\ LinkRequests'
  BY <1>10, SameLink
<1>12. ~Request(p.out)
  BY <1>7, <1>9
<1>13. /\ sock' \in [Side -> [Fd -> Socket]]
       /\ sock'[s][f].block
       /\ \A t \in Side, g \in Fd : /\ sock'[t][g].conn = sock[t][g].conn
                                    /\ sock[t][g].block => sock'[t][g].block
  <2>1. sock[s][f] \in Socket /\ sock \in [Side -> [Fd -> Socket]]
    BY DEF MuxInv, TypeOK
  <2>2. sock'[s][f] = [sock[s][f] EXCEPT !.block = TRUE]
    BY <1>1, <2>1
  <2>3. \A t \in Side, g \in Fd : t # s \/ g # f => sock'[t][g] = sock[t][g]
    BY <1>1, <2>1
  <2>4. sock'[s][f] \in Socket /\ sock'[s][f].conn = sock[s][f].conn /\ sock'[s][f].block
    BY <2>1, <2>2 DEF Socket
  <2>5. sock' \in [Side -> [Fd -> Socket]]
    BY <1>1, <2>1, <2>2, <2>4
  <2>. QED
    BY <2>3, <2>4, <2>5
<1>. QED
  BY <1>3, <1>5, <1>6, <1>8, <1>9, <1>10, <1>11, <1>12, <1>13, THolding

LEMMA TSentStep ==
  ASSUME MuxInv, History', NEW s \in Side, NEW f \in Fd, TSent(s, f)
  PROVE  MuxInv'
<1>. DEFINE e == ent[s][f]
            m == tp[s][f].out
            n == Released(e)
<1>1. /\ tp[s][f].pc = "send" /\ Room(s) /\ Put(s, m)
      /\ ent' = [ent EXCEPT ![s][f] = Released(@)]
      /\ tp' = [tp EXCEPT ![s][f] = IdleT]
      /\ UNCHANGED <<sock, clients, flow, pool, lp, vp>>
  BY DEF TSent
<1>2. THolds(s, f)
  BY <1>1 DEF THolds
<1>3. /\ e \in Entry /\ e.used /\ e.ref >= 1 /\ e.ref \in Nat /\ (VHolds(s, f) => e.ref >= 2)
      /\ tp[s][f] \in TThread
  BY <1>2, THoldsFacts
<1>4. m \in Msg /\ ~Request(m)
  BY <1>3 DEF TThread, MuxInv, Requests
<1>5. /\ chan' \in [Side -> Seq(Msg)]
      /\ \A t \in Side : Len(chan'[t]) <= QueueLen
  BY <1>1, <1>4, PutFacts DEF MuxInv
<1>6. LinkRequests'
  BY <1>1, <1>4, PutRequests DEF LinkRequests
<1>7. ent' = [ent EXCEPT ![s][f] = n]
  BY <1>1 DEF MuxInv, TypeOK
<1>8. vp[s].pc = "write" /\ vp[s].fd = f => e.sending
  BY DEF MuxInv, OneWriter
<1>9. ent[s][f] = e
  OBVIOUS
<1>. HIDE DEF e, m
<1>10. /\ n \in Entry /\ n.used = e.used /\ n.ref = e.ref - 1
       /\ n.cookie = e.cookie /\ n.sending = e.sending
  BY <1>3, ReleasedFacts
<1>. HIDE DEF n
<1>11. /\ n.used /\ (VHolds(s, f) => n.ref >= 1)
       /\ (vp[s].pc = "write" /\ vp[s].fd = f => n.sending)
  BY <1>3, <1>8, <1>10
<1>12. IdleT \in TThread /\ IdleT.pc = "none" /\ ~Request(IdleT.out) /\ IdleT.pc \in Past
  BY IdleTFacts
<1>13. /\ UNCHANGED <<wrote, took, opened, win, asked, lp, vp>>
       /\ got' \in [Conn -> [Side -> Seq(Item)]]
       /\ sock' \in [Side -> [Fd -> Socket]]
       /\ alloted' \in [Side -> SUBSET Index]
       /\ buf' \in [Side -> [Index -> Item]]
       /\ \A t \in Side, g \in Fd : /\ sock'[t][g].conn = sock[t][g].conn
                                    /\ sock[t][g].block => sock'[t][g].block
  BY <1>1 DEF clients, flow, pool, MuxInv, TypeOK, Shapes
<1>. QED
  BY <1>1, <1>3, <1>5, <1>6, <1>7, <1>9, <1>10, <1>11, <1>12, <1>13, THolding

\* What a step of the thread of f has if it leaves the sockets, the link and the
\* buffers alone
LEMMA TRest ==
  ASSUME MuxInv, NEW s \in Side, NEW f \in Fd, UNCHANGED <<sock, clients, chan, flow, pool, lp, vp>>
  PROVE  /\ UNCHANGED <<wrote, took, opened, win, asked, lp, vp>>
         /\ sock' \in [Side -> [Fd -> Socket]]
         /\ \A t \in Side, g \in Fd : /\ sock'[t][g].conn = sock[t][g].conn
                                      /\ sock[t][g].block => sock'[t][g].block
         /\ got' \in [Conn -> [Side -> Seq(Item)]]
         /\ chan' \in [Side -> Seq(Msg)]
         /\ \A t \in Side : Len(chan'[t]) <= QueueLen
         /\ alloted' \in [Side -> SUBSET Index]
         /\ buf' \in [Side -> [Index -> Item]]
         /\ LinkRequests'
<1>1. UNCHANGED <<sock, got, chan, pool>> /\ UNCHANGED <<wrote, took, opened, win, asked, lp, vp>>
  BY DEF clients, flow
<1>. QED
  BY <1>1, SameRest

LEMMA TClearStep ==
  ASSUME MuxInv, History', NEW s \in Side, NEW f \in Fd, TClear(s, f)
  PROVE  MuxInv'
<1>. DEFINE d == ent[s][f]
            e == Cleared(d)
            n == Released(e)
            mark == [tp[s][f] EXCEPT !.pc = "mark"]
            stuck == [tp[s][f] EXCEPT !.pc = "stuck"]
<1>1. /\ tp[s][f].pc \in {"clear", "fail"}
      /\ UNCHANGED <<sock, clients, chan, flow, pool, lp, vp>>
      /\ \/ tp' = [tp EXCEPT ![s][f].pc = "mark"] /\ ent' = [ent EXCEPT ![s][f] = e]
         \/ tp' = [tp EXCEPT ![s][f] = IdleT] /\ ent' = [ent EXCEPT ![s][f] = n]
         \/ tp' = [tp EXCEPT ![s][f].pc = "stuck"] /\ UNCHANGED ent
  BY MxtAssumption DEF TClear, Held
<1>2. THolds(s, f)
  BY <1>1 DEF THolds
<1>3. /\ d \in Entry /\ d.used /\ d.ref >= 1 /\ d.ref \in Nat /\ (VHolds(s, f) => d.ref >= 2)
      /\ tp[s][f] \in TThread
  BY <1>2, THoldsFacts
<1>4. ~(vp[s].pc = "write" /\ vp[s].fd = f) /\ sock[s][f].block
  BY <1>1 DEF MuxInv, OneWriter, Past
<1>5. ~Request(tp[s][f].out)
  BY DEF MuxInv, Requests
<1>6. /\ tp' = [tp EXCEPT ![s][f].pc = "mark"] => tp' = [tp EXCEPT ![s][f] = mark]
      /\ tp' = [tp EXCEPT ![s][f].pc = "stuck"] => tp' = [tp EXCEPT ![s][f] = stuck]
      /\ UNCHANGED ent => ent' = [ent EXCEPT ![s][f] = d]
  BY DEF MuxInv, TypeOK
<1>7. /\ mark \in TThread /\ mark.pc = "mark" /\ ~Request(mark.out)
      /\ stuck \in TThread /\ stuck.pc = "stuck" /\ ~Request(stuck.out)
      /\ IdleT \in TThread /\ IdleT.pc = "none" /\ ~Request(IdleT.out)
  BY <1>3, <1>5, IdleTFacts DEF TThread
<1>8. ent[s][f] = d
  OBVIOUS
<1>. HIDE DEF d, mark, stuck
<1>9. /\ e \in Entry /\ e.used = d.used /\ e.ref = d.ref /\ e.cookie = d.cookie
  BY <1>3, ClearedFacts
<1>. HIDE DEF e
<1>10. /\ n \in Entry /\ n.used = e.used /\ n.ref = e.ref - 1 /\ n.cookie = e.cookie
  BY <1>3, <1>9, ReleasedFacts
<1>. HIDE DEF n
<1>11. /\ e.used /\ e.ref >= 1 /\ e.cookie = d.cookie /\ (VHolds(s, f) => e.ref >= 2)
       /\ n.used /\ n.cookie = d.cookie /\ (VHolds(s, f) => n.ref >= 1)
  BY <1>3, <1>9, <1>10
<1>12. sock'[s][f].block
  BY <1>1, <1>4
<1>13. CASE tp' = [tp EXCEPT ![s][f].pc = "mark"] /\ ent' = [ent EXCEPT ![s][f] = e]
  BY <1>1, <1>3, <1>4, <1>6, <1>7, <1>8, <1>9, <1>11, <1>12, <1>13, TRest, THolding
<1>14. CASE tp' = [tp EXCEPT ![s][f] = IdleT] /\ ent' = [ent EXCEPT ![s][f] = n]
  BY <1>1, <1>3, <1>4, <1>7, <1>8, <1>10, <1>11, <1>12, <1>14, TRest, THolding
<1>15. CASE tp' = [tp EXCEPT ![s][f].pc = "stuck"] /\ UNCHANGED ent
  BY <1>1, <1>3, <1>4, <1>6, <1>7, <1>8, <1>12, <1>15, TRest, THolding
<1>. QED
  BY <1>1, <1>13, <1>14, <1>15

LEMMA ClashStep ==
  ASSUME MuxInv, History', NEW s \in Side, NEW f \in Fd, Clash(s, f)
  PROVE  MuxInv'
<1>. DEFINE d == ent[s][f]
            stuck == [tp[s][f] EXCEPT !.pc = "stuck"]
<1>1. /\ tp[s][f].pc \in {"clear", "fail"}
      /\ tp' = [tp EXCEPT ![s][f].pc = "stuck"]
      /\ UNCHANGED <<ent, sock, clients, chan, flow, pool, lp, vp>>
  BY DEF Clash, Held
<1>2. THolds(s, f)
  BY <1>1 DEF THolds
<1>3. /\ d \in Entry /\ d.used /\ d.ref >= 1 /\ d.ref \in Nat /\ (VHolds(s, f) => d.ref >= 2)
      /\ tp[s][f] \in TThread
  BY <1>2, THoldsFacts
<1>4. ~(vp[s].pc = "write" /\ vp[s].fd = f) /\ sock'[s][f].block
  BY <1>1 DEF MuxInv, OneWriter, Past
<1>5. ~Request(tp[s][f].out)
  BY DEF MuxInv, Requests
<1>6. tp' = [tp EXCEPT ![s][f] = stuck] /\ ent' = [ent EXCEPT ![s][f] = d]
  BY <1>1 DEF MuxInv, TypeOK
<1>7. stuck \in TThread /\ stuck.pc = "stuck" /\ ~Request(stuck.out)
  BY <1>3, <1>5 DEF TThread
<1>8. ent[s][f] = d
  OBVIOUS
<1>9. UNCHANGED <<sock, clients, chan, flow, pool, lp, vp>>
  BY <1>1
<1>. HIDE DEF d, stuck
<1>. QED
  BY <1>3, <1>4, <1>6, <1>7, <1>8, <1>9, TRest, THolding

LEMMA TMarkStep ==
  ASSUME MuxInv, History', NEW s \in Side, NEW f \in Fd, TMark(s, f)
  PROVE  MuxInv'
<1>. DEFINE e == ent[s][f]
            k == Marked(e, FALSE, TRUE)
            n == Released(k)
            m == Farewell(e)
            send == [IdleT EXCEPT !.pc = "send", !.out = m]
<1>1. /\ tp[s][f].pc = "mark"
      /\ Shut(s, f, e)
      /\ \/ ent' = [ent EXCEPT ![s][f] = k] /\ tp' = [tp EXCEPT ![s][f] = send]
         \/ ent' = [ent EXCEPT ![s][f] = n] /\ tp' = [tp EXCEPT ![s][f] = IdleT]
      /\ UNCHANGED <<clients, chan, flow, pool, lp, vp>>
  BY DEF TMark
<1>2. THolds(s, f)
  BY <1>1 DEF THolds
<1>3. /\ e \in Entry /\ e.used /\ e.ref >= 1 /\ e.ref \in Nat /\ (VHolds(s, f) => e.ref >= 2)
      /\ tp[s][f] \in TThread
  BY <1>2, THoldsFacts
<1>4. /\ vp[s].pc = "write" /\ vp[s].fd = f => e.sending
      /\ sock[s][f].block
  BY <1>1 DEF MuxInv, OneWriter
<1>5. ent[s][f] = e
  OBVIOUS
<1>. HIDE DEF e
<1>6. /\ sock' \in [Side -> [Fd -> Socket]]
      /\ \A t \in Side, g \in Fd : /\ sock'[t][g].conn = sock[t][g].conn
                                   /\ sock[t][g].block => sock'[t][g].block
  BY <1>1, <1>3, ShutFacts DEF MuxInv
<1>7. /\ k \in Entry /\ k.used = e.used /\ k.ref = e.ref /\ k.cookie = e.cookie
      /\ k.sending = e.sending
  BY <1>3, MarkedFacts
<1>8. m \in Msg /\ ~Request(m)
  BY <1>3, FarewellType
<1>. HIDE DEF k, m
<1>9. /\ n \in Entry /\ n.used = k.used /\ n.ref = k.ref - 1 /\ n.cookie = k.cookie
      /\ n.sending = k.sending
  BY <1>3, <1>7, ReleasedFacts
<1>. HIDE DEF n
<1>10. /\ IdleT \in TThread /\ IdleT.pc = "none" /\ ~Request(IdleT.out)
       /\ send \in TThread /\ send.pc = "send" /\ ~Request(send.out)
       /\ IdleT.pc \in Past /\ send.pc \in Past
  BY <1>8, IdleTFacts DEF TThread, Past
<1>. HIDE DEF send
<1>11. /\ k.used /\ k.ref >= 1 /\ k.cookie = e.cookie /\ (VHolds(s, f) => k.ref >= 2)
       /\ n.used /\ n.cookie = e.cookie /\ (VHolds(s, f) => n.ref >= 1)
       /\ vp[s].pc = "write" /\ vp[s].fd = f => k.sending /\ n.sending
  BY <1>3, <1>4, <1>7, <1>9
<1>12. /\ UNCHANGED <<wrote, took, opened, win, asked, lp, vp>>
       /\ got' \in [Conn -> [Side -> Seq(Item)]]
       /\ alloted' \in [Side -> SUBSET Index]
       /\ buf' \in [Side -> [Index -> Item]]
  BY <1>1 DEF clients, flow, pool, MuxInv, TypeOK, Shapes
<1>13. /\ chan' \in [Side -> Seq(Msg)]
       /\ \A t \in Side : Len(chan'[t]) <= QueueLen
       /\ LinkRequests'
  BY <1>1, SameLink
<1>14. sock'[s][f].block
  BY <1>4, <1>6
<1>15. CASE ent' = [ent EXCEPT ![s][f] = k] /\ tp' = [tp EXCEPT ![s][f] = send]
  BY <1>3, <1>5, <1>6, <1>7, <1>10, <1>11, <1>12, <1>13, <1>14, <1>15, THolding
<1>16. CASE ent' = [ent EXCEPT ![s][f] = n] /\ tp' = [tp EXCEPT ![s][f] = IdleT]
  BY <1>3, <1>5, <1>6, <1>9, <1>10, <1>11, <1>12, <1>13, <1>14, <1>16, THolding
<1>. QED
  BY <1>1, <1>15, <1>16

LEMMA TFailsStep ==
  ASSUME MuxInv, History', NEW s \in Side, NEW f \in Fd, TFails(s, f)
  PROVE  MuxInv'
<1>. DEFINE e == ent[s][f]
            p == [IdleT EXCEPT !.pc = "fail"]
<1>1. /\ tp[s][f].pc = "write" /\ Reclaim(s, tp[s][f].idx)
      /\ tp' = [tp EXCEPT ![s][f] = p]
      /\ UNCHANGED <<ent, sock, clients, chan, flow, lp, vp>>
  BY DEF TFails
<1>2. THolds(s, f)
  BY <1>1 DEF THolds
<1>3. /\ e \in Entry /\ e.used /\ e.ref >= 1 /\ (VHolds(s, f) => e.ref >= 2)
  BY <1>2, THoldsFacts
<1>4. /\ e.sending /\ ~(vp[s].pc = "write" /\ vp[s].fd = f)
      /\ sock[s][f].block
  BY <1>1 DEF MuxInv, OneWriter, Past
<1>5. p \in TThread /\ p.pc = "fail" /\ ~Request(p.out)
  BY IdleTFacts DEF TThread
<1>6. ent' = [ent EXCEPT ![s][f] = e] /\ ent[s][f] = e
  BY <1>1 DEF MuxInv, TypeOK
<1>. HIDE DEF e, p
<1>7. alloted' \in [Side -> SUBSET Index] /\ buf' \in [Side -> [Index -> Item]]
  BY <1>1, ReclaimType
<1>8. /\ UNCHANGED <<wrote, took, opened, chan, win, asked, lp, vp>>
      /\ got' \in [Conn -> [Side -> Seq(Item)]]
      /\ sock' \in [Side -> [Fd -> Socket]] /\ sock'[s][f].block
      /\ \A t \in Side, g \in Fd : /\ sock'[t][g].conn = sock[t][g].conn
                                   /\ sock[t][g].block => sock'[t][g].block
  BY <1>1, <1>4 DEF clients, flow, MuxInv, TypeOK, Shapes
<1>9. /\ chan' \in [Side -> Seq(Msg)]
      /\ \A t \in Side : Len(chan'[t]) <= QueueLen
      /\ LinkRequests'
  BY <1>1, SameLink
<1>. QED
  BY <1>1, <1>3, <1>4, <1>5, <1>6, <1>7, <1>8, <1>9, THolding

LEMMA TWriteStep ==
  ASSUME MuxInv, History', NEW s \in Side, NEW f \in Fd, TWrite(s, f)
  PROVE  MuxInv'
<1>. DEFINE e == ent[s][f]
            o == tp[s][f].next
            i == e.slots[o]
            a == (o + 1) % BufCnt
            p == [tp[s][f] EXCEPT !.idx = i, !.next = a]
            n == [e EXCEPT !.start = a]
            c == Cleaned(e)
            z == [IdleT EXCEPT !.pc = IF Recursive THEN "clear" ELSE "abort"]
<1>1. /\ tp[s][f].pc = "write" /\ Reclaim(s, tp[s][f].idx)
      /\ got' = Given(s, f, tp[s][f].idx)
      /\ UNCHANGED <<sock, wrote, took, opened, chan, flow, lp, vp>>
  BY DEF TWrite
<1>2. \/ /\ tp' = [tp EXCEPT ![s][f].idx = i, ![s][f].next = a]
         /\ ent' = [ent EXCEPT ![s][f].start = a]
      \/ tp' = [tp EXCEPT ![s][f] = z] /\ ent' = [ent EXCEPT ![s][f] = c]
  BY DEF TWrite, TNext
<1>3. THolds(s, f)
  BY <1>1 DEF THolds
<1>4. /\ e \in Entry /\ e.used /\ e.ref >= 1 /\ (VHolds(s, f) => e.ref >= 2)
      /\ tp[s][f] \in TThread
  BY <1>3, THoldsFacts
<1>5. got' \in [Conn -> [Side -> Seq(Item)]]
  <2>1. tp[s][f].idx \in Index
    BY <1>1 DEF MuxInv, OneWriter
  <2>. QED
    BY <1>1, <2>1, GivenType
<1>6. alloted' \in [Side -> SUBSET Index] /\ buf' \in [Side -> [Index -> Item]]
  BY <1>1, ReclaimType
<1>7. UNCHANGED <<wrote, took, opened, chan, win, asked, lp, vp>>
  BY <1>1 DEF flow
<1>8. /\ chan' \in [Side -> Seq(Msg)]
       /\ \A t \in Side : Len(chan'[t]) <= QueueLen
       /\ LinkRequests'
  BY <1>7, SameLink
<1>9. /\ e.sending /\ ~(vp[s].pc = "write" /\ vp[s].fd = f) /\ ~Request(tp[s][f].out)
       /\ sock[s][f].block
  BY <1>1 DEF MuxInv, OneWriter, Past, Requests
<1>10. /\ sock' \in [Side -> [Fd -> Socket]] /\ sock'[s][f].block
       /\ \A t \in Side, g \in Fd : /\ sock'[t][g].conn = sock[t][g].conn
                                    /\ sock[t][g].block => sock'[t][g].block
  BY <1>1, <1>9 DEF MuxInv, TypeOK
<1>11. ent[s][f] = e
  OBVIOUS
<1>12. CASE tp' = [tp EXCEPT ![s][f] = z] /\ ent' = [ent EXCEPT ![s][f] = c]
  <2>1. z \in TThread /\ z.pc \in {"clear", "abort"} /\ ~Request(z.out)
    BY IdleTFacts DEF TThread
  <2>. HIDE DEF e, z
  <2>2. /\ c \in Entry /\ c.used = e.used /\ c.ref = e.ref /\ c.cookie = e.cookie
    BY <1>4, CleanedFacts
  <2>. HIDE DEF c
  <2>3. c.used /\ c.ref >= 1 /\ (VHolds(s, f) => c.ref >= 2)
    BY <1>4, <2>2
  <2>. QED
    BY <1>4, <1>5, <1>6, <1>7, <1>12, <1>8, <1>9, <1>10, <1>11, <2>1, <2>2, <2>3, THolding
<1>13. CASE /\ tp' = [tp EXCEPT ![s][f].idx = i, ![s][f].next = a]
           /\ ent' = [ent EXCEPT ![s][f].start = a]
  <2>1. o \in Index /\ e.slots \in [Index -> Index]
    BY <1>4, EntryFields DEF TThread
  <2>2. a \in Index
    <3>. HIDE DEF o
    <3>1. o \in Nat /\ BufCnt \in Nat \ {0}
      BY <2>1, MxtAssumption DEF Index
    <3>. QED
      BY <3>1 DEF Index
  <2>3. i \in Index
    BY <2>1
  <2>4. tp' = [tp EXCEPT ![s][f] = p] /\ ent' = [ent EXCEPT ![s][f] = n]
    <3>1. tp \in [Side -> [Fd -> TThread]] /\ ent \in [Side -> [Fd -> Entry]]
      BY DEF MuxInv, TypeOK
    <3>. HIDE DEF i, a
    <3>. QED
      BY <1>13, <3>1
  <2>. HIDE DEF e, o, i, a
  <2>5. p \in TThread /\ p.pc = "write" /\ p.out = tp[s][f].out /\ p.idx \in Index
    BY <1>1, <1>4, <2>2, <2>3 DEF TThread
  <2>6. /\ n \in Entry /\ n.used = e.used /\ n.ref = e.ref /\ n.cookie = e.cookie
        /\ n.sending = e.sending
    BY <1>4, <2>2 DEF Entry
  <2>. HIDE DEF p, n
  <2>7. n.used /\ n.ref >= 1 /\ (VHolds(s, f) => n.ref >= 2) /\ n.sending /\ ~Request(p.out)
    BY <1>4, <1>9, <2>5, <2>6
  <2>. QED
    BY <1>4, <1>5, <1>6, <1>7, <1>8, <1>9, <1>10, <1>11, <2>4, <2>5, <2>6, <2>7, THolding
<1>. QED
  BY <1>2, <1>12, <1>13

-----------------------------------------------------------------------------
(* The specification keeps the invariant *)

LEMMA InitInv == Init => MuxInv
<1>. SUFFICES ASSUME Init PROVE MuxInv
  OBVIOUS
<1>1. NoEntry \in Entry /\ ~NoEntry.used /\ ~NoEntry.polled /\ NoEntry.ref = 0
  <2>1. 0 \in Index /\ 0 \in 0 .. MaxConn
    BY MxtAssumption DEF Index
  <2>2. [i \in Index |-> 0] \in [Index -> Index] /\ [i \in Index |-> FALSE] \in [Index -> BOOLEAN]
    BY <2>1
  <2>. QED
    BY <2>1, <2>2 DEF NoEntry, Entry, AnyFd
<1>2. NoSocket \in Socket /\ NoSocket.conn = 0
  BY MxtAssumption DEF NoSocket, Socket
<1>3. /\ IdleL \in LThread
      /\ IdleL.pc = "poll" /\ ~Request(IdleL.out)
  BY NoMsgType DEF IdleL, LThread, AnyFd, Request
<1>4. /\ IdleV \in VThread /\ IdleV.pc = "idle" /\ ~Request(IdleV.msg) /\ ~Request(IdleV.out)
  BY NoMsgType DEF IdleV, VThread, AnyFd, Request
<1>5. IdleT \in TThread /\ IdleT.pc = "none" /\ ~Request(IdleT.out)
  <2>1. 0 \in Index
    BY MxtAssumption DEF Index
  <2>. QED
    BY <2>1, NoMsgType DEF IdleT, TThread, Request
<1>. HIDE DEF NoEntry, NoSocket, IdleL, IdleV, IdleT
<1>6. /\ ent \in [Side -> [Fd -> Entry]] /\ \A s \in Side, f \in Fd : ent[s][f] = NoEntry
      /\ sock \in [Side -> [Fd -> Socket]] /\ \A s \in Side, f \in Fd : sock[s][f] = NoSocket
  BY <1>1, <1>2 DEF Init, Both
<1>7. /\ lp \in [Side -> LThread]
      /\ \A s \in Side : lp[s] = IdleL
      /\ vp \in [Side -> VThread] /\ \A s \in Side : vp[s] = IdleV
      /\ tp \in [Side -> [Fd -> TThread]] /\ \A s \in Side, f \in Fd : tp[s][f] = IdleT
  BY <1>3, <1>4, <1>5 DEF Init, Both
<1>8. /\ wrote \in [Conn -> [Side -> 0 .. MaxData]]
      /\ took \in [Conn -> [Side -> 0 .. MaxData]]
      /\ opened \in 0 .. MaxConn
  BY MxtAssumption DEF Init, Both
<1>9. got \in [Conn -> [Side -> Seq(Item)]] /\ chan \in [Side -> Seq(Msg)]
  BY DEF Init, Both
<1>10. \A s \in Side : chan[s] = <<>>
  BY DEF Init, Both
<1>11. \A s \in Side : chan[s] \in Seq(Msg) /\ Len(chan[s]) <= QueueLen
  BY <1>9, <1>10, MxtAssumption
<1>12. win \in [Side -> Int] /\ asked \in [Side -> BOOLEAN] /\ alloted \in [Side -> SUBSET Index]
  BY MxtAssumption DEF Init, Both
<1>13. buf \in [Side -> [Index -> Item]]
  BY NoMsgType DEF Init, Both
<1>14. TypeOK /\ Shapes
  BY <1>6, <1>7, <1>8, <1>9, <1>11, <1>12, <1>13 DEF TypeOK, Shapes, Init
<1>15. Work
  BY <1>3, <1>4, <1>7 DEF Work
<1>16. Counted /\ OneWriter
  BY <1>4, <1>5, <1>7 DEF Counted, OneWriter, VHolds, THolds
<1>17. Requests
  BY <1>1, <1>3, <1>4, <1>5, <1>6, <1>7, <1>10 DEF Requests, Side
<1>18. Entries
  BY <1>1, <1>2, <1>6 DEF Entries
<1>. QED
  BY <1>14, <1>15, <1>16, <1>17, <1>18 DEF MuxInv

LEMMA LScanStep ==
  ASSUME MuxInv, History', NEW s \in Side, NEW f \in Fd, LScan(s, f)
  PROVE  MuxInv'
<1>1. CASE LInactive(s, f)
  BY <1>1, LMarkStep DEF LInactive
<1>2. CASE LClosed(s, f)
  BY <1>2, LMarkStep DEF LClosed
<1>3. CASE LHandshake(s, f)
  BY <1>3, LHandshakeStep
<1>4. CASE LAsk(s, f)
  BY <1>4, LAskStep
<1>5. CASE LRead(s, f)
  BY <1>5, LReadStep
<1>. QED
  BY <1>1, <1>2, <1>3, <1>4, <1>5 DEF LScan

LEMMA VRunStep ==
  ASSUME MuxInv, History', NEW s \in Side, VRun(s)
  PROVE  MuxInv'
<1>1. CASE VTake(s) \/ VDisconnect(s) \/ VNew(s) \/ VNewFails(s) \/ VMap(s)
  BY <1>1, VTakeStep, VDisconnectStep, VNewStep, VNewFailsStep, VMapStep
<1>2. CASE VAck(s) \/ VAcked(s) \/ VUpdate(s) \/ VUpdateAck(s) \/ VData(s) \/ VAssert(s)
  BY <1>2, VAckStep, VAckedStep, VUpdateStep, VUpdateAckStep, VDataStep, VAssertStep
<1>3. CASE VWrite(s) \/ VSlow(s) \/ VBroken(s) \/ VSent(s)
  BY <1>3, VWriteStep, VSlowStep, VBrokenStep, VSentStep
<1>. QED
  BY <1>1, <1>2, <1>3 DEF VRun

LEMMA TRunStep ==
  ASSUME MuxInv, History', NEW s \in Side, NEW f \in Fd, TRun(s, f)
  PROVE  MuxInv'
BY TStartStep, TWriteStep, TFailsStep, TClearStep, TMarkStep, TSentStep DEF TRun

LEMMA NextInv == MuxInv /\ [Next]_vars => MuxInv'
<1>. SUFFICES ASSUME MuxInv, [Next]_vars PROVE MuxInv'
  OBVIOUS
<1>1. round \subseteq Side /\ late \subseteq Side
  BY DEF MuxInv, TypeOK
<1>2. UNCHANGED history => History'
  BY <1>1 DEF history, History
<1>3. CASE Clients /\ UNCHANGED history
  BY <1>2, <1>3, OpenStep, WriteStep, CloseStep DEF Clients
<1>4. ASSUME NEW s \in Side, LCollect(s) /\ UNCHANGED round PROVE MuxInv'
  <2>1. History'
    BY <1>1, <1>4 DEF LCollect, History
  <2>. QED
    BY <1>4, <2>1, LCollectStep
<1>5. ASSUME NEW s \in Side, LRests(s) PROVE MuxInv'
  BY <1>2, <1>5, LSentStep, LReturnStep DEF LRests, LRest
<1>6. ASSUME NEW s \in Side, VRuns(s) PROVE MuxInv'
  <2>1. CASE VRun(s) /\ UNCHANGED history
    BY <1>2, <2>1, VRunStep
  <2>2. CASE VCheck(s) /\ UNCHANGED late
    <3>1. History'
      BY <1>1, <2>2 DEF VCheck, History
    <3>. QED
      BY <2>2, <3>1, VCheckStep
  <2>. QED
    BY <1>6, <2>1, <2>2 DEF VRuns
<1>7. ASSUME NEW s \in Side, NEW f \in Fd, LScans(s, f) PROVE MuxInv'
  BY <1>2, <1>7, LScanStep DEF LScans
<1>8. ASSUME NEW s \in Side, NEW f \in Fd, TRuns(s, f) PROVE MuxInv'
  BY <1>2, <1>8, TRunStep DEF TRuns
<1>9. ASSUME NEW s \in Side, NEW f \in Fd, Clash(s, f) /\ UNCHANGED history PROVE MuxInv'
  BY <1>2, <1>9, ClashStep
<1>10. CASE UNCHANGED vars
  <2>1. UNCHANGED <<ent, sock, wrote, took, got, opened, chan, win, asked, buf, alloted,
                    lp, vp, tp, round, late>>
    BY <1>10 DEF vars, clients, flow, pool, history
  <2>2. TypeOK' /\ Shapes'
    BY <2>1 DEF MuxInv, TypeOK, Shapes
  <2>3. Work' /\ Counted' /\ OneWriter' /\ Entries'
    BY <2>1 DEF MuxInv, Work, Counted, OneWriter, Entries, VHolds, THolds
  <2>4. Requests'
    BY <2>1 DEF MuxInv, Requests
  <2>. QED
    BY <2>2, <2>3, <2>4 DEF MuxInv
<1>. QED
  BY <1>3, <1>4, <1>5, <1>6, <1>7, <1>8, <1>9, <1>10 DEF Next

\* Every variable of the multiplexer keeps its type: the messages on the link
\* never exceed its length, and a descriptor, a cookie, a window or a buffer a
\* routine computes is one that exists.
THEOREM MuxTypes == Spec => []TypeOK
<1>1. MuxInv => TypeOK
  BY DEF MuxInv
<1>. QED
  BY <1>1, InitInv, NextInv, PTL DEF Spec

\* mux_remove_local_fds never frees an entry V or a dedicated thread works on:
\* between is_fd_active and the last release of it the entry stays in use and
\* its fd_refcnt above 0, however the clients and the threads meet.
THEOREM ReferencedAlways == Spec => []Referenced
<1>1. MuxInv => Referenced
  <2>. SUFFICES ASSUME MuxInv, NEW s \in Side, NEW f \in Fd,
                       (vp[s].pc \in {"ack", "check", "write"} /\ vp[s].fd = f) \/ tp[s][f].pc # "none"
                PROVE  ent[s][f].used /\ ent[s][f].ref > 0
    BY DEF Referenced
  <2>1. VHolds(s, f) \/ THolds(s, f)
    BY DEF VHolds, THolds
  <2>2. ent[s][f].ref >= 1
    BY <2>1 DEF MuxInv, Counted
  <2>3. ent[s][f].ref \in Nat
    BY EntryFields DEF MuxInv, TypeOK
  <2>. QED
    BY <2>2, <2>3 DEF MuxInv, Entries
<1>. QED
  BY <1>1, InitInv, NextInv, PTL DEF Spec

\* V writes to the socket of f itself, or its dedicated thread does
VWrites(s, f) == vp[s].pc = "write" /\ vp[s].fd = f
TWrites(s, f) == tp[s][f].pc \in {"start", "write"}

\* MUX_FD_SENDING keeps V and the dedicated thread of a descriptor apart: they
\* never write to the same socket at the same time, so no message is written
\* into the middle of another, and while one of them writes the flag is set.
THEOREM OneWriterAtATime ==
  Spec => [](\A s \in Side, f \in Fd : /\ ~(VWrites(s, f) /\ TWrites(s, f))
                                       /\ VWrites(s, f) \/ TWrites(s, f) => ent[s][f].sending)
<1>. DEFINE Apart == \A s \in Side, f \in Fd :
                       /\ ~(VWrites(s, f) /\ TWrites(s, f))
                       /\ VWrites(s, f) \/ TWrites(s, f) => ent[s][f].sending
<1>1. MuxInv => Apart
  BY DEF MuxInv, OneWriter, VWrites, TWrites, Past
<1>. QED
  BY <1>1, InitInv, NextInv, PTL DEF Spec
=============================================================================
