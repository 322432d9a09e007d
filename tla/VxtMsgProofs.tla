---------------------------- MODULE VxtMsgProofs ----------------------------
(***************************************************************************)
(* vxt_msg_send and vxt_msg_rcv for any number and size of buffers, any    *)
(* lengths and flags of the calls and any signals: the types for every     *)
(* client, the byte stream for one that stops sending when VXT_BLOCKED     *)
(* meets it in the middle of a buffer.                                     *)
(***************************************************************************)
EXTENDS VxtMsg, SequenceTheorems, TLAPS

\* An endpoint in the middle of a buffer has it, and the next one is its next.
Holding(e) ==
  /\ cur[e].buf = NoBuf => cur[e].off = 0
  /\ cur[e].buf # NoBuf =>
       /\ owner[cur[e].buf] = e /\ held[cur[e].buf]
       /\ idx[e] = Succ(cur[e].buf)
  /\ pc[e] = "get" => cur[e].buf = NoBuf
  /\ pc[e] = "copy" => cur[e].buf # NoBuf
  /\ call[e].done <= call[e].len
  /\ pc[e] = "idle" => call[e].done = 0

\* Where the sender is in the stream, and how far its data can get.
Positions ==
  /\ next + call[P].len <= MaxBytes
  /\ cur[P].buf # NoBuf =>
       /\ data[cur[P].buf].from + cur[P].off = next + call[P].done
       /\ data[cur[P].buf].len = cur[P].off
  /\ cur[C].buf # NoBuf => cur[C].off <= data[cur[C].buf].len
  /\ \A i \in Buf : data[i].from + data[i].len <= MaxBytes

CallInv == TypeOK /\ Positions /\ \A e \in Side : Holding(e)

\* Where the receiver and the sender are in the ring, and how far i is from r.
Reading == IF cur[C].buf = NoBuf THEN idx[C] ELSE cur[C].buf
Writing == IF cur[P].buf = NoBuf THEN idx[P] ELSE cur[P].buf
Dist(r, i) == IF i >= r THEN i - r ELSE i - r + BufCnt

\* The n buffers from the receiver's to the sender's are the receiver's.
Ring(n) ==
  /\ \A i \in Buf : owner[i] = C <=> Dist(Reading, i) < n
  /\ ~gaveUp => IF n = BufCnt THEN Writing = Reading ELSE Dist(Reading, Writing) = n

\* The bytes in them follow one another ...
Chained ==
  \A i, j \in Buf :
    owner[i] = C /\ owner[j] = C /\ Dist(Reading, j) = Dist(Reading, i) + 1 =>
      data[j].from = data[i].from + data[i].len

\* ... with at most a buffer's worth of them in each ...
Spread ==
  \A i, j \in Buf :
    owner[i] = C /\ owner[j] = C /\ Dist(Reading, i) <= Dist(Reading, j) =>
      data[j].from <= data[i].from + (Dist(Reading, j) - Dist(Reading, i)) * BufSize

\* ... from the first one not yet received to the first one that the sender
\* has not put.
WriteStart == IF cur[P].buf = NoBuf THEN sent ELSE data[cur[P].buf].from
Ends(n) ==
  /\ owner[Reading] = C => data[Reading].from + cur[C].off = Len(rcvd)
  /\ ~gaveUp =>
       /\ n = 0 => Len(rcvd) = WriteStart
       /\ \A i \in Buf : owner[i] = C /\ Dist(Reading, i) = n - 1 =>
                           data[i].from + data[i].len = WriteStart

\* Nothing is received that was not sent, and a sender that gave up is idle.
Within ==
  /\ Len(rcvd) <= sent
  /\ \A i \in Buf : owner[i] = C => data[i].from + data[i].len <= sent
  /\ IF gaveUp THEN pc[P] = "idle" /\ cur[P].buf = NoBuf
               ELSE sent = next + call[P].done

\* NoByteForgotten for what the call in progress has copied as well.
Covered ==
  ~gaveUp =>
    \A b \in Len(rcvd) + 1 .. sent : \E i \in Buf :
      /\ b \in data[i].from + 1 .. data[i].from + data[i].len
      /\ owner[i] = C \/ cur[P].buf = i

MsgInv ==
  /\ CallInv /\ BuffersAccounted
  /\ Within /\ Covered /\ Chained /\ Spread
  /\ \E n \in 0 .. BufCnt : Ring(n) /\ Ends(n)

LEMMA Sides == P \in Side /\ C \in Side /\ P # C /\ Side = {P, C} /\ Peer(P) = C /\ Peer(C) = P
BY DEF P, C, Side, Peer

LEMMA Bufs ==
  /\ BufCnt \in Nat /\ BufCnt > 0 /\ BufSize \in Nat /\ BufSize > 0 /\ MaxBytes \in Nat
  /\ 0 \in Buf /\ NoBuf \notin Buf
  /\ \A i \in Buf : i \in Nat /\ i < BufCnt /\ Succ(i) \in Buf
BY MsgAssumption DEF Buf, NoBuf, Succ

LEMMA CallInit == Init => CallInv
<1>. SUFFICES ASSUME Init PROVE CallInv
  OBVIOUS
<1>. USE Sides, Bufs
<1>1. TypeOK
  <2>1. NoCur \in [buf: Buf \cup {NoBuf}, off: 0 .. BufSize]
    BY DEF NoCur
  <2>2. NoCall \in [flags: SUBSET {"WAIT", "AUTO_STREAM", "IGNORE_SHUTDOWN"},
                    wait: BOOLEAN, len: Nat, done: Nat]
    BY DEF NoCall
  <2>3. [from |-> 0, len |-> 0] \in [from: 0 .. MaxBytes, len: 0 .. BufSize]
    OBVIOUS
  <2>4. hdr \in [producer_stop: BOOLEAN, consumer_flush: BOOLEAN, producer_suspend: BOOLEAN]
    BY DEF Init
  <2>. QED
    BY <2>1, <2>2, <2>3, <2>4 DEF Init, TypeOK
<1>2. Positions
  BY DEF Init, Positions, NoCur, NoCall
<1>3. ASSUME NEW e \in Side PROVE Holding(e)
  BY DEF Init, Holding, NoCur, NoCall
<1>. QED
  BY <1>1, <1>2, <1>3 DEF CallInv

\* The fields of the call and of the buffer at hand.
LEMMA Fields ==
  ASSUME TypeOK, NEW e \in Side
  PROVE  /\ cur[e].buf \in Buf \cup {NoBuf} /\ cur[e].off \in 0 .. BufSize
         /\ call[e].len \in Nat /\ call[e].done \in Nat /\ idx[e] \in Buf
         /\ cur[e] = [buf |-> cur[e].buf, off |-> cur[e].off]
         /\ next \in Nat /\ sent \in Nat
         /\ \A i \in Buf : data[i].from \in Nat /\ data[i].len \in 0 .. BufSize
<1>1. cur[e] \in [buf: Buf \cup {NoBuf}, off: 0 .. BufSize]
  BY DEF TypeOK
<1>2. call[e] \in [flags: SUBSET {"WAIT", "AUTO_STREAM", "IGNORE_SHUTDOWN"},
                   wait: BOOLEAN, len: Nat, done: Nat]
  BY DEF TypeOK
<1>3. \A i \in Buf : data[i] \in [from: 0 .. MaxBytes, len: 0 .. BufSize]
  BY DEF TypeOK
<1>4. idx[e] \in Buf /\ next \in Nat /\ sent \in Nat
  BY DEF TypeOK
<1>5. cur[e].buf \in Buf \cup {NoBuf} /\ cur[e].off \in 0 .. BufSize
      /\ cur[e] = [buf |-> cur[e].buf, off |-> cur[e].off]
  BY <1>1
<1>6. call[e].len \in Nat /\ call[e].done \in Nat
  BY <1>2
<1>7. \A i \in Buf : data[i].from \in Nat /\ data[i].len \in 0 .. BufSize
  BY <1>3
<1>. QED
  BY <1>4, <1>5, <1>6, <1>7

-----------------------------------------------------------------------------
(* What each step does, field by field *)

\* What the other endpoint has is left alone.
OtherKept(e) ==
  \A o \in Side \ {e} : cur'[o] = cur[o] /\ pc'[o] = pc[o] /\ call'[o] = call[o] /\ idx'[o] = idx[o]

LEMMA EnterEffect ==
  ASSUME CallInv, NEW e \in Side, NEW n \in Nat,
         NEW f \in SUBSET {"WAIT", "AUTO_STREAM", "IGNORE_SHUTDOWN"}, Enter(e, n, f)
  PROVE  /\ TypeOK' /\ OtherKept(e)
         /\ UNCHANGED <<owner, held, data, idx, hdr, cur, next, sent, rcvd, gaveUp>>
         /\ call'[e].len = n /\ call'[e].done = 0 /\ pc[e] = "idle"
         /\ pc'[e] = IF cur[e].buf = NoBuf THEN "get" ELSE "copy"
<1>1. TypeOK /\ Holding(e)
  BY DEF CallInv
<1>2. cur[e] = NoCur <=> cur[e].buf = NoBuf
  BY <1>1, Fields DEF Holding, NoCur
<1>3. UNCHANGED <<owner, held, data, idx, hdr, cur, next, sent, rcvd, gaveUp>>
  BY DEF Enter, ring
<1>4. /\ pc' \in [Side -> {"idle", "get", "copy"}]
      /\ pc'[e] = IF cur[e].buf = NoBuf THEN "get" ELSE "copy"
      /\ \A o \in Side \ {e} : pc'[o] = pc[o]
  BY <1>1, <1>2 DEF Enter, TypeOK
<1>5. /\ call' \in [Side -> [flags: SUBSET {"WAIT", "AUTO_STREAM", "IGNORE_SHUTDOWN"},
                             wait: BOOLEAN, len: Nat, done: Nat]]
      /\ call'[e].len = n /\ call'[e].done = 0
      /\ \A o \in Side \ {e} : call'[o] = call[o]
  <2>1. PICK c : c = [flags |-> f, wait |-> "WAIT" \in f, len |-> n, done |-> 0]
    OBVIOUS
  <2>2. c \in [flags: SUBSET {"WAIT", "AUTO_STREAM", "IGNORE_SHUTDOWN"},
               wait: BOOLEAN, len: Nat, done: Nat] /\ c.len = n /\ c.done = 0
    BY <2>1
  <2>3. call' = [call EXCEPT ![e] = c]
    BY <2>1 DEF Enter
  <2>. QED
    BY <1>1, <2>2, <2>3 DEF TypeOK
<1>6. TypeOK'
  BY <1>1, <1>3, <1>4, <1>5 DEF TypeOK
<1>. QED
  BY <1>3, <1>4, <1>5, <1>6 DEF Enter, OtherKept

LEMMA LeaveEffect ==
  ASSUME CallInv, NEW e \in Side, NEW n \in Nat, n <= call[e].len, Leave(e, n)
  PROVE  /\ pc' \in [Side -> {"idle", "get", "copy"}]
         /\ call' \in [Side -> [flags: SUBSET {"WAIT", "AUTO_STREAM", "IGNORE_SHUTDOWN"},
                                wait: BOOLEAN, len: Nat, done: Nat]]
         /\ \A o \in Side \ {e} : pc'[o] = pc[o] /\ call'[o] = call[o]
         /\ pc'[e] = "idle" /\ call'[e].len = 0 /\ call'[e].done = 0
         /\ next' = IF e = P THEN next + n ELSE next
         /\ next' \in 0 .. MaxBytes /\ next' + call'[P].len <= MaxBytes
<1>. USE Sides
<1>1. TypeOK /\ Positions
  BY DEF CallInv
<1>2. /\ pc' \in [Side -> {"idle", "get", "copy"}]
      /\ \A o \in Side \ {e} : pc'[o] = pc[o]
      /\ pc'[e] = "idle" /\ next' = IF e = P THEN next + n ELSE next
  BY <1>1 DEF Leave, TypeOK
<1>3. NoCall \in [flags: SUBSET {"WAIT", "AUTO_STREAM", "IGNORE_SHUTDOWN"},
                  wait: BOOLEAN, len: Nat, done: Nat] /\ NoCall.len = 0 /\ NoCall.done = 0
  BY DEF NoCall
<1>4. /\ call' \in [Side -> [flags: SUBSET {"WAIT", "AUTO_STREAM", "IGNORE_SHUTDOWN"},
                             wait: BOOLEAN, len: Nat, done: Nat]]
      /\ \A o \in Side \ {e} : call'[o] = call[o]
      /\ call'[e] = NoCall
  BY <1>1, <1>3 DEF Leave, TypeOK
<1>5. call[P].len \in Nat /\ next \in Nat /\ MaxBytes \in Nat /\ next + call[P].len <= MaxBytes
  BY <1>1, Fields, Bufs DEF Positions
<1>6. next' \in 0 .. MaxBytes /\ next' + call'[P].len <= MaxBytes
  <2>1. CASE e = P
    BY <1>2, <1>3, <1>4, <1>5, <2>1
  <2>2. CASE e # P
    BY <1>2, <1>4, <1>5, <2>2
  <2>. QED
    BY <2>1, <2>2
<1>. QED
  BY <1>2, <1>3, <1>4, <1>6

LEMMA GetEffect ==
  ASSUME CallInv, NEW e \in Side, Get(e)
  PROVE  /\ TypeOK' /\ OtherKept(e)
         /\ UNCHANGED <<owner, hdr, call, next, sent, rcvd, gaveUp>>
         /\ cur[e].buf = NoBuf /\ pc[e] = "get" /\ pc'[e] = "copy"
         /\ idx[e] \in Buf /\ owner[idx[e]] = e /\ ~held[idx[e]] /\ held'[idx[e]]
         /\ idx'[e] = Succ(idx[e]) /\ cur'[e].buf = idx[e] /\ cur'[e].off = 0
         /\ \A i \in Buf : i # idx[e] \/ e = C => data'[i] = data[i]
         /\ e = P => data'[idx[e]].from = next + call[P].done /\ data'[idx[e]].len = 0
         /\ \A i \in Buf \ {idx[e]} : held'[i] = held[i]
<1>. USE Sides, Bufs
<1>1. TypeOK /\ Holding(e) /\ Positions /\ Holding(P)
  BY DEF CallInv
<1>2. PICK i \in Buf : i = idx[e]
  BY <1>1, Fields
<1>3. /\ UNCHANGED <<owner, hdr, call, next, sent, rcvd, gaveUp>>
      /\ pc[e] = "get" /\ owner[i] = e /\ ~held[i] /\ cur[e].buf = NoBuf
  BY <1>1, <1>2 DEF Get, Holding
<1>4. /\ pc' \in [Side -> {"idle", "get", "copy"}] /\ pc'[e] = "copy"
      /\ \A o \in Side \ {e} : pc'[o] = pc[o]
  BY <1>1 DEF Get, TypeOK
<1>5. /\ held' \in [Buf -> BOOLEAN] /\ held'[i] /\ \A j \in Buf \ {i} : held'[j] = held[j]
  BY <1>1, <1>2 DEF Get, TypeOK
<1>6. /\ idx' \in [Side -> Buf] /\ idx'[e] = Succ(i)
      /\ \A o \in Side \ {e} : idx'[o] = idx[o]
  BY <1>1, <1>2 DEF Get, TypeOK
<1>7. /\ cur' \in [Side -> [buf: Buf \cup {NoBuf}, off: 0 .. BufSize]]
      /\ cur'[e].buf = i /\ cur'[e].off = 0
      /\ \A o \in Side \ {e} : cur'[o] = cur[o]
  <2>1. [buf |-> i, off |-> 0] \in [buf: Buf \cup {NoBuf}, off: 0 .. BufSize]
    OBVIOUS
  <2>2. cur' = [cur EXCEPT ![e] = [buf |-> i, off |-> 0]]
    BY <1>2 DEF Get
  <2>. QED
    BY <1>1, <2>1, <2>2 DEF TypeOK
<1>8. /\ data' \in [Buf -> [from: 0 .. MaxBytes, len: 0 .. BufSize]]
      /\ \A j \in Buf : j # i \/ e = C => data'[j] = data[j]
      /\ e = P => data'[i].from = next + call[P].done /\ data'[i].len = 0
  <2>1. CASE e = P
    <3>1. next + call[P].done \in 0 .. MaxBytes
      BY <1>1, Fields DEF Positions, Holding
    <3>2. [from |-> next + call[P].done, len |-> 0] \in [from: 0 .. MaxBytes, len: 0 .. BufSize]
      BY <3>1
    <3>3. data' = [data EXCEPT ![i] = [from |-> next + call[P].done, len |-> 0]]
      BY <1>2, <2>1 DEF Get
    <3>. QED
      BY <1>1, <2>1, <3>2, <3>3 DEF TypeOK
  <2>2. CASE e = C
    BY <1>1, <2>2 DEF Get, TypeOK
  <2>. QED
    BY <2>1, <2>2
<1>9. TypeOK'
  BY <1>1, <1>3, <1>4, <1>5, <1>6, <1>7, <1>8 DEF TypeOK
<1>. QED
  BY <1>2, <1>3, <1>4, <1>5, <1>6, <1>7, <1>8, <1>9 DEF OtherKept

LEMMA GetFailsEffect ==
  ASSUME CallInv, NEW e \in Side, GetFails(e)
  PROVE  /\ TypeOK' /\ OtherKept(e)
         /\ UNCHANGED <<owner, held, data, idx, hdr, cur, sent, rcvd, gaveUp>>
         /\ pc[e] = "get" /\ pc'[e] = "idle" /\ cur[e].buf = NoBuf
         /\ call'[e].len = 0 /\ call'[e].done = 0
         /\ next' = IF e = P THEN next + call[P].done ELSE next
         /\ next' + call'[P].len <= MaxBytes
<1>1. TypeOK /\ Holding(e) /\ call[e].done \in Nat /\ call[e].done <= call[e].len
  BY Fields DEF CallInv, Holding
<1>2. Leave(e, call[e].done)
  BY DEF GetFails
<1>3. UNCHANGED <<owner, held, data, idx, hdr, cur, sent, rcvd, gaveUp>> /\ pc[e] = "get"
  BY DEF GetFails, ring
<1>4. /\ pc' \in [Side -> {"idle", "get", "copy"}]
      /\ call' \in [Side -> [flags: SUBSET {"WAIT", "AUTO_STREAM", "IGNORE_SHUTDOWN"},
                             wait: BOOLEAN, len: Nat, done: Nat]]
      /\ \A o \in Side \ {e} : pc'[o] = pc[o] /\ call'[o] = call[o]
      /\ pc'[e] = "idle" /\ call'[e].len = 0 /\ call'[e].done = 0
      /\ next' = IF e = P THEN next + call[e].done ELSE next
      /\ next' \in 0 .. MaxBytes /\ next' + call'[P].len <= MaxBytes
  BY <1>1, <1>2, LeaveEffect
<1>5. TypeOK'
  BY <1>1, <1>3, <1>4 DEF TypeOK
<1>. QED
  BY <1>1, <1>3, <1>4, <1>5 DEF OtherKept, Holding

\* The sender copies r bytes into buffer i, and keeps it, puts it, or is
\* blocked with it.
LEMMA SendEffect ==
  ASSUME CallInv, SendCopy
  PROVE  \E i \in Buf, r \in Nat :
         /\ TypeOK' /\ OtherKept(P) /\ UNCHANGED <<idx, hdr, rcvd>>
         /\ i = cur[P].buf /\ pc[P] = "copy"
         /\ cur[P].off + r <= BufSize /\ call[P].done + r <= call[P].len
         /\ data'[i].from = data[i].from /\ data'[i].len = cur[P].off + r
         /\ \A j \in Buf \ {i} : data'[j] = data[j] /\ owner'[j] = owner[j] /\ held'[j] = held[j]
         /\ sent' = IF next + call[P].done + r > sent THEN next + call[P].done + r ELSE sent
         /\ next' + call'[P].len <= MaxBytes /\ call'[P].done <= call'[P].len
         /\ pc'[P] = "idle" => call'[P].done = 0
         /\ \/ /\ cur'[P].buf = i /\ cur'[P].off = cur[P].off + r /\ pc'[P] = "idle"
               /\ owner' = owner /\ held' = held /\ gaveUp' = gaveUp
               /\ next' + call'[P].done = next + call[P].done + r
            \/ /\ cur'[P].buf = NoBuf /\ cur'[P].off = 0 /\ pc'[P] \in {"idle", "get"}
               /\ owner'[i] = C /\ ~held'[i] /\ gaveUp' = gaveUp
               /\ next' + call'[P].done = next + call[P].done + r
            \/ /\ cur'[P].buf = NoBuf /\ cur'[P].off = 0 /\ pc'[P] = "idle"
               /\ owner' = owner /\ held' = held /\ gaveUp' = ~Resumes
<1>. USE Sides, Bufs
<1>1. TypeOK /\ Holding(P) /\ Positions
  BY DEF CallInv
<1>2. PICK i, r, done, off :
        /\ i = cur[P].buf /\ r = SendRun
        /\ done = call[P].done + r /\ off = cur[P].off + r
  OBVIOUS
<1>3. i \in Buf /\ pc[P] = "copy"
  BY <1>1, <1>2, Fields DEF SendCopy, Holding
<1>4. /\ cur[P].off \in 0 .. BufSize /\ call[P].len \in Nat /\ call[P].done \in Nat
      /\ call[P].done <= call[P].len /\ next \in Nat /\ sent \in 0 .. MaxBytes
      /\ next + call[P].len <= MaxBytes /\ data[i].from \in Nat
      /\ data[i].from + cur[P].off = next + call[P].done
  BY <1>1, <1>2, <1>3, Fields DEF Holding, Positions, TypeOK
<1>5. /\ r \in Nat /\ off \in 0 .. BufSize /\ done \in Nat /\ done <= call[P].len
      /\ data[i].from + off = next + done
  BY <1>2, <1>4 DEF SendRun, Least
<1>6. /\ UNCHANGED <<idx, hdr, rcvd>>
      /\ data' = [data EXCEPT ![i].len = off]
      /\ sent' = IF next + done > sent THEN next + done ELSE sent
  BY <1>2, <1>5 DEF SendCopy
<1>7. \/ /\ cur' = [cur EXCEPT ![P].off = off] /\ Leave(P, done) /\ UNCHANGED <<owner, held, gaveUp>>
      \/ /\ Put(P, i) /\ UNCHANGED gaveUp
         /\ \/ Leave(P, done)
            \/ /\ call' = [call EXCEPT ![P].done = done]
               /\ pc' = [pc EXCEPT ![P] = "get"] /\ UNCHANGED next
      \/ /\ cur' = [cur EXCEPT ![P] = NoCur] /\ gaveUp' = ~Resumes /\ UNCHANGED <<owner, held>>
         /\ Leave(P, 0) \/ Leave(P, done)
  BY <1>2 DEF SendCopy
<1>8. /\ data' \in [Buf -> [from: 0 .. MaxBytes, len: 0 .. BufSize]]
      /\ data'[i].from = data[i].from /\ data'[i].len = off
      /\ \A j \in Buf \ {i} : data'[j] = data[j]
  <2>1. data[i] \in [from: 0 .. MaxBytes, len: 0 .. BufSize]
    BY <1>1, <1>3 DEF TypeOK
  <2>2. [data[i] EXCEPT !.len = off] \in [from: 0 .. MaxBytes, len: 0 .. BufSize]
        /\ [data[i] EXCEPT !.len = off].from = data[i].from
        /\ [data[i] EXCEPT !.len = off].len = off
    BY <1>5, <2>1
  <2>3. data' = [data EXCEPT ![i] = [data[i] EXCEPT !.len = off]]
    BY <1>6
  <2>. QED
    BY <1>1, <1>3, <2>2, <2>3 DEF TypeOK
<1>9. sent' \in 0 .. MaxBytes
  BY <1>4, <1>5, <1>6
<1>10. ASSUME cur' = [cur EXCEPT ![P].off = off]
       PROVE  /\ cur' \in [Side -> [buf: Buf \cup {NoBuf}, off: 0 .. BufSize]] /\ cur'[C] = cur[C]
              /\ cur'[P].buf = i /\ cur'[P].off = off
  <2>1. cur[P] \in [buf: Buf \cup {NoBuf}, off: 0 .. BufSize]
    BY <1>1 DEF TypeOK
  <2>2. /\ [cur[P] EXCEPT !.off = off] \in [buf: Buf \cup {NoBuf}, off: 0 .. BufSize]
        /\ [cur[P] EXCEPT !.off = off].buf = i /\ [cur[P] EXCEPT !.off = off].off = off
    BY <1>2, <1>5, <2>1
  <2>3. cur' = [cur EXCEPT ![P] = [cur[P] EXCEPT !.off = off]]
    BY <1>10
  <2>. QED
    BY <1>1, <2>2, <2>3 DEF TypeOK
<1>11. ASSUME NEW n \in {0, done}, Leave(P, n)
       PROVE  /\ pc' \in [Side -> {"idle", "get", "copy"}] /\ next' \in 0 .. MaxBytes
              /\ call' \in [Side -> [flags: SUBSET {"WAIT", "AUTO_STREAM", "IGNORE_SHUTDOWN"},
                                     wait: BOOLEAN, len: Nat, done: Nat]]
              /\ pc'[C] = pc[C] /\ call'[C] = call[C] /\ pc'[P] = "idle"
              /\ call'[P].done = 0 /\ call'[P].len = 0 /\ next' + 0 = next + n
              /\ next' + call'[P].len <= MaxBytes /\ call'[P].done <= call'[P].len
  <2>1. n \in Nat /\ n <= call[P].len
    BY <1>4, <1>5
  <2>2. /\ pc' \in [Side -> {"idle", "get", "copy"}]
        /\ call' \in [Side -> [flags: SUBSET {"WAIT", "AUTO_STREAM", "IGNORE_SHUTDOWN"},
                               wait: BOOLEAN, len: Nat, done: Nat]]
        /\ \A o \in Side \ {P} : pc'[o] = pc[o] /\ call'[o] = call[o]
        /\ pc'[P] = "idle" /\ call'[P].len = 0 /\ call'[P].done = 0
        /\ next' = next + n
        /\ next' \in 0 .. MaxBytes /\ next' + call'[P].len <= MaxBytes
    BY <1>11, <2>1, LeaveEffect
  <2>. QED
    BY <1>4, <2>1, <2>2
<1>12. ASSUME call' = [call EXCEPT ![P].done = done], pc' = [pc EXCEPT ![P] = "get"], UNCHANGED next
       PROVE  /\ pc' \in [Side -> {"idle", "get", "copy"}] /\ next' \in 0 .. MaxBytes
              /\ call' \in [Side -> [flags: SUBSET {"WAIT", "AUTO_STREAM", "IGNORE_SHUTDOWN"},
                                     wait: BOOLEAN, len: Nat, done: Nat]]
              /\ pc'[C] = pc[C] /\ call'[C] = call[C] /\ pc'[P] = "get"
              /\ call'[P].done = done /\ next' + done = next + done
              /\ next' + call'[P].len <= MaxBytes /\ call'[P].done <= call'[P].len
  <2>1. call[P] \in [flags: SUBSET {"WAIT", "AUTO_STREAM", "IGNORE_SHUTDOWN"},
                     wait: BOOLEAN, len: Nat, done: Nat]
    BY <1>1 DEF TypeOK
  <2>2. /\ [call[P] EXCEPT !.done = done] \in [flags: SUBSET {"WAIT", "AUTO_STREAM", "IGNORE_SHUTDOWN"},
                                               wait: BOOLEAN, len: Nat, done: Nat]
        /\ [call[P] EXCEPT !.done = done].done = done
        /\ [call[P] EXCEPT !.done = done].len = call[P].len
    BY <1>5, <2>1
  <2>3. call' = [call EXCEPT ![P] = [call[P] EXCEPT !.done = done]]
    BY <1>12
  <2>4. /\ call' \in [Side -> [flags: SUBSET {"WAIT", "AUTO_STREAM", "IGNORE_SHUTDOWN"},
                               wait: BOOLEAN, len: Nat, done: Nat]]
        /\ call'[C] = call[C] /\ call'[P].done = done /\ call'[P].len = call[P].len
    BY <1>1, <2>2, <2>3 DEF TypeOK
  <2>5. pc' \in [Side -> {"idle", "get", "copy"}] /\ pc'[P] = "get" /\ pc'[C] = pc[C]
    BY <1>1, <1>12 DEF TypeOK
  <2>. QED
    BY <1>1, <1>4, <1>5, <1>12, <2>4, <2>5 DEF TypeOK
<1>13. Put(P, i) => /\ owner' \in [Buf -> Side] /\ held' \in [Buf -> BOOLEAN]
                    /\ \A j \in Buf \ {i} : owner'[j] = owner[j] /\ held'[j] = held[j]
                    /\ owner'[i] = C /\ ~held'[i] /\ cur' = [cur EXCEPT ![P] = NoCur]
  BY <1>1, <1>3 DEF TypeOK, Put
<1>14. (~Resumes) \in BOOLEAN
  BY MsgAssumption
<1>15. ASSUME cur' = [cur EXCEPT ![P] = NoCur]
       PROVE  /\ cur' \in [Side -> [buf: Buf \cup {NoBuf}, off: 0 .. BufSize]] /\ cur'[C] = cur[C]
              /\ cur'[P].buf = NoBuf /\ cur'[P].off = 0
  <2>1. NoCur \in [buf: Buf \cup {NoBuf}, off: 0 .. BufSize] /\ NoCur.buf = NoBuf /\ NoCur.off = 0
    BY DEF NoCur
  <2>. QED
    BY <1>1, <1>15, <2>1 DEF TypeOK
<1>16. cur' \in [Side -> [buf: Buf \cup {NoBuf}, off: 0 .. BufSize]] /\ cur'[C] = cur[C]
  BY <1>7, <1>10, <1>13, <1>15
<1>17. /\ pc' \in [Side -> {"idle", "get", "copy"}] /\ next' \in 0 .. MaxBytes
       /\ call' \in [Side -> [flags: SUBSET {"WAIT", "AUTO_STREAM", "IGNORE_SHUTDOWN"},
                              wait: BOOLEAN, len: Nat, done: Nat]]
       /\ owner' \in [Buf -> Side] /\ held' \in [Buf -> BOOLEAN] /\ gaveUp' \in BOOLEAN
       /\ \A j \in Buf \ {i} : owner'[j] = owner[j] /\ held'[j] = held[j]
       /\ pc'[C] = pc[C] /\ call'[C] = call[C]
       /\ next' + call'[P].len <= MaxBytes /\ call'[P].done <= call'[P].len
       /\ pc'[P] = "idle" => call'[P].done = 0
       /\ \/ /\ cur'[P].buf = i /\ cur'[P].off = off /\ pc'[P] = "idle"
             /\ owner' = owner /\ held' = held /\ gaveUp' = gaveUp
             /\ next' + call'[P].done = next + done
          \/ /\ cur'[P].buf = NoBuf /\ cur'[P].off = 0 /\ pc'[P] \in {"idle", "get"}
             /\ owner'[i] = C /\ ~held'[i] /\ gaveUp' = gaveUp
             /\ next' + call'[P].done = next + done
          \/ /\ cur'[P].buf = NoBuf /\ cur'[P].off = 0 /\ pc'[P] = "idle"
             /\ owner' = owner /\ held' = held /\ gaveUp' = ~Resumes
  <2>. USE <1>1 DEF TypeOK
  <2>1. CASE cur' = [cur EXCEPT ![P].off = off] /\ Leave(P, done) /\ UNCHANGED <<owner, held, gaveUp>>
    BY <1>10, <1>11, <2>1
  <2>2. CASE Put(P, i) /\ UNCHANGED gaveUp /\ Leave(P, done)
    BY <1>11, <1>13, <1>15, <2>2
  <2>3. CASE /\ Put(P, i) /\ UNCHANGED gaveUp
             /\ call' = [call EXCEPT ![P].done = done]
             /\ pc' = [pc EXCEPT ![P] = "get"] /\ UNCHANGED next
    BY <1>12, <1>13, <1>15, <2>3
  <2>4. CASE /\ cur' = [cur EXCEPT ![P] = NoCur] /\ gaveUp' = ~Resumes /\ UNCHANGED <<owner, held>>
             /\ Leave(P, 0) \/ Leave(P, done)
    BY <1>11, <1>14, <1>15, <2>4
  <2>. QED
    BY <1>7, <2>1, <2>2, <2>3, <2>4
<1>18. TypeOK'
  BY <1>1, <1>6, <1>8, <1>9, <1>16, <1>17 DEF TypeOK
<1>19. OtherKept(P)
  BY <1>6, <1>16, <1>17 DEF OtherKept
<1>20. next + done = next + call[P].done + r
  BY <1>2, <1>4, <1>5
<1>. QED
  <2>. USE <1>3, <1>5
  <2>. WITNESS i \in Buf, r \in Nat
  <2>. QED
    BY <1>2, <1>6, <1>8, <1>17, <1>18, <1>19, <1>20

\* The receiver takes r bytes out of buffer i, and keeps it or puts it back.
LEMMA RcvEffect ==
  ASSUME CallInv, RcvCopy
  PROVE  \E i \in Buf, r \in Nat :
         /\ TypeOK' /\ OtherKept(C) /\ UNCHANGED <<data, idx, hdr, sent, next, gaveUp>>
         /\ i = cur[C].buf /\ pc[C] = "copy" /\ pc'[C] \in {"idle", "get"}
         /\ cur[C].off + r <= data[i].len
         /\ rcvd' = rcvd \o [k \in 1 .. r |-> data[i].from + cur[C].off + k]
         /\ \A j \in Buf \ {i} : owner'[j] = owner[j] /\ held'[j] = held[j]
         /\ call'[C].done <= call'[C].len
         /\ pc'[C] = "idle" => call'[C].done = 0
         /\ \/ /\ cur'[C].buf = i /\ cur'[C].off = cur[C].off + r /\ pc'[C] = "idle"
               /\ owner' = owner /\ held' = held
            \/ /\ cur'[C].buf = NoBuf /\ cur'[C].off = 0 /\ cur[C].off + r = data[i].len
               /\ owner'[i] = P /\ ~held'[i]
<1>. USE Sides, Bufs
<1>1. TypeOK /\ Holding(C) /\ Positions
  BY DEF CallInv
<1>2. PICK i, r, done, off :
        /\ i = cur[C].buf /\ r = RcvRun
        /\ done = call[C].done + r /\ off = cur[C].off + r
  OBVIOUS
<1>3. i \in Buf /\ pc[C] = "copy"
  BY <1>1, <1>2, Fields DEF RcvCopy, Holding
<1>4. /\ cur[C].off \in 0 .. BufSize /\ call[C].len \in Nat /\ call[C].done \in Nat
      /\ call[C].done <= call[C].len /\ data[i].from \in Nat /\ data[i].len \in 0 .. BufSize
      /\ data[i].from + data[i].len <= MaxBytes /\ cur[C].off <= data[i].len
  BY <1>1, <1>2, <1>3, Fields DEF Holding, Positions, TypeOK
<1>5. /\ r \in Nat /\ off \in 0 .. BufSize /\ done \in Nat /\ done <= call[C].len
      /\ off <= data[i].len /\ (done # call[C].len => off = data[i].len)
  BY <1>2, <1>4 DEF RcvRun, Least
<1>6. /\ UNCHANGED <<data, idx, hdr, sent, gaveUp>>
      /\ rcvd' = rcvd \o [k \in 1 .. r |-> data[i].from + cur[C].off + k]
      /\ IF done = call[C].len /\ off < data[i].len
           THEN cur' = [cur EXCEPT ![C].off = off] /\ UNCHANGED <<owner, held>>
           ELSE Put(C, i)
      /\ IF done = call[C].len
           THEN Leave(C, done)
           ELSE /\ call' = [call EXCEPT ![C].done = done, ![C].wait = FALSE]
                /\ pc' = [pc EXCEPT ![C] = "get"] /\ UNCHANGED next
  BY <1>2 DEF RcvCopy
<1>7. rcvd' \in Seq(1 .. MaxBytes)
  <2>1. \A k \in 1 .. r : data[i].from + cur[C].off + k \in 1 .. MaxBytes
    BY <1>2, <1>4, <1>5
  <2>2. [k \in 1 .. r |-> data[i].from + cur[C].off + k] \in Seq(1 .. MaxBytes)
    BY <1>5, <2>1
  <2>3. rcvd \in Seq(1 .. MaxBytes)
    BY <1>1 DEF TypeOK
  <2>. QED
    BY <1>6, <2>2, <2>3
<1>8. /\ pc' \in [Side -> {"idle", "get", "copy"}] /\ next' = next
      /\ call' \in [Side -> [flags: SUBSET {"WAIT", "AUTO_STREAM", "IGNORE_SHUTDOWN"},
                             wait: BOOLEAN, len: Nat, done: Nat]]
      /\ pc'[P] = pc[P] /\ call'[P] = call[P] /\ pc'[C] \in {"idle", "get"}
      /\ call'[C].done <= call'[C].len /\ (pc'[C] = "idle" => call'[C].done = 0)
      /\ done = call[C].len => pc'[C] = "idle"
  <2>1. CASE done = call[C].len
    <3>1. Leave(C, done)
      BY <1>6, <2>1
    <3>2. /\ pc' \in [Side -> {"idle", "get", "copy"}]
          /\ call' \in [Side -> [flags: SUBSET {"WAIT", "AUTO_STREAM", "IGNORE_SHUTDOWN"},
                                 wait: BOOLEAN, len: Nat, done: Nat]]
          /\ \A o \in Side \ {C} : pc'[o] = pc[o] /\ call'[o] = call[o]
          /\ pc'[C] = "idle" /\ call'[C].len = 0 /\ call'[C].done = 0
          /\ next' = IF C = P THEN next + done ELSE next
      BY <1>5, <3>1, LeaveEffect
    <3>. QED
      BY <3>2
  <2>2. CASE done # call[C].len
    <3>1. /\ call' = [call EXCEPT ![C].done = done, ![C].wait = FALSE]
          /\ pc' = [pc EXCEPT ![C] = "get"] /\ UNCHANGED next
      BY <1>6, <2>2
    <3>2. call[C] \in [flags: SUBSET {"WAIT", "AUTO_STREAM", "IGNORE_SHUTDOWN"},
                       wait: BOOLEAN, len: Nat, done: Nat]
      BY <1>1 DEF TypeOK
    <3>3. PICK c : c = [call[C] EXCEPT !.done = done, !.wait = FALSE]
      OBVIOUS
    <3>4. /\ c \in [flags: SUBSET {"WAIT", "AUTO_STREAM", "IGNORE_SHUTDOWN"},
                    wait: BOOLEAN, len: Nat, done: Nat]
          /\ c.done = done /\ c.len = call[C].len
      BY <1>5, <3>2, <3>3
    <3>5. call' = [call EXCEPT ![C] = c]
      BY <1>1, <3>1, <3>2, <3>3 DEF TypeOK
    <3>6. /\ call' \in [Side -> [flags: SUBSET {"WAIT", "AUTO_STREAM", "IGNORE_SHUTDOWN"},
                                 wait: BOOLEAN, len: Nat, done: Nat]]
          /\ call'[P] = call[P] /\ call'[C] = c
      BY <1>1, <3>4, <3>5 DEF TypeOK
    <3>7. pc' \in [Side -> {"idle", "get", "copy"}] /\ pc'[C] = "get" /\ pc'[P] = pc[P]
      BY <1>1, <3>1 DEF TypeOK
    <3>. QED
      BY <1>5, <2>2, <3>1, <3>4, <3>6, <3>7
  <2>. QED
    BY <2>1, <2>2
<1>9. /\ cur' \in [Side -> [buf: Buf \cup {NoBuf}, off: 0 .. BufSize]] /\ cur'[P] = cur[P]
      /\ owner' \in [Buf -> Side] /\ held' \in [Buf -> BOOLEAN]
      /\ \A j \in Buf \ {i} : owner'[j] = owner[j] /\ held'[j] = held[j]
      /\ \/ /\ cur'[C].buf = i /\ cur'[C].off = off /\ pc'[C] = "idle"
            /\ owner' = owner /\ held' = held
         \/ /\ cur'[C].buf = NoBuf /\ cur'[C].off = 0 /\ off = data[i].len
            /\ owner'[i] = P /\ ~held'[i]
  <2>1. CASE done = call[C].len /\ off < data[i].len
    <3>1. cur' = [cur EXCEPT ![C].off = off] /\ UNCHANGED <<owner, held>>
      BY <1>6, <2>1
    <3>2. cur[C] \in [buf: Buf \cup {NoBuf}, off: 0 .. BufSize]
      BY <1>1 DEF TypeOK
    <3>3. /\ [cur[C] EXCEPT !.off = off] \in [buf: Buf \cup {NoBuf}, off: 0 .. BufSize]
          /\ [cur[C] EXCEPT !.off = off].buf = i /\ [cur[C] EXCEPT !.off = off].off = off
      BY <1>2, <1>5, <3>2
    <3>4. cur' = [cur EXCEPT ![C] = [cur[C] EXCEPT !.off = off]]
      BY <3>1
    <3>5. /\ cur' \in [Side -> [buf: Buf \cup {NoBuf}, off: 0 .. BufSize]] /\ cur'[P] = cur[P]
          /\ cur'[C].buf = i /\ cur'[C].off = off
      BY <1>1, <3>3, <3>4 DEF TypeOK
    <3>. QED
      BY <1>1, <1>8, <2>1, <3>1, <3>5 DEF TypeOK
  <2>2. CASE ~(done = call[C].len /\ off < data[i].len)
    <3>1. Put(C, i)
      BY <1>6, <2>2
    <3>2. NoCur \in [buf: Buf \cup {NoBuf}, off: 0 .. BufSize] /\ NoCur.buf = NoBuf /\ NoCur.off = 0
      BY DEF NoCur
    <3>3. /\ cur' \in [Side -> [buf: Buf \cup {NoBuf}, off: 0 .. BufSize]] /\ cur'[P] = cur[P]
          /\ cur'[C].buf = NoBuf /\ cur'[C].off = 0
      BY <1>1, <3>1, <3>2 DEF TypeOK, Put
    <3>4. /\ owner' \in [Buf -> Side] /\ held' \in [Buf -> BOOLEAN]
          /\ \A j \in Buf \ {i} : owner'[j] = owner[j] /\ held'[j] = held[j]
          /\ owner'[i] = P /\ ~held'[i]
      BY <1>1, <1>3, <3>1 DEF TypeOK, Put
    <3>5. off = data[i].len
      BY <1>4, <1>5, <2>2
    <3>. QED
      BY <3>3, <3>4, <3>5
  <2>. QED
    BY <2>1, <2>2
<1>10. TypeOK'
  BY <1>1, <1>6, <1>7, <1>8, <1>9 DEF TypeOK
<1>11. OtherKept(C)
  BY <1>6, <1>8, <1>9 DEF OtherKept
<1>. QED
  <2>. USE <1>3, <1>5
  <2>. WITNESS i \in Buf, r \in Nat
  <2>. QED
    BY <1>2, <1>6, <1>8, <1>9, <1>10, <1>11

LEMMA ControlEffect ==
  ASSUME CallInv, NEW e \in Side, NEW s \in {"STOP", "START", "SHUTDOWN"}, Control(e, s)
  PROVE  /\ TypeOK'
         /\ UNCHANGED <<owner, held, data, idx, cur, pc, call, next, sent, rcvd, gaveUp>>
<1>1. TypeOK
  BY DEF CallInv
<1>2. UNCHANGED <<owner, held, data, idx, cur, pc, call, next, sent, rcvd, gaveUp>>
  BY DEF Control, ring
<1>3. hdr' \in [producer_stop: BOOLEAN, consumer_flush: BOOLEAN, producer_suspend: BOOLEAN]
  <2>1. hdr \in [producer_stop: BOOLEAN, consumer_flush: BOOLEAN, producer_suspend: BOOLEAN]
    BY <1>1 DEF TypeOK
  <2>2. \/ hdr' = [hdr EXCEPT !.producer_stop = TRUE]
        \/ hdr' = [hdr EXCEPT !.producer_stop = FALSE]
        \/ hdr' = [hdr EXCEPT !.producer_suspend = TRUE]
        \/ hdr' = [hdr EXCEPT !.consumer_flush = TRUE]
    BY Sides DEF Control
  <2>. QED
    BY <2>1, <2>2
<1>. QED
  BY <1>1, <1>2, <1>3 DEF TypeOK

-----------------------------------------------------------------------------
(* Types: whatever the clients do *)

LEMMA EnterKeeps ==
  ASSUME CallInv, NEW e \in Side, NEW n \in Nat, e = P => next + n <= MaxBytes,
         NEW f \in SUBSET {"WAIT", "AUTO_STREAM", "IGNORE_SHUTDOWN"}, Enter(e, n, f)
  PROVE  CallInv'
<1>. USE Sides, Bufs
<1>1. /\ TypeOK' /\ OtherKept(e)
      /\ UNCHANGED <<owner, held, data, idx, hdr, cur, next, sent, rcvd, gaveUp>>
      /\ call'[e].len = n /\ call'[e].done = 0 /\ pc[e] = "idle"
      /\ pc'[e] = IF cur[e].buf = NoBuf THEN "get" ELSE "copy"
  BY EnterEffect
<1>2. TypeOK /\ Positions /\ Holding(P) /\ Holding(C)
  BY DEF CallInv
<1>3. ASSUME NEW o \in Side PROVE Holding(o)'
  BY <1>1, <1>2 DEF OtherKept, Holding
<1>4. Positions'
  <2>1. CASE e = P
    BY <1>1, <1>2, <2>1 DEF Positions, Holding
  <2>2. CASE e = C
    BY <1>1, <1>2, <2>2 DEF Positions, OtherKept
  <2>. QED
    BY <2>1, <2>2
<1>. QED
  BY <1>1, <1>3, <1>4 DEF CallInv

LEMMA GetKeeps ==
  ASSUME CallInv, NEW e \in Side, Get(e)
  PROVE  CallInv'
<1>. USE Sides, Bufs
<1>1. /\ TypeOK' /\ OtherKept(e)
      /\ UNCHANGED <<owner, hdr, call, next, sent, rcvd, gaveUp>>
      /\ cur[e].buf = NoBuf /\ pc[e] = "get" /\ pc'[e] = "copy"
      /\ idx[e] \in Buf /\ owner[idx[e]] = e /\ ~held[idx[e]] /\ held'[idx[e]]
      /\ idx'[e] = Succ(idx[e]) /\ cur'[e].buf = idx[e] /\ cur'[e].off = 0
      /\ \A i \in Buf : i # idx[e] \/ e = C => data'[i] = data[i]
      /\ e = P => data'[idx[e]].from = next + call[P].done /\ data'[idx[e]].len = 0
      /\ \A i \in Buf \ {idx[e]} : held'[i] = held[i]
  BY GetEffect
<1>2. TypeOK /\ Positions /\ Holding(P) /\ Holding(C)
  BY DEF CallInv
<1>3. \A o \in Side : cur[o].buf \in Buf \cup {NoBuf} /\ cur[o].buf # idx[e]
  BY <1>1, <1>2, Fields DEF Holding
<1>4. Holding(e)'
  BY <1>1, <1>2 DEF Holding
<1>5. ASSUME NEW o \in Side \ {e} PROVE Holding(o)'
  BY <1>1, <1>2, <1>3 DEF Holding, OtherKept
<1>6. next \in Nat /\ call[P].done \in Nat /\ call[P].len \in Nat /\ call[P].done <= call[P].len
      /\ next + call[P].len <= MaxBytes /\ data[idx[e]].len \in Nat
  BY <1>1, <1>2, Fields DEF Holding, Positions
<1>7. Positions'
  <2>1. CASE e = P
    <3>1. cur'[C] = cur[C] /\ (cur[C].buf # NoBuf => data'[cur[C].buf] = data[cur[C].buf])
      BY <1>1, <1>3, <2>1 DEF OtherKept
    <3>2. \A i \in Buf : data'[i].from + data'[i].len <= MaxBytes
      BY <1>1, <1>2, <1>6, <2>1 DEF Positions
    <3>. QED
      BY <1>1, <1>2, <1>6, <2>1, <3>1, <3>2 DEF Positions
  <2>2. CASE e = C
    <3>1. cur'[P] = cur[P] /\ \A i \in Buf : data'[i] = data[i]
      BY <1>1, <2>2 DEF OtherKept
    <3>2. data[idx[C]].len >= 0
      BY <1>6, <2>2
    <3>. QED
      BY <1>1, <1>2, <1>3, <2>2, <3>1, <3>2 DEF Positions
  <2>. QED
    BY <2>1, <2>2
<1>. QED
  BY <1>1, <1>4, <1>5, <1>7 DEF CallInv

LEMMA GetFailsKeeps ==
  ASSUME CallInv, NEW e \in Side, GetFails(e)
  PROVE  CallInv'
<1>. USE Sides, Bufs
<1>1. /\ TypeOK' /\ OtherKept(e)
      /\ UNCHANGED <<owner, held, data, idx, hdr, cur, sent, rcvd, gaveUp>>
      /\ pc[e] = "get" /\ pc'[e] = "idle" /\ cur[e].buf = NoBuf
      /\ call'[e].len = 0 /\ call'[e].done = 0
      /\ next' = IF e = P THEN next + call[P].done ELSE next
      /\ next' + call'[P].len <= MaxBytes
  BY GetFailsEffect
<1>2. TypeOK /\ Positions /\ Holding(P) /\ Holding(C)
  BY DEF CallInv
<1>3. ASSUME NEW o \in Side PROVE Holding(o)'
  BY <1>1, <1>2 DEF Holding, OtherKept
<1>4. Positions'
  BY <1>1, <1>2 DEF Positions, OtherKept
<1>. QED
  BY <1>1, <1>3, <1>4 DEF CallInv

LEMMA SendCopyKeeps ==
  ASSUME CallInv, SendCopy
  PROVE  CallInv'
<1>. USE Sides, Bufs
<1>1. PICK i \in Buf, r \in Nat :
         /\ TypeOK' /\ OtherKept(P) /\ UNCHANGED <<idx, hdr, rcvd>>
         /\ i = cur[P].buf /\ pc[P] = "copy"
         /\ cur[P].off + r <= BufSize /\ call[P].done + r <= call[P].len
         /\ data'[i].from = data[i].from /\ data'[i].len = cur[P].off + r
         /\ \A j \in Buf \ {i} : data'[j] = data[j] /\ owner'[j] = owner[j] /\ held'[j] = held[j]
         /\ sent' = IF next + call[P].done + r > sent THEN next + call[P].done + r ELSE sent
         /\ next' + call'[P].len <= MaxBytes /\ call'[P].done <= call'[P].len
         /\ pc'[P] = "idle" => call'[P].done = 0
         /\ \/ /\ cur'[P].buf = i /\ cur'[P].off = cur[P].off + r /\ pc'[P] = "idle"
               /\ owner' = owner /\ held' = held /\ gaveUp' = gaveUp
               /\ next' + call'[P].done = next + call[P].done + r
            \/ /\ cur'[P].buf = NoBuf /\ cur'[P].off = 0 /\ pc'[P] \in {"idle", "get"}
               /\ owner'[i] = C /\ ~held'[i] /\ gaveUp' = gaveUp
               /\ next' + call'[P].done = next + call[P].done + r
            \/ /\ cur'[P].buf = NoBuf /\ cur'[P].off = 0 /\ pc'[P] = "idle"
               /\ owner' = owner /\ held' = held /\ gaveUp' = ~Resumes
  BY SendEffect
<1>2. TypeOK /\ Positions /\ Holding(P) /\ Holding(C)
  BY DEF CallInv
<1>3. /\ cur[C].buf \in Buf \cup {NoBuf} /\ cur[C].buf # i /\ owner[i] = P /\ held[i] /\ idx[P] = Succ(i)
  BY <1>1, <1>2, Fields DEF Holding
<1>4. Holding(P)'
  BY <1>1, <1>3 DEF Holding
<1>5. Holding(C)'
  BY <1>1, <1>2, <1>3 DEF Holding, OtherKept
<1>6. next \in Nat /\ call[P].done \in Nat /\ call[P].len \in Nat /\ cur[P].off \in Nat
      /\ data[i].from \in Nat /\ data[i].from + cur[P].off = next + call[P].done
      /\ next + call[P].len <= MaxBytes
  BY <1>1, <1>2, Fields DEF Holding, Positions
<1>7. data'[i].from + data'[i].len = next + call[P].done + r /\ next + call[P].done + r <= MaxBytes
  BY <1>1, <1>6
<1>8. Positions'
  <2>1. \A j \in Buf : data'[j].from + data'[j].len <= MaxBytes
    BY <1>1, <1>2, <1>7 DEF Positions
  <2>2. cur'[C] = cur[C] /\ (cur[C].buf # NoBuf => data'[cur[C].buf] = data[cur[C].buf])
    BY <1>1, <1>3 DEF OtherKept
  <2>3. cur'[P].buf # NoBuf => cur'[P].buf = i /\ cur'[P].off = cur[P].off + r
                               /\ next' + call'[P].done = next + call[P].done + r
    BY <1>1
  <2>. QED
    BY <1>1, <1>2, <1>7, <2>1, <2>2, <2>3 DEF Positions
<1>. QED
  BY <1>1, <1>4, <1>5, <1>8 DEF CallInv

LEMMA RcvCopyKeeps ==
  ASSUME CallInv, RcvCopy
  PROVE  CallInv'
<1>. USE Sides, Bufs
<1>1. PICK i \in Buf, r \in Nat :
         /\ TypeOK' /\ OtherKept(C) /\ UNCHANGED <<data, idx, hdr, sent, next, gaveUp>>
         /\ i = cur[C].buf /\ pc[C] = "copy" /\ pc'[C] \in {"idle", "get"}
         /\ cur[C].off + r <= data[i].len
         /\ rcvd' = rcvd \o [k \in 1 .. r |-> data[i].from + cur[C].off + k]
         /\ \A j \in Buf \ {i} : owner'[j] = owner[j] /\ held'[j] = held[j]
         /\ call'[C].done <= call'[C].len
         /\ pc'[C] = "idle" => call'[C].done = 0
         /\ \/ /\ cur'[C].buf = i /\ cur'[C].off = cur[C].off + r /\ pc'[C] = "idle"
               /\ owner' = owner /\ held' = held
            \/ /\ cur'[C].buf = NoBuf /\ cur'[C].off = 0 /\ cur[C].off + r = data[i].len
               /\ owner'[i] = P /\ ~held'[i]
  BY RcvEffect
<1>2. TypeOK /\ Positions /\ Holding(P) /\ Holding(C)
  BY DEF CallInv
<1>3. /\ cur[P].buf \in Buf \cup {NoBuf} /\ cur[P].buf # i /\ owner[i] = C /\ held[i] /\ idx[C] = Succ(i)
  BY <1>1, <1>2, Fields DEF Holding
<1>4. Holding(C)'
  BY <1>1, <1>3 DEF Holding
<1>5. Holding(P)'
  BY <1>1, <1>2, <1>3 DEF Holding, OtherKept
<1>6. Positions'
  BY <1>1, <1>2 DEF Positions, OtherKept
<1>. QED
  BY <1>1, <1>4, <1>5, <1>6 DEF CallInv

LEMMA CallNext == CallInv /\ [Next]_vars => CallInv'
<1>. SUFFICES ASSUME CallInv, [Next]_vars PROVE CallInv'
  OBVIOUS
<1>1. ASSUME NEW n \in SendLens, NEW f \in SendFlags, SendCall(n, f) PROVE CallInv'
  BY <1>1, MsgAssumption, Sides, EnterKeeps DEF SendCall
<1>2. ASSUME NEW n \in RcvLens, NEW f \in RcvFlags, RcvCall(n, f) PROVE CallInv'
  <2>1. n \in Nat /\ f \in SUBSET {"WAIT", "AUTO_STREAM", "IGNORE_SHUTDOWN"}
    BY MsgAssumption
  <2>. QED
    BY <1>2, <2>1, Sides, EnterKeeps DEF RcvCall
<1>3. ASSUME UNCHANGED <<owner, held, data, idx, cur, pc, call, next, sent, rcvd, gaveUp>>, TypeOK'
      PROVE  CallInv'
  BY <1>3 DEF CallInv, Positions, Holding
<1>4. ASSUME NEW e \in Side, NEW s \in Signals, Control(e, s) PROVE CallInv'
  <2>1. s \in {"STOP", "START", "SHUTDOWN"}
    BY MsgAssumption
  <2>. QED
    BY <1>3, <1>4, <2>1, ControlEffect
<1>5. CASE UNCHANGED vars
  <2>1. TypeOK'
    BY <1>5 DEF CallInv, TypeOK, vars
  <2>. QED
    BY <1>3, <1>5, <2>1 DEF vars
<1>. QED
  BY <1>1, <1>2, <1>4, <1>5, GetKeeps, GetFailsKeeps, SendCopyKeeps, RcvCopyKeeps DEF Next

\* Whatever the clients send, signal and go on with after VXT_BLOCKED, vxt_msg_send
\* and vxt_msg_rcv stay inside their buffers: no copy runs past buf_size or past
\* what the sender put in, no offset goes below zero and no byte is made up.
THEOREM MsgTypes == Spec => []TypeOK
<1>1. CallInv => TypeOK
  BY DEF CallInv
<1>. QED
  BY <1>1, CallInit, CallNext, PTL DEF Spec

-----------------------------------------------------------------------------
(* The byte stream of a client that gives up when it is blocked *)

LEMMA DistFacts ==
  ASSUME NEW q \in Buf
  PROVE  /\ \A i \in Buf : Dist(q, i) \in 0 .. BufCnt - 1 /\ (Dist(q, i) = 0 <=> i = q)
         /\ \A i, j \in Buf : Dist(q, i) = Dist(q, j) => i = j
         /\ \A i \in Buf : Dist(q, Succ(i)) = IF Dist(q, i) = BufCnt - 1 THEN 0 ELSE Dist(q, i) + 1
         /\ \A i \in Buf : Dist(Succ(q), i) = IF i = q THEN BufCnt - 1 ELSE Dist(q, i) - 1
         /\ \A d \in 0 .. BufCnt - 1 : \E l \in Buf : Dist(q, l) = d
<1>. USE MsgAssumption DEF Buf, Dist, Succ
<1>1. ASSUME NEW d \in 0 .. BufCnt - 1 PROVE \E l \in Buf : Dist(q, l) = d
  <2>1. CASE q + d < BufCnt
    <3>1. q + d \in Buf /\ Dist(q, q + d) = d
      BY <2>1
    <3>. QED
      BY <3>1
  <2>2. CASE q + d >= BufCnt
    <3>1. q + d - BufCnt \in Buf /\ Dist(q, q + d - BufCnt) = d
      BY <2>2
    <3>. QED
      BY <3>1
  <2>. QED
    BY <2>1, <2>2
<1>. QED
  BY <1>1

LEMMA Times ==
  ASSUME NEW s \in Nat
  PROVE  /\ \A a \in Nat : a * s \in Nat /\ (a + 1) * s = a * s + s
         /\ \A a, b \in Nat : a <= b => a * s <= b * s
         /\ 0 * s = 0
<1>1. \A a \in Nat : a * s \in Nat /\ (a + 1) * s = a * s + s
  OBVIOUS
<1>2. ASSUME NEW a \in Nat, NEW b \in Nat, a <= b PROVE a * s <= b * s
  <2>1. PICK d \in Nat : b = a + d
    <3>1. b - a \in Nat /\ b = a + (b - a)
      BY <1>2
    <3>. QED
      BY <3>1
  <2>2. b * s = a * s + d * s
    BY <2>1
  <2>3. d * s \in Nat /\ a * s \in Nat
    BY <1>1
  <2>. QED
    BY <2>2, <2>3
<1>. QED
  BY <1>1, <1>2

LEMMA MsgInit == Init => MsgInv
<1>. SUFFICES ASSUME Init PROVE MsgInv
  OBVIOUS
<1>. USE Sides, Bufs
<1>1. CallInv
  BY CallInit
<1>2. /\ \A i \in Buf : owner[i] = P /\ ~held[i]
      /\ \A e \in Side : cur[e].buf = NoBuf /\ idx[e] = 0 /\ cur[e].off = 0 /\ call[e].done = 0
      /\ next = 0 /\ sent = 0 /\ rcvd = <<>> /\ Len(rcvd) = 0 /\ gaveUp = FALSE
  BY DEF Init, NoCur, NoCall
<1>3. BuffersAccounted /\ Within /\ Covered /\ Chained /\ Spread
  BY <1>2 DEF BuffersAccounted, Within, Covered, Chained, Spread
<1>4. Reading = 0 /\ Writing = 0 /\ WriteStart = 0
  BY <1>2 DEF Reading, Writing, WriteStart
<1>5. Dist(0, 0) = 0 /\ \A i \in Buf : Dist(0, i) \in Nat
  BY DistFacts
<1>6. Ring(0) /\ Ends(0)
  BY <1>2, <1>4, <1>5 DEF Ring, Ends
<1>. QED
  BY <1>1, <1>3, <1>6 DEF MsgInv

\* Entering and leaving a call and the signals do not touch the stream.
LEMMA Quiet ==
  ASSUME MsgInv, CallInv', UNCHANGED <<owner, held, data, idx, cur, sent, rcvd, gaveUp>>,
         IF gaveUp THEN pc'[P] = "idle" ELSE next' + call'[P].done = next + call[P].done
  PROVE  MsgInv'
<1>1. Within'
  BY DEF MsgInv, Within
<1>2. BuffersAccounted' /\ Covered'
  BY DEF MsgInv, BuffersAccounted, Covered
<1>3. Chained' /\ Spread'
  BY DEF MsgInv, Chained, Spread, Reading
<1>4. PICK n \in 0 .. BufCnt : Ring(n) /\ Ends(n)
  BY DEF MsgInv
<1>5. Ring(n)' /\ Ends(n)'
  BY <1>4 DEF Ring, Ends, Reading, Writing, WriteStart
<1>. QED
  BY <1>1, <1>2, <1>3, <1>5 DEF MsgInv

\* The position of the receiver.
LEMMA ReadingBuf ==
  ASSUME CallInv
  PROVE  Reading \in Buf /\ Writing \in Buf
BY Fields, Sides DEF CallInv, Reading, Writing

LEMMA GetStream ==
  ASSUME MsgInv, NEW e \in Side, Get(e)
  PROVE  MsgInv'
<1>. USE Sides, Bufs
<1>1. CallInv /\ CallInv'
  BY GetKeeps DEF MsgInv
<1>2. /\ OtherKept(e) /\ UNCHANGED <<owner, hdr, call, next, sent, rcvd, gaveUp>>
      /\ cur[e].buf = NoBuf /\ pc[e] = "get"
      /\ idx[e] \in Buf /\ owner[idx[e]] = e /\ ~held[idx[e]] /\ held'[idx[e]]
      /\ idx'[e] = Succ(idx[e]) /\ cur'[e].buf = idx[e] /\ cur'[e].off = 0
      /\ \A i \in Buf : i # idx[e] \/ e = C => data'[i] = data[i]
      /\ e = P => data'[idx[e]].from = next + call[P].done /\ data'[idx[e]].len = 0
      /\ \A i \in Buf \ {idx[e]} : held'[i] = held[i]
  BY <1>1, GetEffect
<1>3. PICK i \in Buf : i = idx[e]
  BY <1>2
<1>4. \A j \in Buf : owner[j] = C => data'[j] = data[j]
  BY <1>2
<1>5. Reading' = Reading /\ Writing' = Writing /\ cur'[C].off = cur[C].off
  <2>1. cur[e].off = 0
    BY <1>1, <1>2 DEF CallInv, Holding
  <2>. QED
    BY <1>2, <2>1 DEF Reading, Writing, OtherKept
<1>6. BuffersAccounted'
  <2>. SUFFICES ASSUME ~gaveUp, NEW j \in Buf
                PROVE  held'[j] <=> \E o \in Side : cur'[o].buf = j /\ owner[j] = o
    BY <1>2 DEF BuffersAccounted
  <2>1. held[j] <=> \E o \in Side : cur[o].buf = j /\ owner[j] = o
    BY DEF MsgInv, BuffersAccounted
  <2>2. CASE j = i
    BY <1>2, <1>3, <2>2
  <2>3. CASE j # i
    BY <1>2, <1>3, <2>1, <2>3 DEF OtherKept
  <2>. QED
    BY <2>2, <2>3
<1>7. ~gaveUp => WriteStart' = WriteStart
  <2>1. CASE e = P
    BY <1>2, <2>1 DEF MsgInv, Within, WriteStart
  <2>2. CASE e = C
    BY <1>1, <1>2, <2>2, Fields DEF WriteStart, OtherKept, CallInv
  <2>. QED
    BY <2>1, <2>2
<1>8. Within'
  <2>1. gaveUp => e = C
    BY <1>2 DEF MsgInv, Within
  <2>. QED
    BY <1>2, <1>4, <2>1 DEF MsgInv, Within, OtherKept
<1>9. Covered'
  <2>. SUFFICES ASSUME ~gaveUp, NEW b \in Len(rcvd) + 1 .. sent
                PROVE  \E j \in Buf : /\ b \in data'[j].from + 1 .. data'[j].from + data'[j].len
                                      /\ owner[j] = C \/ cur'[P].buf = j
    BY <1>2 DEF Covered
  <2>1. PICK j \in Buf : /\ b \in data[j].from + 1 .. data[j].from + data[j].len
                         /\ owner[j] = C \/ cur[P].buf = j
    BY DEF MsgInv, Covered
  <2>2. data'[j] = data[j] /\ (owner[j] = C \/ cur'[P].buf = j)
    BY <1>2, <2>1 DEF OtherKept
  <2>. QED
    BY <2>1, <2>2
<1>10. Chained' /\ Spread'
  BY <1>2, <1>4, <1>5 DEF MsgInv, Chained, Spread
<1>11. PICK n \in 0 .. BufCnt : Ring(n) /\ Ends(n)
  BY DEF MsgInv
<1>12. Ring(n)'
  BY <1>2, <1>5, <1>11 DEF Ring
<1>13. Ends(n)'
  BY <1>1, <1>2, <1>4, <1>5, <1>7, <1>11, ReadingBuf DEF Ends
<1>. QED
  BY <1>1, <1>6, <1>8, <1>9, <1>10, <1>12, <1>13 DEF MsgInv

LEMMA SendCopyStream ==
  ASSUME MsgInv, Resumes = FALSE, SendCopy
  PROVE  MsgInv'
<1>. USE Sides, Bufs
<1>1. CallInv /\ CallInv'
  BY SendCopyKeeps DEF MsgInv
<1>2. PICK i \in Buf, r \in Nat :
         /\ TypeOK' /\ OtherKept(P) /\ UNCHANGED <<idx, hdr, rcvd>>
         /\ i = cur[P].buf /\ pc[P] = "copy"
         /\ cur[P].off + r <= BufSize /\ call[P].done + r <= call[P].len
         /\ data'[i].from = data[i].from /\ data'[i].len = cur[P].off + r
         /\ \A j \in Buf \ {i} : data'[j] = data[j] /\ owner'[j] = owner[j] /\ held'[j] = held[j]
         /\ sent' = IF next + call[P].done + r > sent THEN next + call[P].done + r ELSE sent
         /\ next' + call'[P].len <= MaxBytes /\ call'[P].done <= call'[P].len
         /\ pc'[P] = "idle" => call'[P].done = 0
         /\ \/ /\ cur'[P].buf = i /\ cur'[P].off = cur[P].off + r /\ pc'[P] = "idle"
               /\ owner' = owner /\ held' = held /\ gaveUp' = gaveUp
               /\ next' + call'[P].done = next + call[P].done + r
            \/ /\ cur'[P].buf = NoBuf /\ cur'[P].off = 0 /\ pc'[P] \in {"idle", "get"}
               /\ owner'[i] = C /\ ~held'[i] /\ gaveUp' = gaveUp
               /\ next' + call'[P].done = next + call[P].done + r
            \/ /\ cur'[P].buf = NoBuf /\ cur'[P].off = 0 /\ pc'[P] = "idle"
               /\ owner' = owner /\ held' = held /\ gaveUp' = ~Resumes
  BY <1>1, SendEffect
<1>3. /\ ~gaveUp /\ sent = next + call[P].done /\ Len(rcvd) <= sent
      /\ \A j \in Buf : owner[j] = C => data[j].from + data[j].len <= sent
  BY <1>2 DEF MsgInv, Within
<1>4. /\ owner[i] = P /\ held[i] /\ idx[P] = Succ(i)
      /\ cur[C].buf \in Buf \cup {NoBuf} /\ cur[C].buf # i
      /\ data[i].from + cur[P].off = sent /\ data[i].len = cur[P].off
      /\ cur[P].off \in Nat /\ data[i].from \in Nat /\ sent \in Nat /\ Len(rcvd) \in Nat
      /\ next \in Nat /\ call[P].done \in Nat
      /\ \A j \in Buf : data[j].from \in Nat /\ data[j].len \in 0 .. BufSize
  <2>1. i \in Buf /\ i = cur[P].buf
    BY <1>2
  <2>2. TypeOK /\ Positions /\ Holding(P) /\ Holding(C)
    BY <1>1 DEF CallInv
  <2>3. /\ cur[C].buf \in Buf \cup {NoBuf} /\ cur[P].off \in Nat
        /\ next \in Nat /\ call[P].done \in Nat /\ sent \in Nat
        /\ \A j \in Buf : data[j].from \in Nat /\ data[j].len \in 0 .. BufSize
    BY <2>2, Fields
  <2>4. /\ owner[i] = P /\ held[i] /\ idx[P] = Succ(i)
        /\ data[i].from + cur[P].off = next + call[P].done /\ data[i].len = cur[P].off
    BY <2>1, <2>2 DEF Holding, Positions
  <2>5. cur[C].buf # i
    BY <2>1, <2>2, <2>4 DEF Holding
  <2>6. Len(rcvd) \in Nat
    BY <2>2 DEF TypeOK
  <2>. QED
    BY <1>3, <2>1, <2>3, <2>4, <2>5, <2>6
<1>5. sent' = sent + r /\ data'[i].from + data'[i].len = sent' /\ data'[i].from = data[i].from
  <2>1. sent' = IF next + call[P].done + r > sent THEN next + call[P].done + r ELSE sent
    BY <1>2
  <2>2. data'[i].from = data[i].from /\ data'[i].len = cur[P].off + r
    BY <1>2
  <2>3. r \in Nat /\ sent \in Nat /\ next \in Nat /\ call[P].done \in Nat /\ cur[P].off \in Nat
        /\ data[i].from \in Nat /\ sent = next + call[P].done /\ data[i].from + cur[P].off = sent
    BY <1>3, <1>4
  <2>. QED
    BY <2>1, <2>2, <2>3
<1>6. PICK q \in Buf : q = Reading
  BY <1>1, ReadingBuf
<1>7. Reading' = q /\ cur'[C] = cur[C] /\ cur'[C].off = cur[C].off
  BY <1>2, <1>6 DEF Reading, OtherKept
<1>8. WriteStart = data[i].from /\ Writing = i
  BY <1>2 DEF WriteStart, Writing
<1>9. PICK n \in 0 .. BufCnt : Ring(n) /\ Ends(n)
  BY DEF MsgInv
<1>10. /\ \A j \in Buf : Dist(q, j) \in 0 .. BufCnt - 1 /\ (Dist(q, j) = 0 <=> j = q)
       /\ \A j, k \in Buf : Dist(q, j) = Dist(q, k) => j = k
       /\ \A j \in Buf : Dist(q, Succ(j)) = IF Dist(q, j) = BufCnt - 1 THEN 0 ELSE Dist(q, j) + 1
       /\ \A d \in 0 .. BufCnt - 1 : \E l \in Buf : Dist(q, l) = d
  BY DistFacts
<1>11. /\ \A j \in Buf : owner[j] = C <=> Dist(q, j) < n
       /\ n # BufCnt /\ Dist(q, i) = n
  BY <1>3, <1>4, <1>6, <1>8, <1>9, <1>10 DEF Ring
<1>12. /\ owner[q] = C => data[q].from + cur[C].off = Len(rcvd)
       /\ n = 0 => Len(rcvd) = data[i].from
       /\ \A j \in Buf : owner[j] = C /\ Dist(q, j) = n - 1 =>
                           data[j].from + data[j].len = data[i].from
  BY <1>3, <1>6, <1>8, <1>9 DEF Ends
<1>13. /\ \A j, k \in Buf :
            owner[j] = C /\ owner[k] = C /\ Dist(q, k) = Dist(q, j) + 1 =>
              data[k].from = data[j].from + data[j].len
       /\ \A j, k \in Buf :
            owner[j] = C /\ owner[k] = C /\ Dist(q, j) <= Dist(q, k) =>
              data[k].from <= data[j].from + (Dist(q, k) - Dist(q, j)) * BufSize
  BY <1>6 DEF MsgInv, Chained, Spread
<1>14. \A b \in Len(rcvd) + 1 .. sent : \E j \in Buf :
         /\ b \in data[j].from + 1 .. data[j].from + data[j].len
         /\ owner[j] = C \/ j = i
  BY <1>2, <1>3 DEF MsgInv, Covered
<1>15. \A j \in Buf : held[j] <=> \E o \in Side : cur[o].buf = j /\ owner[j] = o
  BY <1>3 DEF MsgInv, BuffersAccounted
<1>16. ASSUME owner'[i] = C \/ cur'[P].buf = i
       PROVE  Covered'
  <2>. SUFFICES ASSUME NEW b \in Len(rcvd) + 1 .. sent'
                PROVE  \E j \in Buf : /\ b \in data'[j].from + 1 .. data'[j].from + data'[j].len
                                      /\ owner'[j] = C \/ cur'[P].buf = j
    BY <1>2 DEF Covered
  <2>1. CASE b > data[i].from
    <3>1. b \in data'[i].from + 1 .. data'[i].from + data'[i].len
      <4>1. sent \in Nat /\ r \in Nat /\ Len(rcvd) \in Nat /\ data[i].from \in Nat
        BY <1>4
      <4>2. b \in Nat /\ b <= sent'
        BY <1>5, <4>1
      <4>. QED
        BY <1>5, <2>1, <4>1, <4>2
    <3>. QED
      BY <1>16, <3>1
  <2>2. CASE b <= data[i].from
    <3>1. b \in Len(rcvd) + 1 .. sent
      BY <1>3, <1>4, <2>2
    <3>2. PICK j \in Buf : /\ b \in data[j].from + 1 .. data[j].from + data[j].len
                           /\ owner[j] = C \/ j = i
      BY <1>14, <3>1
    <3>3. j # i
      BY <1>4, <2>2, <3>2
    <3>4. data'[j] = data[j] /\ owner'[j] = C
      BY <1>2, <3>2, <3>3
    <3>. QED
      BY <3>2, <3>4
  <2>. QED
    BY <1>4, <2>1, <2>2
\* The buffer stays with the sender: kept, or forgotten by one that is blocked.
<1>17. CASE owner' = owner /\ held' = held
  <2>1. \A j \in Buf : owner[j] = C => data'[j] = data[j]
    BY <1>2, <1>4
  <2>2. Chained' /\ Spread'
    BY <1>7, <1>13, <1>17, <2>1 DEF Chained, Spread
  <2>3. cur'[P].buf = i \/ gaveUp'
    BY <1>2, <1>4, <1>17
  <2>4. cur'[P].buf # i => cur'[P].buf = NoBuf /\ pc'[P] = "idle" /\ gaveUp'
    BY <1>2, <1>4, <1>17
  <2>5. cur'[P].buf = i => /\ gaveUp' = gaveUp /\ WriteStart' = data[i].from /\ Writing' = i
                           /\ next' + call'[P].done = sent'
    BY <1>2, <1>3, <1>4, <1>5 DEF WriteStart, Writing
  <2>6. BuffersAccounted'
    <3>. SUFFICES ASSUME ~gaveUp', NEW j \in Buf
                  PROVE  held[j] <=> \E o \in Side : cur'[o].buf = j /\ owner[j] = o
      BY <1>17 DEF BuffersAccounted
    <3>1. cur'[P].buf = cur[P].buf /\ cur'[C].buf = cur[C].buf
      BY <1>2, <1>7, <2>3
    <3>. QED
      BY <1>15, <3>1
  <2>7. Within'
    <3>1. ASSUME NEW j \in Buf, owner[j] = C PROVE data'[j].from + data'[j].len <= sent'
      <4>1. data[j].from \in Nat /\ data[j].len \in Nat /\ sent \in Nat /\ r \in Nat
        BY <1>4
      <4>2. data[j].from + data[j].len <= sent /\ data'[j] = data[j]
        BY <1>3, <2>1, <3>1
      <4>. QED
        BY <1>5, <4>1, <4>2
    <3>2. Len(rcvd') <= sent'
      BY <1>2, <1>3, <1>4, <1>5
    <3>. QED
      BY <1>3, <1>17, <2>3, <2>4, <2>5, <3>1, <3>2 DEF Within
  <2>8. Covered'
    BY <1>16, <2>3 DEF Covered
  <2>9. Ring(n)'
    BY <1>7, <1>11, <1>17, <2>3, <2>5 DEF Ring
  <2>10. Ends(n)'
    BY <1>2, <1>7, <1>12, <1>17, <2>1, <2>3, <2>5 DEF Ends
  <2>. QED
    BY <1>1, <2>2, <2>6, <2>7, <2>8, <2>9, <2>10 DEF MsgInv
\* The buffer is put: it is the receiver's last.
<1>18. CASE ~(owner' = owner /\ held' = held)
  <2>1. /\ cur'[P].buf = NoBuf /\ owner'[i] = C /\ ~held'[i] /\ gaveUp' = gaveUp
        /\ next' + call'[P].done = sent'
    BY <1>2, <1>3, <1>5, <1>18
  <2>2. \A j \in Buf : owner'[j] = C <=> Dist(q, j) < n + 1
    <3>. SUFFICES ASSUME NEW j \in Buf PROVE owner'[j] = C <=> Dist(q, j) < n + 1
      OBVIOUS
    <3>1. CASE j = i
      BY <1>11, <2>1, <3>1
    <3>2. CASE j # i
      BY <1>2, <1>10, <1>11, <3>2
    <3>. QED
      BY <3>1, <3>2
  <2>3. Writing' = Succ(i) /\ WriteStart' = sent'
    BY <1>2, <1>4, <2>1 DEF Writing, WriteStart
  <2>4. IF n + 1 = BufCnt THEN Writing' = q ELSE Dist(q, Writing') = n + 1
    BY <1>10, <1>11, <2>3
  <2>5. Ring(n + 1)'
    BY <1>7, <2>2, <2>4 DEF Ring
  <2>6. \A j \in Buf \ {i} : owner'[j] = C => owner[j] = C /\ data'[j] = data[j] /\ Dist(q, j) < n
    BY <1>2, <1>11
  <2>7. Ends(n + 1)'
    <3>1. owner'[q] = C => data'[q].from + cur'[C].off = Len(rcvd')
      <4>1. CASE q = i
        <5>1. n = 0 /\ cur[C].off = 0
          <6>1. n = 0
            BY <1>10, <1>11, <4>1
          <6>2. cur[C].buf = NoBuf
            BY <1>4, <1>6, <4>1 DEF Reading
          <6>. QED
            BY <1>1, <6>1, <6>2 DEF CallInv, Holding
        <5>. QED
          <6>1. Len(rcvd') = Len(rcvd) /\ Len(rcvd) = data[i].from /\ cur'[C].off = 0
            BY <1>2, <1>7, <1>12, <5>1
          <6>2. data'[q].from = data[i].from /\ data[i].from \in Nat
            BY <1>4, <1>5, <4>1
          <6>. QED
            BY <6>1, <6>2
      <4>2. CASE q # i
        BY <1>2, <1>7, <1>12, <2>6, <4>2
      <4>. QED
        BY <4>1, <4>2
    <3>2. \A j \in Buf : owner'[j] = C /\ Dist(q, j) = n + 1 - 1 =>
                           data'[j].from + data'[j].len = sent'
      <4>. SUFFICES ASSUME NEW j \in Buf, Dist(q, j) = n + 1 - 1
                    PROVE  data'[j].from + data'[j].len = sent'
        OBVIOUS
      <4>1. j = i
        BY <1>10, <1>11
      <4>. QED
        BY <1>5, <4>1
    <3>. QED
      BY <1>7, <2>3, <3>1, <3>2 DEF Ends
  <2>8. Chained'
    <3>. SUFFICES ASSUME NEW j \in Buf, NEW k \in Buf, owner'[j] = C, owner'[k] = C,
                         Dist(q, k) = Dist(q, j) + 1
                  PROVE  data'[k].from = data'[j].from + data'[j].len
      BY <1>7 DEF Chained
    <3>1. j # i
      BY <1>10, <1>11, <2>2
    <3>2. CASE k = i
      BY <1>2, <1>10, <1>11, <1>12, <2>6, <3>1, <3>2
    <3>3. CASE k # i
      BY <1>13, <2>6, <3>1, <3>3
    <3>. QED
      BY <3>2, <3>3
  <2>9. Spread'
    <3>. SUFFICES ASSUME NEW j \in Buf, NEW k \in Buf, owner'[j] = C, owner'[k] = C,
                         Dist(q, j) <= Dist(q, k)
                  PROVE  data'[k].from <= data'[j].from + (Dist(q, k) - Dist(q, j)) * BufSize
      BY <1>7 DEF Spread
    <3>0. Dist(q, j) \in Nat /\ Dist(q, k) \in Nat
      BY <1>10
    <3>1. CASE j = i
      <4>1. k = i
        BY <1>10, <1>11, <2>2, <3>1
      <4>2. Dist(q, k) - Dist(q, j) = 0 /\ 0 * BufSize = 0
        BY <3>0, <3>1, <4>1, Times
      <4>3. (Dist(q, k) - Dist(q, j)) * BufSize = 0
        BY <4>2
      <4>4. PICK x \in Nat : x = data'[i].from
        BY <1>4, <1>5
      <4>5. data'[k].from = x /\ data'[j].from = x
        BY <3>1, <4>1, <4>4
      <4>. QED
        BY <4>3, <4>4, <4>5
    <3>2. CASE j # i /\ k # i
      BY <1>13, <2>6, <3>2
    <3>3. CASE j # i /\ k = i
      <4>1. Dist(q, j) < n /\ owner[j] = C /\ data'[j] = data[j] /\ Dist(q, k) = n
        BY <1>11, <2>6, <3>3
      <4>2. PICK l \in Buf : Dist(q, l) = n - 1
        <5>1. n - 1 \in 0 .. BufCnt - 1
          BY <3>0, <4>1
        <5>. QED
          BY <1>10, <5>1
      <4>3. owner[l] = C
        BY <1>11, <4>2
      <4>4. data[l].from + data[l].len = data[i].from
        BY <1>12, <4>2, <4>3
      <4>5. PICK a \in Nat : a = n - 1 - Dist(q, j)
        BY <3>0, <4>1
      <4>6. data[l].from <= data[j].from + a * BufSize
        <5>1. Dist(q, j) <= Dist(q, l) /\ Dist(q, l) - Dist(q, j) = a
          BY <3>0, <4>1, <4>2, <4>5
        <5>2. data[l].from <= data[j].from + (Dist(q, l) - Dist(q, j)) * BufSize
          BY <1>13, <4>1, <4>3, <5>1
        <5>. QED
          BY <5>1, <5>2
      <4>7. Dist(q, k) - Dist(q, j) = a + 1
        BY <3>0, <4>1, <4>5
      <4>8. (a + 1) * BufSize = a * BufSize + BufSize /\ a * BufSize \in Nat
        BY Times
      <4>9. data[i].from <= data[j].from + (a + 1) * BufSize
        <5>1. /\ data[i].from \in Nat /\ data[j].from \in Nat /\ data[l].from \in Nat
              /\ data[l].len \in Nat /\ data[l].len <= BufSize
          BY <1>4
        <5>2. PICK x \in Nat : x = a * BufSize
          BY <4>8
        <5>3. data[i].from <= data[j].from + (x + BufSize)
          BY <4>4, <4>6, <5>1, <5>2
        <5>. QED
          BY <4>8, <5>2, <5>3
      <4>. QED
        BY <1>2, <3>3, <4>1, <4>7, <4>9
    <3>. QED
      BY <3>1, <3>2, <3>3
  <2>10. BuffersAccounted'
    <3>. SUFFICES ASSUME NEW j \in Buf
                  PROVE  held'[j] <=> \E o \in Side : cur'[o].buf = j /\ owner'[j] = o
      BY DEF BuffersAccounted
    <3>1. CASE j = i
      BY <1>4, <1>7, <2>1, <3>1
    <3>2. CASE j # i
      BY <1>2, <1>7, <1>15, <2>1, <3>2
    <3>. QED
      BY <3>1, <3>2
  <2>11. Within'
    <3>1. ASSUME NEW j \in Buf, owner'[j] = C PROVE data'[j].from + data'[j].len <= sent'
      <4>1. data[j].from \in Nat /\ data[j].len \in Nat /\ sent \in Nat /\ r \in Nat
        BY <1>4
      <4>2. CASE j = i
        BY <1>5, <4>1, <4>2
      <4>3. CASE j # i
        <5>1. data[j].from + data[j].len <= sent /\ data'[j] = data[j]
          BY <1>3, <2>6, <3>1, <4>3
        <5>. QED
          BY <1>5, <4>1, <5>1
      <4>. QED
        BY <4>2, <4>3
    <3>2. Len(rcvd') <= sent'
      BY <1>2, <1>3, <1>4, <1>5
    <3>. QED
      BY <1>3, <2>1, <3>1, <3>2 DEF Within
  <2>12. n + 1 \in 0 .. BufCnt
    BY <1>11
  <2>. QED
    BY <1>1, <1>16, <2>1, <2>5, <2>7, <2>8, <2>9, <2>10, <2>11, <2>12 DEF MsgInv
<1>. QED
  BY <1>17, <1>18

LEMMA RcvCopyStream ==
  ASSUME MsgInv, RcvCopy
  PROVE  MsgInv'
<1>. USE Sides, Bufs
<1>1. CallInv /\ CallInv'
  BY RcvCopyKeeps DEF MsgInv
<1>2. PICK i \in Buf, r \in Nat :
         /\ TypeOK' /\ OtherKept(C) /\ UNCHANGED <<data, idx, hdr, sent, next, gaveUp>>
         /\ i = cur[C].buf /\ pc[C] = "copy" /\ pc'[C] \in {"idle", "get"}
         /\ cur[C].off + r <= data[i].len
         /\ rcvd' = rcvd \o [k \in 1 .. r |-> data[i].from + cur[C].off + k]
         /\ \A j \in Buf \ {i} : owner'[j] = owner[j] /\ held'[j] = held[j]
         /\ call'[C].done <= call'[C].len
         /\ pc'[C] = "idle" => call'[C].done = 0
         /\ \/ /\ cur'[C].buf = i /\ cur'[C].off = cur[C].off + r /\ pc'[C] = "idle"
               /\ owner' = owner /\ held' = held
            \/ /\ cur'[C].buf = NoBuf /\ cur'[C].off = 0 /\ cur[C].off + r = data[i].len
               /\ owner'[i] = P /\ ~held'[i]
  BY <1>1, RcvEffect
<1>3. /\ owner[i] = C /\ held[i] /\ idx[C] = Succ(i) /\ cur[P].buf # i
      /\ cur[C].off \in Nat /\ sent \in Nat /\ Len(rcvd) \in Nat
      /\ \A j \in Buf : data[j].from \in Nat /\ data[j].len \in 0 .. BufSize
  <2>1. i \in Buf /\ i = cur[C].buf
    BY <1>2
  <2>2. TypeOK /\ Holding(P) /\ Holding(C)
    BY <1>1 DEF CallInv
  <2>3. /\ cur[C].off \in Nat /\ sent \in Nat
        /\ \A j \in Buf : data[j].from \in Nat /\ data[j].len \in 0 .. BufSize
    BY <2>2, Fields
  <2>4. owner[i] = C /\ held[i] /\ idx[C] = Succ(i)
    BY <2>1, <2>2 DEF Holding
  <2>5. cur[P].buf # i
    BY <2>1, <2>2, <2>4 DEF Holding
  <2>6. Len(rcvd) \in Nat
    BY <2>2 DEF TypeOK
  <2>. QED
    BY <2>3, <2>4, <2>5, <2>6
<1>4. Len(rcvd') = Len(rcvd) + r
  <2>1. rcvd \in Seq(1 .. MaxBytes)
    BY <1>1 DEF CallInv, TypeOK
  <2>2. PICK s : s = [k \in 1 .. r |-> data[i].from + cur[C].off + k]
    OBVIOUS
  <2>3. s \in Seq(1 .. MaxBytes) /\ Len(s) = r
    <3>1. /\ data[i].from \in Nat /\ data[i].len \in Nat /\ cur[C].off + r <= data[i].len
          /\ data[i].from + data[i].len <= MaxBytes
      BY <1>1, <1>2, <1>3 DEF CallInv, Positions
    <3>2. \A k \in 1 .. r : data[i].from + cur[C].off + k \in 1 .. MaxBytes
      <4>1. PICK f \in Nat, o \in Nat, l \in Nat :
               f = data[i].from /\ o = cur[C].off /\ l = data[i].len
        BY <1>3, <3>1
      <4>2. o + r <= l /\ f + l <= MaxBytes /\ r \in Nat /\ MaxBytes \in Nat
        BY <1>2, <3>1, <4>1
      <4>3. \A k \in 1 .. r : f + o + k \in 1 .. MaxBytes
        BY <4>2
      <4>. QED
        BY <4>1, <4>3
    <3>. QED
      BY <2>2, <3>2
  <2>4. rcvd' = rcvd \o s
    BY <1>2, <2>2
  <2>5. Len(rcvd \o s) = Len(rcvd) + Len(s)
    BY <2>1, <2>3, ConcatProperties
  <2>. QED
    BY <2>3, <2>4, <2>5
<1>5. /\ Reading = i /\ Writing' = Writing /\ WriteStart' = WriteStart
      /\ cur'[P] = cur[P] /\ call'[P] = call[P] /\ pc'[P] = pc[P]
  BY <1>2 DEF Reading, Writing, WriteStart, OtherKept
<1>6. PICK n \in 0 .. BufCnt : Ring(n) /\ Ends(n)
  BY DEF MsgInv
<1>7. /\ \A j \in Buf : Dist(i, j) \in 0 .. BufCnt - 1 /\ (Dist(i, j) = 0 <=> j = i)
      /\ \A j \in Buf : Dist(i, Succ(j)) = IF Dist(i, j) = BufCnt - 1 THEN 0 ELSE Dist(i, j) + 1
      /\ \A j \in Buf : Dist(Succ(i), j) = IF j = i THEN BufCnt - 1 ELSE Dist(i, j) - 1
  BY DistFacts
<1>8. /\ \A j \in Buf : owner[j] = C <=> Dist(i, j) < n
      /\ ~gaveUp => IF n = BufCnt THEN Writing = i ELSE Dist(i, Writing) = n
      /\ n >= 1
  BY <1>3, <1>5, <1>6, <1>7 DEF Ring
<1>9. /\ data[i].from + cur[C].off = Len(rcvd)
      /\ ~gaveUp => \A j \in Buf : owner[j] = C /\ Dist(i, j) = n - 1 =>
                                     data[j].from + data[j].len = WriteStart
  BY <1>3, <1>5, <1>6 DEF Ends
<1>10. /\ \A j, k \in Buf :
            owner[j] = C /\ owner[k] = C /\ Dist(i, k) = Dist(i, j) + 1 =>
              data[k].from = data[j].from + data[j].len
       /\ \A j, k \in Buf :
            owner[j] = C /\ owner[k] = C /\ Dist(i, j) <= Dist(i, k) =>
              data[k].from <= data[j].from + (Dist(i, k) - Dist(i, j)) * BufSize
  BY <1>5 DEF MsgInv, Chained, Spread
<1>11. /\ data[i].from + cur[C].off + r = Len(rcvd') /\ Len(rcvd') <= sent
       /\ \A j \in Buf : owner[j] = C => data[j].from + data[j].len <= sent
  <2>1. \A j \in Buf : owner[j] = C => data[j].from + data[j].len <= sent
    BY DEF MsgInv, Within
  <2>2. data[i].from + data[i].len <= sent /\ cur[C].off + r <= data[i].len
    BY <1>2, <1>3, <2>1
  <2>3. data[i].from \in Nat /\ data[i].len \in Nat
    BY <1>3
  <2>4. cur[C].off \in Nat /\ sent \in Nat /\ Len(rcvd) \in Nat /\ r \in Nat
    BY <1>3
  <2>5. data[i].from + cur[C].off + r = Len(rcvd')
    BY <1>4, <1>9, <2>3, <2>4
  <2>6. Len(rcvd') <= sent
    BY <2>2, <2>3, <2>4, <2>5
  <2>. QED
    BY <2>1, <2>5, <2>6
<1>12. \A j \in Buf : owner'[j] = C => owner[j] = C
  BY <1>2, <1>3
<1>13. Within'
  BY <1>2, <1>5, <1>11, <1>12 DEF MsgInv, Within
<1>14. ~gaveUp => \A b \in Len(rcvd) + 1 .. sent : \E j \in Buf :
                    /\ b \in data[j].from + 1 .. data[j].from + data[j].len
                    /\ owner[j] = C \/ cur[P].buf = j
  BY DEF MsgInv, Covered
<1>15. ~gaveUp => \A j \in Buf : held[j] <=> \E o \in Side : cur[o].buf = j /\ owner[j] = o
  BY DEF MsgInv, BuffersAccounted
\* The rest of the buffer is left for the next call.
<1>16. CASE cur'[C].buf = i
  <2>1. owner' = owner /\ held' = held /\ cur'[C].off = cur[C].off + r
    BY <1>2, <1>16
  <2>2. Reading' = i
    BY <1>16 DEF Reading
  <2>3. Chained' /\ Spread'
    BY <1>2, <1>10, <2>1, <2>2 DEF Chained, Spread
  <2>4. BuffersAccounted'
    BY <1>2, <1>5, <1>15, <1>16, <2>1 DEF BuffersAccounted
  <2>5. Covered'
    <3>. SUFFICES ASSUME ~gaveUp, NEW b \in Len(rcvd') + 1 .. sent
                  PROVE  \E j \in Buf : /\ b \in data[j].from + 1 .. data[j].from + data[j].len
                                        /\ owner[j] = C \/ cur[P].buf = j
      BY <1>2, <1>5, <2>1 DEF Covered
    <3>1. b \in Len(rcvd) + 1 .. sent
      BY <1>3, <1>4
    <3>. QED
      BY <1>14, <3>1
  <2>6. Ring(n)'
    BY <1>2, <1>5, <1>8, <2>1, <2>2 DEF Ring
  <2>7. Ends(n)'
    <3>1. data[i].from + cur'[C].off = Len(rcvd')
      <4>1. data[i].from \in Nat
        BY <1>3
      <4>. QED
        BY <1>3, <1>11, <2>1, <4>1
    <3>2. ~gaveUp => n # 0 /\ \A j \in Buf : owner[j] = C /\ Dist(i, j) = n - 1 =>
                                               data[j].from + data[j].len = WriteStart
      BY <1>8, <1>9
    <3>. QED
      BY <1>2, <1>5, <2>1, <2>2, <3>1, <3>2 DEF Ends
  <2>. QED
    BY <1>1, <1>13, <2>3, <2>4, <2>5, <2>6, <2>7 DEF MsgInv
\* The buffer goes back to the sender.
<1>17. CASE cur'[C].buf # i
  <2>1. /\ cur'[C].buf = NoBuf /\ cur'[C].off = 0 /\ cur[C].off + r = data[i].len
        /\ owner'[i] = P /\ ~held'[i]
    BY <1>2, <1>17
  <2>2. data[i].from + data[i].len = Len(rcvd')
    <3>1. data[i].from \in Nat
      BY <1>3
    <3>. QED
      BY <1>3, <1>11, <2>1, <3>1
  <2>3. Reading' = Succ(i) /\ Succ(i) \in Buf
    BY <1>2, <1>3, <2>1 DEF Reading
  <2>4. \A j \in Buf : owner'[j] = C => j # i /\ owner[j] = C /\ Dist(Succ(i), j) = Dist(i, j) - 1
    BY <1>2, <1>7, <2>1
  <2>5. \A j \in Buf : owner'[j] = C <=> Dist(Succ(i), j) < n - 1
    <3>. SUFFICES ASSUME NEW j \in Buf PROVE owner'[j] = C <=> Dist(Succ(i), j) < n - 1
      OBVIOUS
    <3>1. CASE j = i
      BY <1>7, <2>1, <3>1
    <3>2. CASE j # i
      <4>1. owner'[j] = owner[j]
        BY <1>2, <3>2
      <4>2. Dist(Succ(i), j) = Dist(i, j) - 1 /\ Dist(i, j) \in 0 .. BufCnt - 1
        BY <1>7, <3>2
      <4>3. owner[j] = C <=> Dist(i, j) < n
        BY <1>8
      <4>. QED
        BY <4>1, <4>2, <4>3
    <3>. QED
      BY <3>1, <3>2
  <2>6. ~gaveUp => Dist(Succ(i), Writing) = n - 1
    <3>1. Writing \in Buf
      BY <1>1, ReadingBuf
    <3>. QED
      BY <1>7, <1>8, <3>1
  <2>7. Ring(n - 1)'
    BY <1>2, <1>5, <2>3, <2>5, <2>6 DEF Ring
  <2>8. Ends(n - 1)'
    <3>1. owner'[Succ(i)] = C => data[Succ(i)].from + 0 = Len(rcvd')
      <4>. SUFFICES ASSUME owner'[Succ(i)] = C PROVE data[Succ(i)].from + 0 = Len(rcvd')
        OBVIOUS
      <4>1. Succ(i) # i /\ owner[Succ(i)] = C
        BY <2>3, <2>4
      <4>2. Dist(i, Succ(i)) = Dist(i, i) + 1
        BY <1>7, <2>3, <4>1
      <4>3. data[Succ(i)].from = data[i].from + data[i].len
        BY <1>3, <1>10, <2>3, <4>1, <4>2
      <4>. QED
        BY <1>3, <2>2, <2>3, <4>3
    <3>2. ~gaveUp /\ n - 1 = 0 => Len(rcvd') = WriteStart
      BY <1>3, <1>7, <1>9, <2>2
    <3>3. ASSUME ~gaveUp, NEW j \in Buf, owner'[j] = C, Dist(Succ(i), j) = n - 1 - 1
          PROVE  data[j].from + data[j].len = WriteStart
      <4>1. owner[j] = C /\ Dist(i, j) = n - 1
        BY <1>7, <2>4, <3>3
      <4>. QED
        BY <1>9, <3>3, <4>1
    <3>. QED
      BY <1>2, <1>5, <2>1, <2>3, <3>1, <3>2, <3>3 DEF Ends
  <2>9. Chained'
    <3>. SUFFICES ASSUME NEW j \in Buf, NEW k \in Buf, owner'[j] = C, owner'[k] = C,
                         Dist(Succ(i), k) = Dist(Succ(i), j) + 1
                  PROVE  data[k].from = data[j].from + data[j].len
      BY <1>2, <2>3 DEF Chained
    <3>1. owner[j] = C /\ owner[k] = C /\ Dist(i, k) = Dist(i, j) + 1
      BY <1>7, <2>4
    <3>. QED
      BY <1>10, <3>1
  <2>10. Spread'
    <3>. SUFFICES ASSUME NEW j \in Buf, NEW k \in Buf, owner'[j] = C, owner'[k] = C,
                         Dist(Succ(i), j) <= Dist(Succ(i), k)
                  PROVE  data[k].from <= data[j].from
                                           + (Dist(Succ(i), k) - Dist(Succ(i), j)) * BufSize
      BY <1>2, <2>3 DEF Spread
    <3>1. /\ owner[j] = C /\ owner[k] = C /\ Dist(i, j) <= Dist(i, k)
          /\ Dist(Succ(i), k) - Dist(Succ(i), j) = Dist(i, k) - Dist(i, j)
      BY <1>7, <2>4
    <3>2. data[k].from <= data[j].from + (Dist(i, k) - Dist(i, j)) * BufSize
      BY <1>10, <3>1
    <3>. QED
      BY <3>1, <3>2
  <2>11. BuffersAccounted'
    <3>. SUFFICES ASSUME ~gaveUp, NEW j \in Buf
                  PROVE  held'[j] <=> \E o \in Side : cur'[o].buf = j /\ owner'[j] = o
      BY <1>2 DEF BuffersAccounted
    <3>1. CASE j = i
      BY <1>3, <1>5, <2>1, <3>1
    <3>2. CASE j # i
      BY <1>2, <1>5, <1>15, <2>1, <3>2
    <3>. QED
      BY <3>1, <3>2
  <2>12. Covered'
    <3>. SUFFICES ASSUME ~gaveUp, NEW b \in Len(rcvd') + 1 .. sent
                  PROVE  \E j \in Buf : /\ b \in data[j].from + 1 .. data[j].from + data[j].len
                                        /\ owner'[j] = C \/ cur[P].buf = j
      BY <1>2, <1>5 DEF Covered
    <3>1. b \in Len(rcvd) + 1 .. sent
      BY <1>3, <1>4
    <3>2. PICK j \in Buf : /\ b \in data[j].from + 1 .. data[j].from + data[j].len
                           /\ owner[j] = C \/ cur[P].buf = j
      BY <1>14, <3>1
    <3>3. j # i
      <4>1. Len(rcvd') \in Nat /\ b > Len(rcvd')
        BY <1>3, <1>4
      <4>. QED
        BY <2>2, <3>2, <4>1
    <3>4. owner'[j] = owner[j]
      BY <1>2, <3>3
    <3>. QED
      BY <3>2, <3>4
  <2>13. n - 1 \in 0 .. BufCnt
    BY <1>8
  <2>. QED
    BY <1>1, <1>13, <2>7, <2>8, <2>9, <2>10, <2>11, <2>12, <2>13 DEF MsgInv
<1>. QED
  BY <1>16, <1>17

LEMMA MsgNext ==
  ASSUME MsgInv, Resumes = FALSE, [Next]_vars
  PROVE  MsgInv'
<1>. USE Sides
<1>1. CallInv /\ CallInv'
  BY CallNext DEF MsgInv
<1>2. Within /\ Holding(P)
  BY <1>1 DEF MsgInv, CallInv
<1>3. ASSUME NEW n \in SendLens, NEW f \in SendFlags, SendCall(n, f) PROVE MsgInv'
  <2>1. n \in Nat /\ f \in SUBSET {"WAIT", "AUTO_STREAM", "IGNORE_SHUTDOWN"} /\ Enter(P, n, f) /\ ~gaveUp
    BY <1>3, MsgAssumption DEF SendCall
  <2>2. /\ UNCHANGED <<owner, held, data, idx, cur, next, sent, rcvd, gaveUp>>
        /\ call'[P].done = 0 /\ pc[P] = "idle"
    BY <1>1, <2>1, EnterEffect
  <2>. QED
    BY <1>1, <1>2, <2>1, <2>2, Quiet DEF Holding
<1>4. ASSUME NEW n \in RcvLens, NEW f \in RcvFlags, RcvCall(n, f) PROVE MsgInv'
  <2>1. n \in Nat /\ f \in SUBSET {"WAIT", "AUTO_STREAM", "IGNORE_SHUTDOWN"} /\ Enter(C, n, f)
    BY <1>4, MsgAssumption DEF RcvCall
  <2>2. /\ UNCHANGED <<owner, held, data, idx, cur, next, sent, rcvd, gaveUp>>
        /\ call'[P] = call[P] /\ pc'[P] = pc[P]
    BY <1>1, <2>1, EnterEffect DEF OtherKept
  <2>. QED
    BY <1>1, <1>2, <2>2, Quiet DEF Within
<1>5. ASSUME NEW e \in Side, GetFails(e) PROVE MsgInv'
  <2>1. /\ UNCHANGED <<owner, held, data, idx, cur, sent, rcvd, gaveUp>> /\ OtherKept(e)
        /\ pc[e] = "get" /\ pc'[e] = "idle" /\ call'[e].done = 0
        /\ next' = IF e = P THEN next + call[P].done ELSE next
    BY <1>1, <1>5, GetFailsEffect
  <2>2. next \in Nat /\ call[P].done \in Nat
    BY <1>1, Fields DEF CallInv
  <2>3. next' + call'[P].done = next + call[P].done
    <3>1. CASE e = P
      BY <2>1, <2>2, <3>1
    <3>2. CASE e = C
      BY <2>1, <3>2 DEF OtherKept
    <3>. QED
      BY <3>1, <3>2
  <2>4. gaveUp => pc'[P] = "idle"
    BY <1>2, <2>1 DEF Within, OtherKept
  <2>. QED
    BY <1>1, <2>1, <2>3, <2>4, Quiet
<1>6. ASSUME NEW e \in Side, NEW s \in Signals, Control(e, s) PROVE MsgInv'
  <2>1. s \in {"STOP", "START", "SHUTDOWN"}
    BY MsgAssumption
  <2>2. UNCHANGED <<owner, held, data, idx, cur, pc, call, next, sent, rcvd, gaveUp>>
    BY <1>1, <1>6, <2>1, ControlEffect
  <2>. QED
    BY <1>1, <1>2, <2>2, Quiet DEF Within
<1>7. CASE UNCHANGED vars
  BY <1>1, <1>2, <1>7, Quiet DEF vars, Within
<1>. QED
  BY <1>3, <1>4, <1>5, <1>6, <1>7, GetStream, SendCopyStream, RcvCopyStream DEF Next

LEMMA MsgInvariant ==
  ASSUME Resumes = FALSE
  PROVE  Spec => []MsgInv
<1>1. MsgInv /\ [Next]_vars => MsgInv'
  BY MsgNext
<1>. QED
  BY <1>1, MsgInit, PTL DEF Spec

\* vxtq_get_buf and vxtq_put_buf are paired across the calls of vxt_msg_send
\* and vxt_msg_rcv: until a blocked put, app_held is set in exactly the buffers
\* that partial_send and partial_rcv, or the call in progress, go on with.
THEOREM BuffersAccountedAlways ==
  ASSUME Resumes = FALSE
  PROVE  Spec => []BuffersAccounted
<1>1. MsgInv => BuffersAccounted
  BY DEF MsgInv
<1>. QED
  BY <1>1, MsgInvariant, PTL

\* No byte that vxt_msg_send has reported as sent is forgotten while it is on
\* its way, however the calls cut the stream up and whichever of them fail.
THEOREM NoByteForgottenAlways ==
  ASSUME Resumes = FALSE
  PROVE  Spec => []NoByteForgotten
<1>1. MsgInv => NoByteForgotten
  <2>. SUFFICES ASSUME MsgInv, ~gaveUp, NEW b \in Len(rcvd) + 1 .. next
                PROVE  \E i \in Buf : /\ b \in data[i].from + 1 .. data[i].from + data[i].len
                                      /\ owner[i] = C \/ cur[P].buf = i
    BY DEF NoByteForgotten
  <2>1. TypeOK /\ sent = next + call[P].done
    BY DEF MsgInv, CallInv, Within
  <2>2. sent \in Nat /\ next \in Nat /\ call[P].done \in Nat /\ Len(rcvd) \in Nat
    BY <2>1, Fields, Sides DEF TypeOK
  <2>3. b \in Len(rcvd) + 1 .. sent
    BY <2>1, <2>2
  <2>. QED
    BY <2>3 DEF MsgInv, Covered
<1>. QED
  BY <1>1, MsgInvariant, PTL

-----------------------------------------------------------------------------
(* The two ends implement ByteStream *)

LEMMA Reach ==
  ASSUME NEW fl \in Nat, NEW ll \in Nat, NEW fq \in Nat, NEW o \in Nat, NEW x \in Nat,
         NEW b \in Nat, fl <= fq + x, ll <= b
  PROVE  fl + ll <= (fq + o) + (x + b)
OBVIOUS

LEMMA CopyInWrites ==
  ASSUME MsgInv, SendCopy
  PROVE  Stream!Write \/ UNCHANGED <<sent, rcvd>>
<1>. USE Sides, Bufs
<1>1. CallInv
  BY DEF MsgInv
<1>2. PICK i \in Buf, r \in Nat :
         /\ UNCHANGED rcvd /\ i = cur[P].buf /\ pc[P] = "copy"
         /\ cur[P].off + r <= BufSize
         /\ sent' = IF next + call[P].done + r > sent THEN next + call[P].done + r ELSE sent
  BY <1>1, SendEffect
<1>3. ~gaveUp /\ sent = next + call[P].done
  BY <1>2 DEF MsgInv, Within
<1>4. TypeOK /\ Positions /\ Holding(P) /\ Holding(C)
  BY <1>1 DEF CallInv
<1>5. /\ cur[P].off \in Nat /\ next \in Nat /\ call[P].done \in Nat /\ sent \in Nat
      /\ cur[C].off \in Nat
      /\ \A j \in Buf : data[j].from \in Nat /\ data[j].len \in 0 .. BufSize
  BY <1>4, Fields
<1>6. Len(rcvd) \in Nat
  BY <1>4 DEF TypeOK
<1>7. sent' = sent + r
  BY <1>2, <1>3, <1>5
<1>8. data[i].from + cur[P].off = sent /\ owner[i] = P
  BY <1>2, <1>3, <1>4 DEF Positions, Holding
<1>9. PICK q \in Buf : q = Reading
  BY <1>1, ReadingBuf
<1>10. PICK n \in 0 .. BufCnt : Ring(n) /\ Ends(n)
  BY DEF MsgInv
<1>11. /\ \A j \in Buf : Dist(q, j) \in 0 .. BufCnt - 1
       /\ Dist(q, q) = 0
       /\ \A d \in 0 .. BufCnt - 1 : \E l \in Buf : Dist(q, l) = d
  BY DistFacts
<1>12. n \in Nat /\ n + 1 <= BufCnt /\ \A j \in Buf : owner[j] = C <=> Dist(q, j) < n
  <2>1. \A j \in Buf : owner[j] = C <=> Dist(q, j) < n
    BY <1>9, <1>10 DEF Ring
  <2>2. ~(n > Dist(q, i)) /\ Dist(q, i) \in 0 .. BufCnt - 1
    BY <1>8, <1>11, <2>1
  <2>. QED
    BY <2>1, <2>2
<1>13. data[i].from <= Len(rcvd) + n * BufSize
  <2>1. WriteStart = data[i].from
    BY <1>2 DEF WriteStart
  <2>2. CASE n = 0
    <3>1. Len(rcvd) = data[i].from /\ n * BufSize = 0
      BY <1>3, <1>10, <2>1, <2>2, Times DEF Ends
    <3>. QED
      BY <1>6, <3>1
  <2>3. CASE n # 0
    <3>1. PICK a \in Nat : n = a + 1
      <4>1. n - 1 \in Nat /\ n = (n - 1) + 1
        BY <1>12, <2>3
      <4>. QED
        BY <4>1
    <3>2. PICK l \in Buf : Dist(q, l) = a
      <4>1. a \in 0 .. BufCnt - 1
        BY <1>12, <3>1
      <4>. QED
        BY <1>11, <4>1
    <3>3. owner[q] = C /\ owner[l] = C
      <4>1. Dist(q, q) < n /\ Dist(q, l) < n
        BY <1>11, <3>1, <3>2
      <4>. QED
        BY <1>12, <4>1
    <3>4. data[q].from + cur[C].off = Len(rcvd) /\ data[l].from + data[l].len = data[i].from
      <4>1. Dist(q, l) = n - 1
        BY <3>1, <3>2
      <4>. QED
        BY <1>3, <1>9, <1>10, <2>1, <3>3, <4>1 DEF Ends
    <3>5. data[l].from <= data[q].from + a * BufSize
      <4>1. data[l].from <= data[q].from + (Dist(q, l) - Dist(q, q)) * BufSize
        <5>1. Dist(q, q) <= Dist(q, l)
          BY <1>11
        <5>. QED
          BY <1>9, <3>3, <5>1 DEF MsgInv, Spread
      <4>2. Dist(q, l) - Dist(q, q) = a
        BY <1>11, <3>2
      <4>. QED
        BY <4>1, <4>2
    <3>6. /\ n * BufSize = a * BufSize + BufSize
          /\ a * BufSize \in Nat /\ n * BufSize \in Nat
      BY <3>1, Times
    <3>7. PICK x \in Nat, y \in Nat : x = a * BufSize /\ y = n * BufSize
      BY <3>6
    <3>8. /\ data[i].from \in Nat /\ data[q].from \in Nat /\ data[l].from \in Nat
          /\ data[l].len \in 0 .. BufSize
      BY <1>5
    <3>9. data[i].from <= Len(rcvd) + y
      <4>1. cur[C].off \in Nat
        BY <1>4, Fields
      <4>2. BufSize \in Nat /\ y = x + BufSize
        BY <3>6, <3>7
      <4>3. data[l].len \in Nat /\ data[l].len <= BufSize /\ data[l].from <= data[q].from + x
        BY <3>5, <3>7, <3>8, <4>2
      <4>4. data[l].from + data[l].len <= (data[q].from + cur[C].off) + (x + BufSize)
        BY <3>8, <4>1, <4>2, <4>3, Reach
      <4>. QED
        BY <3>4, <4>2, <4>4
    <3>. QED
      BY <3>7, <3>9
  <2>. QED
    BY <2>2, <2>3
<1>14. sent + r <= Len(rcvd) + BufCnt * BufSize
  <2>1. n * BufSize \in Nat /\ (n + 1) * BufSize = n * BufSize + BufSize
        /\ (n + 1) * BufSize <= BufCnt * BufSize /\ BufCnt * BufSize \in Nat
    BY <1>12, Times
  <2>2. PICK x \in Nat, z \in Nat : x = n * BufSize /\ z = BufCnt * BufSize
    BY <2>1
  <2>3. x + BufSize <= z
    BY <2>1, <2>2
  <2>4. data[i].from \in Nat /\ data[i].from <= Len(rcvd) + x
    BY <1>5, <1>13, <2>2
  <2>5. sent + r <= Len(rcvd) + z
    BY <1>2, <1>5, <1>6, <1>8, <2>3, <2>4
  <2>. QED
    BY <2>2, <2>5
<1>15. CASE r = 0
  BY <1>2, <1>5, <1>7, <1>15
<1>16. CASE r # 0
  <2>1. BufCnt * BufSize \in Nat /\ BufSize <= BufCnt * BufSize
    <3>1. 1 * BufSize <= BufCnt * BufSize /\ BufCnt * BufSize \in Nat /\ 1 * BufSize = BufSize
      BY Times
    <3>. QED
      BY <3>1
  <2>2. r \in 1 .. BufCnt * BufSize
    BY <1>2, <1>5, <1>16, <2>1
  <2>3. sent + r - Len(rcvd) <= BufCnt * BufSize
    BY <1>5, <1>6, <1>14, <2>1
  <2>. QED
    BY <1>2, <1>7, <2>2, <2>3 DEF Stream!Write
<1>. QED
  BY <1>15, <1>16

LEMMA Unread ==
  ASSUME NEW f \in Nat, NEW o \in Nat, NEW l \in Nat, NEW s \in Nat, NEW r \in Nat,
         r # 0, f + l <= s, o + r <= l
  PROVE  r \in 1 .. s - (f + o)
OBVIOUS

LEMMA CopyOutReads ==
  ASSUME MsgInv, RcvCopy
  PROVE  Stream!Read \/ UNCHANGED <<sent, rcvd>>
<1>. USE Sides, Bufs
<1>1. CallInv
  BY DEF MsgInv
<1>2. PICK i \in Buf, r \in Nat :
         /\ UNCHANGED sent /\ i = cur[C].buf /\ pc[C] = "copy"
         /\ cur[C].off + r <= data[i].len
         /\ rcvd' = rcvd \o [k \in 1 .. r |-> data[i].from + cur[C].off + k]
  BY <1>1, RcvEffect
<1>3. TypeOK /\ Holding(C)
  BY <1>1 DEF CallInv
<1>4. Reading = i /\ owner[i] = C
  BY <1>2, <1>3 DEF Reading, Holding
<1>5. cur[C].off \in Nat /\ sent \in Nat /\ data[i].from \in Nat /\ data[i].len \in Nat
  BY <1>3, Fields
<1>6. rcvd \in Seq(1 .. MaxBytes) /\ Len(rcvd) \in Nat
  BY <1>3 DEF TypeOK
<1>7. data[i].from + cur[C].off = Len(rcvd) /\ data[i].from + data[i].len <= sent
  BY <1>4 DEF MsgInv, Ends, Within
<1>8. rcvd' = rcvd \o [k \in 1 .. r |-> Len(rcvd) + k]
  BY <1>2, <1>7
<1>9. CASE r = 0
  <2>1. [k \in 1 .. r |-> Len(rcvd) + k] = << >>
    BY <1>9
  <2>2. rcvd \o << >> = rcvd
    BY <1>6, ConcatEmptySeq
  <2>3. rcvd' = rcvd
    BY <1>8, <2>1, <2>2
  <2>. QED
    BY <1>2, <2>3
<1>10. CASE r # 0
  <2>1. r \in 1 .. sent - Len(rcvd)
    <3>1. r \in 1 .. sent - (data[i].from + cur[C].off)
      BY <1>2, <1>5, <1>7, <1>10, Unread
    <3>. QED
      BY <1>7, <3>1
  <2>. QED
    BY <1>2, <1>8, <2>1 DEF Stream!Read
<1>. QED
  BY <1>9, <1>10

LEMMA StreamStep ==
  ASSUME MsgInv, [Next]_vars
  PROVE  [Stream!Next]_<<sent, rcvd>>
<1>1. CASE SendCopy
  BY <1>1, CopyInWrites DEF Stream!Next
<1>2. CASE RcvCopy
  BY <1>2, CopyOutReads DEF Stream!Next
<1>3. CASE ~SendCopy /\ ~RcvCopy
  BY <1>3 DEF Next, vars, SendCall, RcvCall, Enter, Get, GetFails, Control
<1>. QED
  BY <1>1, <1>2, <1>3

\* vxt_msg_send and vxt_msg_rcv together implement a byte stream of the
\* capacity of the ring: what vxt_msg_rcv hands out is what vxt_msg_send took,
\* in order, once, for any geometry of the ring and any lengths of the calls.
THEOREM MsgIsStream ==
  ASSUME Resumes = FALSE
  PROVE  Spec => StreamSpec
<1>1. Init => Stream!Init
  BY DEF Init, Stream!Init
<1>2. MsgInv /\ [Next]_vars => [Stream!Next]_<<sent, rcvd>>
  BY StreamStep
<1>. QED
  BY <1>1, <1>2, MsgInvariant, PTL DEF Spec, StreamSpec, Stream!Spec
=============================================================================
