--------------------------- MODULE VxtQueueProofs ---------------------------
(***************************************************************************)
(* What vxt_queue.c guarantees for every number of sub-buffers and every   *)
(* client, proved from the specification of VxtQueue.                      *)
(***************************************************************************)
EXTENDS VxtQueue, FiniteSetTheorems, TLAPS

-----------------------------------------------------------------------------
(* Type correctness *)

\* A put in progress has room in the history for the message it publishes.
TypeInv == TypeOK /\ (pc[P] = "publish" => sent < MaxMsg)

LEMMA BufFacts == 0 \in Buf /\ \A i \in Buf : Succ(i) \in Buf
BY QueueAssumption DEF Buf, Succ

\* The 32-bit counters wrap.
LEMMA CountFacts ==
  0 \in 0 .. CntMod - 1 /\ \A x \in 0 .. CntMod - 1 : (x + 1) % CntMod \in 0 .. CntMod - 1
<1>1. CntMod \in Nat /\ CntMod > 0
  BY QueueAssumption
<1>. QED
  BY <1>1

LEMMA HdrFacts == DefaultHdr \in Hdr
<1>1. (BufCnt \div 2) + (BufCnt \div 4) \in Nat /\ BufCnt \div 4 \in Nat
  BY QueueAssumption
<1>. QED
  BY <1>1 DEF DefaultHdr, Hdr

LEMMA PeerFacts ==
  /\ P \in Side /\ C \in Side /\ P # C
  /\ \A e \in Side : Peer(e) \in Side /\ Peer(e) # e /\ Peer(Peer(e)) = e
  /\ \A e, s \in Side : s = e \/ s = Peer(e)
BY DEF P, C, Side, Peer

LEMMA PcFacts ==
  /\ "detached" \in PCs /\ "idle" \in PCs /\ "retry" \in PCs
  /\ "need" \in PCs /\ "wait" \in PCs /\ "recheck" \in PCs
  /\ "publish" \in PCs /\ "count" \in PCs /\ "compare" \in PCs
  /\ "hysteresis" \in PCs /\ "check" \in PCs /\ "signal" \in PCs
  /\ "sigwait" \in PCs
BY DEF PCs

LEMMA FlagFacts ==
  /\ GetFlags \subseteq SUBSET AllFlags
  /\ PutFlags \subseteq SUBSET AllFlags
  /\ SigFlags \subseteq SUBSET AllFlags
BY QueueAssumption DEF AllFlags

\* The locals of a call keep their types when one of them is assigned.
LEMMA CallFacts ==
  ASSUME call \in [Side -> CallType], NEW e \in Side
  PROVE  /\ NoCall \in CallType
         /\ \A f \in SUBSET AllFlags :
              [call EXCEPT ![e].flags = f] \in [Side -> CallType]
         /\ \A f \in SUBSET AllFlags, i \in Buf :
              [call EXCEPT ![e].flags = f, ![e].buf = i] \in [Side -> CallType]
         /\ \A w \in BOOLEAN :
              [call EXCEPT ![e].wrapped = w] \in [Side -> CallType]
<1>1. NoCall \in CallType
  BY BufFacts DEF NoCall, CallType
<1>2. call[e] \in CallType
  OBVIOUS
<1>3. \A f \in SUBSET AllFlags : [call[e] EXCEPT !.flags = f] \in CallType
  BY <1>2 DEF CallType
<1>4. \A f \in SUBSET AllFlags, i \in Buf :
        [call[e] EXCEPT !.flags = f, !.buf = i] \in CallType
  BY <1>2 DEF CallType
<1>5. \A w \in BOOLEAN : [call[e] EXCEPT !.wrapped = w] \in CallType
  BY <1>2 DEF CallType
<1>. QED
  BY <1>1, <1>3, <1>4, <1>5

\* A step that moves one endpoint, and not to the point of publishing.
Moves(e) == \E v \in PCs : v # "publish" /\ pc' = [pc EXCEPT ![e] = v]

LEMMA MoveFacts ==
  ASSUME TypeInv, NEW e \in Side, Moves(e)
  PROVE  pc' \in [Side -> PCs] /\ (pc'[P] = "publish" => pc[P] = "publish")
<1>1. PICK v \in PCs : v # "publish" /\ pc' = [pc EXCEPT ![e] = v]
  BY DEF Moves
<1>2. pc \in [Side -> PCs]
  BY DEF TypeInv, TypeOK
<1>3. pc'[P] = IF P = e THEN v ELSE pc[P]
  BY <1>1, <1>2, PeerFacts
<1>. QED
  BY <1>1, <1>2, <1>3

\* A step that returns to the caller drops the call, others keep it.
LEMMA ReturnFacts ==
  ASSUME TypeInv, NEW e \in Side,
         call' = call \/ call' = [call EXCEPT ![e] = NoCall]
  PROVE  call' \in [Side -> CallType]
<1>1. NoCall \in CallType /\ call \in [Side -> CallType]
  BY BufFacts DEF NoCall, CallType, TypeInv, TypeOK
<1>. QED
  BY <1>1

\* Init and every step keep each word of the queue in its range.
LEMMA TypeInit == Init => TypeInv
<1>. SUFFICES ASSUME Init PROVE TypeInv
  OBVIOUS
<1>. USE BufFacts, CountFacts, HdrFacts, PeerFacts, QueueAssumption
<1>1. NoCall \in CallType
  BY DEF NoCall, CallType
<1>2. TypeOK
  BY <1>1, PcFacts DEF Init, TypeOK, Msg, NoMsg
<1>3. pc[P] # "publish"
  BY DEF Init
<1>. QED
  BY <1>2, <1>3 DEF TypeInv

LEMMA TypeStep == TypeInv /\ [Next]_vars => TypeInv'
<1>. SUFFICES ASSUME TypeInv, [Next]_vars PROVE TypeInv'
  OBVIOUS
<1>. USE BufFacts, PeerFacts, PcFacts
<1>0. NoCall \in CallType
  BY DEF NoCall, CallType
<1>a. ASSUME NEW e \in Side, Connect(e) PROVE TypeInv'
  BY <1>a, HdrFacts, CountFacts DEF TypeInv, TypeOK, Connect, ring, hist
<1>b. ASSUME NEW e \in Side, NEW f \in GetFlags, GetCall(e, f) PROVE TypeInv'
  <2>1. call' \in [Side -> CallType]
    BY <1>b, CallFacts, FlagFacts DEF TypeInv, TypeOK, GetCall
  <2>. QED
    BY <1>b, <2>1 DEF TypeInv, TypeOK, GetCall, ring, hist
<1>c. ASSUME NEW e \in Side, TurnAround(e) PROVE TypeInv'
  BY <1>c DEF TypeInv, TypeOK, TurnAround, ring, hist
<1>d. ASSUME NEW e \in Side, AllHeld(e) PROVE TypeInv'
  BY <1>0, <1>d DEF TypeInv, TypeOK, AllHeld, Return, ring, hist
<1>e. ASSUME NEW e \in Side, Take(e) PROVE TypeInv'
  <2>0. Moves(e) /\ call' = [call EXCEPT ![e] = NoCall]
    BY <1>e DEF Moves, Take, Return
  <2>1. pc' \in [Side -> PCs] /\ (pc'[P] = "publish" => pc[P] = "publish")
    BY <2>0, MoveFacts
  <2>2. call' \in [Side -> CallType]
    BY <2>0, ReturnFacts
  <2>3. held' \in [Buf -> BOOLEAN] /\ app' \in [Side -> SUBSET Buf]
    <3>1. /\ held \in [Buf -> BOOLEAN] /\ app \in [Side -> SUBSET Buf]
          /\ idx[e] \in Buf
      BY DEF TypeInv, TypeOK
    <3>2. /\ held' = [held EXCEPT ![idx[e]] = TRUE]
          /\ app' = [app EXCEPT ![e] = @ \cup {idx[e]}]
      BY <1>e DEF Take
    <3>. QED
      BY <3>1, <3>2
  <2>4. idx' \in [Side -> Buf]
    BY <1>e DEF TypeInv, TypeOK, Take
  <2>. QED
    BY <1>e, <2>1, <2>2, <2>3, <2>4 DEF TypeInv, TypeOK, Take, hist
<1>f. ASSUME NEW e \in Side, NotAvailable(e) PROVE TypeInv'
  <2>0. Moves(e) /\ (call' = call \/ call' = [call EXCEPT ![e] = NoCall])
    BY <1>f DEF Moves, NotAvailable, Return
  <2>1. pc' \in [Side -> PCs] /\ (pc'[P] = "publish" => pc[P] = "publish")
    BY <2>0, MoveFacts
  <2>2. call' \in [Side -> CallType]
    BY <2>0, ReturnFacts
  <2>. QED
    BY <1>f, <2>1, <2>2 DEF TypeInv, TypeOK, NotAvailable, ring, hist
<1>g. ASSUME NEW e \in Side, RequestSignal(e) PROVE TypeInv'
  BY <1>g DEF TypeInv, TypeOK, RequestSignal, ring, hist
<1>h. ASSUME NEW e \in Side, Wake(e) PROVE TypeInv'
  <2>0. Moves(e) /\ (call' = call \/ call' = [call EXCEPT ![e] = NoCall])
    BY <1>h DEF Moves, Wake, Return
  <2>1. pc' \in [Side -> PCs] /\ (pc'[P] = "publish" => pc[P] = "publish")
    BY <2>0, MoveFacts
  <2>2. call' \in [Side -> CallType]
    BY <2>0, ReturnFacts
  <2>. QED
    BY <1>h, <2>1, <2>2 DEF TypeInv, TypeOK, Wake, ring, hist
<1>i. ASSUME NEW e \in Side, Recheck(e) PROVE TypeInv'
  <2>0. Moves(e) /\ (call' = call \/ call' = [call EXCEPT ![e] = NoCall])
    BY <1>i DEF Moves, Recheck, Return
  <2>1. pc' \in [Side -> PCs] /\ (pc'[P] = "publish" => pc[P] = "publish")
    BY <2>0, MoveFacts
  <2>2. call' \in [Side -> CallType]
    BY <2>0, ReturnFacts
  <2>. QED
    BY <1>i, <2>1, <2>2 DEF TypeInv, TypeOK, Recheck, ring, hist
<1>j. ASSUME NEW e \in Side, NEW i \in Buf, NEW f \in PutFlags,
             PutCall(e, i, f)
      PROVE  TypeInv'
  <2>1. call' \in [Side -> CallType]
    BY <1>j, CallFacts, FlagFacts DEF TypeInv, TypeOK, PutCall
  <2>. QED
    BY <1>j, <2>1 DEF TypeInv, TypeOK, PutCall, ring, hist
<1>k. ASSUME NEW e \in Side, Publish(e) PROVE TypeInv'
  <2>. DEFINE i == call[e].buf
  <2>1. i \in Buf
    BY DEF TypeInv, TypeOK, CallType
  <2>2. sent' \in 0 .. MaxMsg /\ data' \in [Buf -> Msg \cup {NoMsg}]
    <3>1. CASE e = P
      <4>1. sent + 1 \in Msg /\ sent + 1 \in 0 .. MaxMsg
        BY <1>k, <3>1, QueueAssumption DEF TypeInv, TypeOK, Publish, Msg
      <4>2. sent' = sent + 1 /\ data' = [data EXCEPT ![i] = sent + 1]
        BY <1>k, <3>1 DEF Publish
      <4>. QED
        BY <2>1, <4>1, <4>2 DEF TypeInv, TypeOK
    <3>2. CASE e = C
      BY <1>k, <2>1, <3>2 DEF TypeInv, TypeOK, Publish
    <3>. QED
      BY <3>1, <3>2 DEF Side
  <2>3. rcvd' \in Seq(Msg \cup {NoMsg}) /\ late' \in Nat /\ voided' = voided
    <3>1. data[i] \in Msg \cup {NoMsg}
      BY <2>1 DEF TypeInv, TypeOK
    <3>2. Append(rcvd, data[i]) \in Seq(Msg \cup {NoMsg})
      BY <3>1 DEF TypeInv, TypeOK
    <3>3. rcvd' = rcvd \/ rcvd' = Append(rcvd, data[i])
      BY <1>k DEF Publish
    <3>4. late' = late \/ late' = late + 1
      BY <1>k DEF Publish
    <3>5. voided' = voided
      BY <1>k DEF Publish
    <3>6. rcvd' \in Seq(Msg \cup {NoMsg})
      BY <3>2, <3>3 DEF TypeInv, TypeOK
    <3>7. late' \in Nat
      <4>1. late \in Nat
        BY DEF TypeInv, TypeOK
      <4>. QED
        BY <3>4, <4>1
    <3>. QED
      BY <3>5, <3>6, <3>7
  <2>4. /\ owner' \in [Buf -> Side] /\ held' \in [Buf -> BOOLEAN]
        /\ app' \in [Side -> SUBSET Buf]
        /\ pc' \in [Side -> PCs]
    BY <1>k, <2>1 DEF TypeInv, TypeOK, Publish
  <2>5. pc'[P] = "publish" => sent' < MaxMsg
    BY <1>k DEF TypeInv, TypeOK, Publish
  <2>. QED
    BY <1>k, <2>2, <2>3, <2>4, <2>5 DEF TypeInv, TypeOK, Publish
<1>l. ASSUME NEW e \in Side, NEW i \in Buf, NEW f \in PutFlags,
             PutBack(e, i, f)
      PROVE  TypeInv'
  BY <1>l DEF TypeInv, TypeOK, PutBack, ring, hist
<1>m. ASSUME NEW e \in Side, NEW i \in Buf, NEW f \in PutFlags,
             PutAbort(e, i, f)
      PROVE  TypeInv'
  <2>1. call' \in [Side -> CallType]
    BY <1>m, CallFacts, FlagFacts DEF TypeInv, TypeOK, PutAbort
  <2>. QED
    BY <1>m, <2>1 DEF TypeInv, TypeOK, PutAbort, ring, hist
<1>n. ASSUME NEW e \in Side, Count(e) PROVE TypeInv'
  <2>1. pc' \in [Side -> PCs] /\ (pc'[P] = "publish" => pc[P] = "publish")
    BY <1>n DEF TypeInv, TypeOK, Count
  <2>2. cnt' \in [Side -> 0 .. CntMod - 1]
    BY <1>n, CountFacts DEF TypeInv, TypeOK, Count
  <2>. QED
    BY <1>n, <2>1, <2>2 DEF TypeInv, TypeOK, Count, ring, hist
<1>o. ASSUME NEW e \in Side, Compare(e) PROVE TypeInv'
  <2>0. (cnt[C] > cnt[P]) \in BOOLEAN
    OBVIOUS
  <2>1. call' \in [Side -> CallType]
    BY <1>o, <2>0, CallFacts DEF TypeInv, TypeOK, Compare
  <2>. QED
    BY <1>o, <2>1 DEF TypeInv, TypeOK, Compare, ring, hist
<1>p. ASSUME NEW e \in Side, Hysteresis(e) PROVE TypeInv'
  <2>0. Moves(e) /\ (call' = call \/ call' = [call EXCEPT ![e] = NoCall])
    BY <1>p DEF Moves, Hysteresis, Return
  <2>1. pc' \in [Side -> PCs] /\ (pc'[P] = "publish" => pc[P] = "publish")
    BY <2>0, MoveFacts
  <2>2. call' \in [Side -> CallType]
    BY <2>0, ReturnFacts
  <2>. QED
    BY <1>p, <2>1, <2>2 DEF TypeInv, TypeOK, Hysteresis, ring, hist
<1>q. ASSUME NEW e \in Side, CheckNeed(e) PROVE TypeInv'
  <2>0. Moves(e) /\ (call' = call \/ call' = [call EXCEPT ![e] = NoCall])
    BY <1>q DEF Moves, CheckNeed, Return
  <2>1. pc' \in [Side -> PCs] /\ (pc'[P] = "publish" => pc[P] = "publish")
    BY <2>0, MoveFacts
  <2>2. call' \in [Side -> CallType]
    BY <2>0, ReturnFacts
  <2>3. need' \in [Side -> BOOLEAN]
    BY <1>q DEF TypeInv, TypeOK, CheckNeed
  <2>. QED
    BY <1>q, <2>1, <2>2, <2>3 DEF TypeInv, TypeOK, CheckNeed, ring, hist
<1>r. ASSUME NEW e \in Side, Signal(e) PROVE TypeInv'
  <2>0. Moves(e) /\ (call' = call \/ call' = [call EXCEPT ![e] = NoCall])
    BY <1>r DEF Moves, Signal, Return
  <2>1. pc' \in [Side -> PCs] /\ (pc'[P] = "publish" => pc[P] = "publish")
    BY <2>0, MoveFacts
  <2>2. call' \in [Side -> CallType]
    BY <2>0, ReturnFacts
  <2>. QED
    BY <1>r, <2>1, <2>2 DEF TypeInv, TypeOK, Signal, ring, hist
<1>s. ASSUME NEW e \in Side, NEW f \in SigFlags, QSignal(e, f) PROVE TypeInv'
  <2>1. call' \in [Side -> CallType]
    <3>1. [call EXCEPT ![e].flags = f] \in [Side -> CallType]
      BY CallFacts, FlagFacts DEF TypeInv, TypeOK
    <3>. QED
      BY <1>s, <3>1 DEF TypeInv, TypeOK, QSignal
  <2>2. hdr' \in Hdr
    BY <1>s DEF TypeInv, TypeOK, QSignal, Hdr
  <2>3. pc' \in [Side -> PCs] /\ (pc'[P] = "publish" => pc[P] = "publish")
    <3>1. Moves(e) \/ pc' = pc
      BY <1>s DEF Moves, QSignal
    <3>. QED
      BY <3>1, MoveFacts DEF TypeInv, TypeOK
  <2>4. late' \in Nat
    BY <1>s DEF TypeInv, TypeOK, QSignal
  <2>. QED
    BY <1>s, <2>1, <2>2, <2>3, <2>4 DEF TypeInv, TypeOK, QSignal, ring
<1>t. ASSUME NEW e \in Side, SetHysteresis(e) PROVE TypeInv'
  <2>1. hdr' \in Hdr
    <3>1. PICK lead \in Leads :
            hdr' = [hdr EXCEPT !.data_avail_lead = lead[1],
                               !.space_avail_lead = lead[2]]
      BY <1>t DEF SetHysteresis
    <3>2. lead[1] \in Nat /\ lead[2] \in Nat
      BY QueueAssumption
    <3>. QED
      BY <3>1, <3>2 DEF TypeInv, TypeOK, Hdr
  <2>. QED
    BY <1>t, <2>1 DEF TypeInv, TypeOK, SetHysteresis, ring, hist
<1>u. ASSUME NEW e \in Side, SetError(e) PROVE TypeInv'
  <2>1. hdr' \in Hdr
    <3>1. hdr \in Hdr
      BY DEF TypeInv, TypeOK
    <3>2. PICK v \in BOOLEAN : hdr' = [hdr EXCEPT !.error = v]
      BY <1>u DEF SetError
    <3>. QED
      BY <3>1, <3>2 DEF Hdr
  <2>. QED
    BY <1>u, <2>1 DEF TypeInv, TypeOK, SetError, ring, hist
<1>v. ASSUME NEW e \in Side, Reset(e) PROVE TypeInv'
  <2>1. hdr' \in Hdr
    BY <1>v, HdrFacts DEF TypeInv, TypeOK, Reset, Hdr
  <2>2. data' \in [Buf -> Msg \cup {NoMsg}] /\ voided' \subseteq Msg
    <3>1. data \in [Buf -> Msg \cup {NoMsg}] /\ voided \subseteq Msg
      BY DEF TypeInv, TypeOK
    <3>2. data' = data
            \/ data' = [i \in Buf |-> IF abort[i] THEN data[i] ELSE NoMsg]
      BY <1>v DEF Reset
    <3>3. voided' = voided
            \/ voided' = voided \cup ({data[i] : i \in Buf} \ {NoMsg})
      BY <1>v DEF Reset, hist
    <3>. QED
      BY <3>1, <3>2, <3>3
  <2>3. cnt' \in [Side -> 0 .. CntMod - 1]
    <3>1. cnt \in [Side -> 0 .. CntMod - 1]
      BY DEF TypeInv, TypeOK
    <3>2. cnt' = cnt \/ cnt' = [t \in Side |-> 0]
      BY <1>v DEF Reset
    <3>. QED
      BY <3>1, <3>2, CountFacts
  <2>4. owner' \in [Buf -> Side] /\ need' \in [Side -> BOOLEAN]
    <3>1. owner' = owner \/ owner' = [i \in Buf |-> P]
      BY <1>v DEF Reset
    <3>2. need' = need \/ need' = [t \in Side |-> FALSE]
      BY <1>v DEF Reset
    <3>3. owner \in [Buf -> Side] /\ need \in [Side -> BOOLEAN]
      BY DEF TypeInv, TypeOK
    <3>4. owner' \in [Buf -> Side]
      BY <3>1, <3>3
    <3>5. [t \in Side |-> FALSE] \in [Side -> BOOLEAN]
      OBVIOUS
    <3>6. need' \in [Side -> BOOLEAN]
      BY <3>2, <3>3, <3>5
    <3>. QED
      BY <3>4, <3>6
  <2>5. idx' \in [Side -> Buf]
    BY <1>v DEF TypeInv, TypeOK, Reset
  <2>. QED
    BY <1>v, <2>1, <2>2, <2>3, <2>4, <2>5 DEF TypeInv, TypeOK, Reset
<1>w. ASSUME NEW e \in Side, Attention(e) PROVE TypeInv'
  BY <1>w DEF TypeInv, TypeOK, Attention, ring, hist
<1>x. CASE UNCHANGED vars
  BY <1>x DEF TypeInv, TypeOK, vars
<1>. QED
  BY <1>a, <1>b, <1>c, <1>d, <1>e, <1>f, <1>g, <1>h, <1>i, <1>j, <1>k, <1>l,
     <1>m, <1>n, <1>o, <1>p, <1>q, <1>r, <1>s, <1>t, <1>u, <1>v, <1>w, <1>x
     DEF Next, Step, ClientCall, WaitReturn, WaitInterrupted

\* The words of the queue that both endpoints write never leave their range,
\* for every ring size and every client of vxt_queue.c.
THEOREM TypeCorrect == Spec => []TypeOK
<1>1. TypeInv => TypeOK
  BY DEF TypeInv
<1>. QED
  BY TypeInit, TypeStep, <1>1, PTL DEF Spec

-----------------------------------------------------------------------------
(* Who may touch a buffer *)

\* A step that moves no buffer and no message.
Quiet ==
  /\ UNCHANGED <<owner, abort, held, data, app, sent, rcvd, voided>>
  /\ \A s \in Side : pc'[s] = "publish" =>
       pc[s] = "publish" /\ call'[s].buf = call[s].buf

\* The steps that do move one.
BufferStep(e) ==
  \/ TurnAround(e) \/ Take(e) \/ Publish(e) \/ Reset(e)
  \/ \E i \in Buf, f \in PutFlags :
       PutCall(e, i, f) \/ PutBack(e, i, f) \/ PutAbort(e, i, f)

LEMMA QuietMove ==
  ASSUME TypeInv, NEW e \in Side, Moves(e),
         \A s \in Side : s # e => call'[s] = call[s],
         UNCHANGED <<owner, abort, held, data, app, sent, rcvd, voided>>
  PROVE  Quiet
<1>1. PICK v \in PCs : v # "publish" /\ pc' = [pc EXCEPT ![e] = v]
  BY DEF Moves
<1>2. \A s \in Side : pc'[s] = IF s = e THEN v ELSE pc[s]
  BY <1>1 DEF TypeInv, TypeOK
<1>. QED
  BY <1>1, <1>2 DEF Quiet

LEMMA StepKinds ==
  TypeInv /\ [Next]_vars => Quiet \/ \E e \in Side : BufferStep(e)
<1>. SUFFICES ASSUME TypeInv, [Next]_vars, ~\E e \in Side : BufferStep(e)
              PROVE  Quiet
  OBVIOUS
<1>. USE PcFacts
<1>0. call \in [Side -> CallType]
  BY DEF TypeInv, TypeOK
<1>a. ASSUME NEW e \in Side, Connect(e) PROVE Quiet
  BY <1>a, QuietMove DEF Connect, Moves, ring, hist
<1>b. ASSUME NEW e \in Side, NEW f \in GetFlags, GetCall(e, f) PROVE Quiet
  BY <1>0, <1>b, QuietMove DEF GetCall, Moves, ring, hist
<1>d. ASSUME NEW e \in Side, AllHeld(e) PROVE Quiet
  BY <1>0, <1>d, QuietMove DEF AllHeld, Return, Moves, ring, hist
<1>f. ASSUME NEW e \in Side, NotAvailable(e) PROVE Quiet
  BY <1>0, <1>f, QuietMove DEF NotAvailable, Return, Moves, ring, hist
<1>g. ASSUME NEW e \in Side, RequestSignal(e) PROVE Quiet
  BY <1>g, QuietMove DEF RequestSignal, Moves, ring, hist
<1>h. ASSUME NEW e \in Side, Wake(e) PROVE Quiet
  BY <1>0, <1>h, QuietMove DEF Wake, Return, Moves, ring, hist
<1>i. ASSUME NEW e \in Side, Recheck(e) PROVE Quiet
  BY <1>0, <1>i, QuietMove DEF Recheck, Return, Moves, ring, hist
<1>n. ASSUME NEW e \in Side, Count(e) PROVE Quiet
  BY <1>n, QuietMove DEF Count, Moves, ring, hist
<1>o. ASSUME NEW e \in Side, Compare(e) PROVE Quiet
  BY <1>0, <1>o, QuietMove DEF Compare, Moves, ring, hist
<1>p. ASSUME NEW e \in Side, Hysteresis(e) PROVE Quiet
  BY <1>0, <1>p, QuietMove DEF Hysteresis, Return, Moves, ring, hist
<1>q. ASSUME NEW e \in Side, CheckNeed(e) PROVE Quiet
  BY <1>0, <1>q, QuietMove DEF CheckNeed, Return, Moves, ring, hist
<1>r. ASSUME NEW e \in Side, Signal(e) PROVE Quiet
  BY <1>0, <1>r, QuietMove DEF Signal, Return, Moves, ring, hist
<1>s. ASSUME NEW e \in Side, NEW f \in SigFlags, QSignal(e, f) PROVE Quiet
  <2>1. \/ pc' = pc /\ call' = call
        \/ Moves(e) /\ call' = [call EXCEPT ![e].flags = f]
    BY <1>s DEF QSignal, Moves
  <2>2. UNCHANGED <<owner, abort, held, data, app, sent, rcvd, voided>>
    BY <1>s DEF QSignal, ring
  <2>3. CASE pc' = pc /\ call' = call
    BY <2>2, <2>3 DEF Quiet
  <2>4. CASE Moves(e) /\ call' = [call EXCEPT ![e].flags = f]
    BY <1>0, <2>2, <2>4, QuietMove
  <2>. QED
    BY <2>1, <2>3, <2>4
<1>t. ASSUME NEW e \in Side, SetHysteresis(e) PROVE Quiet
  BY <1>t DEF SetHysteresis, Quiet, ring, hist
<1>u. ASSUME NEW e \in Side, SetError(e) PROVE Quiet
  BY <1>u DEF SetError, Quiet, ring, hist
<1>w. ASSUME NEW e \in Side, Attention(e) PROVE Quiet
  BY <1>w DEF Attention, Quiet, ring, hist
<1>x. CASE UNCHANGED vars
  BY <1>x DEF Quiet, vars
<1>. QED
  BY <1>a, <1>b, <1>d, <1>f, <1>g, <1>h, <1>i, <1>n, <1>o, <1>p, <1>q, <1>r,
     <1>s, <1>t, <1>u, <1>w, <1>x
     DEF Next, Step, ClientCall, WaitReturn, WaitInterrupted, BufferStep

\* The buffer a put is about to publish is still the client's.
HoldInv ==
  /\ ExclusiveHold
  /\ \A e \in Side : pc[e] = "publish" => call[e].buf \in app[e]

LEMMA HoldInit == Init => HoldInv
BY PeerFacts DEF Init, HoldInv, ExclusiveHold

LEMMA HoldStep == TypeInv /\ HoldInv /\ [Next]_vars => HoldInv'
<1>. SUFFICES ASSUME TypeInv, HoldInv, [Next]_vars PROVE HoldInv'
  OBVIOUS
<1>. USE PeerFacts, BufFacts
<1>0. /\ owner \in [Buf -> Side] /\ abort \in [Buf -> BOOLEAN]
      /\ held \in [Buf -> BOOLEAN] /\ idx \in [Side -> Buf]
      /\ app \in [Side -> SUBSET Buf] /\ pc \in [Side -> PCs]
      /\ call \in [Side -> CallType]
  BY DEF TypeInv, TypeOK
<1>1. CASE Quiet
  BY <1>1 DEF Quiet, HoldInv, ExclusiveHold
<1>2. ASSUME NEW e \in Side, TurnAround(e) PROVE HoldInv'
  BY <1>0, <1>2 DEF TurnAround, HoldInv, ExclusiveHold, hist
<1>3. ASSUME NEW e \in Side, Take(e) PROVE HoldInv'
  BY <1>0, <1>3 DEF Take, Return, HoldInv, ExclusiveHold, hist
<1>4. ASSUME NEW e \in Side, NEW i \in Buf, NEW f \in PutFlags,
             PutCall(e, i, f)
      PROVE  HoldInv'
  <2>1. ExclusiveHold'
    BY <1>4 DEF PutCall, HoldInv, ExclusiveHold, ring
  <2>2. /\ pc' = [pc EXCEPT ![e] = "publish"] /\ app' = app
        /\ call' = [call EXCEPT ![e].flags = f, ![e].buf = i]
        /\ i \in app[e]
    BY <1>4 DEF PutCall, PutValid
  <2>3. call'[e].buf = i
    BY <1>0, <2>2 DEF CallType
  <2>4. \A s \in Side : s # e => pc'[s] = pc[s] /\ call'[s] = call[s]
    BY <1>0, <2>2
  <2>. QED
    BY <2>1, <2>2, <2>3, <2>4 DEF HoldInv
<1>5. ASSUME NEW e \in Side, Publish(e) PROVE HoldInv'
  <2>. DEFINE i == call[e].buf
  <2>1. i \in Buf /\ i \in app[e]
    BY <1>0, <1>5 DEF Publish, HoldInv, CallType
  <2>. HIDE DEF i
  <2>2. /\ held' = [held EXCEPT ![i] = FALSE]
        /\ owner' = [owner EXCEPT ![i] = Peer(e)]
        /\ app' = [app EXCEPT ![e] = @ \ {i}]
        /\ pc' = [pc EXCEPT ![e] = "count"]
        /\ abort' = abort
    BY <1>5 DEF Publish, i
  <2>3. \A s \in Side : s # e => i \notin app[s]
    BY <2>1 DEF HoldInv, ExclusiveHold
  <2>4. ExclusiveHold'
    BY <1>0, <2>1, <2>2, <2>3 DEF HoldInv, ExclusiveHold
  <2>5. \A s \in Side : pc'[s] = "publish" => call'[s].buf \in app'[s]
    <3>. SUFFICES ASSUME NEW s \in Side, pc'[s] = "publish"
                  PROVE  call'[s].buf \in app'[s]
      OBVIOUS
    <3>1. s # e /\ pc[s] = "publish"
      BY <1>0, <2>2
    <3>2. call'[s] = call[s]
      BY <1>0, <1>5, <3>1 DEF Publish
    <3>. QED
      BY <1>0, <2>2, <3>1, <3>2 DEF HoldInv
  <2>. QED
    BY <2>4, <2>5 DEF HoldInv
<1>6. ASSUME NEW e \in Side, NEW i \in Buf, NEW f \in PutFlags,
             PutBack(e, i, f)
      PROVE  HoldInv'
  BY <1>0, <1>6 DEF PutBack, PutValid, HoldInv, ExclusiveHold
<1>7. ASSUME NEW e \in Side, NEW i \in Buf, NEW f \in PutFlags,
             PutAbort(e, i, f)
      PROVE  HoldInv'
  BY <1>0, <1>7 DEF PutAbort, PutValid, HoldInv, ExclusiveHold
<1>8. ASSUME NEW e \in Side, Reset(e) PROVE HoldInv'
  BY <1>0, <1>8 DEF Reset, Quiescent, HoldInv, ExclusiveHold
<1>. QED
  BY <1>1, <1>2, <1>3, <1>4, <1>5, <1>6, <1>7, <1>8, StepKinds
     DEF BufferStep

\* No two clients of vxt_queue.c ever work on the same sub-buffer, whatever
\* they abort, reset or put out of order.
THEOREM ExclusiveHoldAlways == Spec => []ExclusiveHold
<1>1. Init => TypeInv /\ HoldInv
  BY TypeInit, HoldInit
<1>2. TypeInv /\ HoldInv /\ [Next]_vars => (TypeInv /\ HoldInv)'
  BY TypeStep, HoldStep
<1>3. HoldInv => ExclusiveHold
  BY DEF HoldInv
<1>. QED
  BY <1>1, <1>2, <1>3, PTL DEF Spec

-----------------------------------------------------------------------------
(* What the buffers contain *)

\* Clients that abort buffers do not also reset the queue.
NoAbort == \A f \in PutFlags : "ABORT" \notin f
CleanReset == "RESET" \notin IoCmds \/ NoAbort

Seen == Read \cup voided

\* A buffer contains a message exactly when it is on its way to the consumer:
\* in front of it, or at the producer to be turned around.
Loaded == \A i \in Buf :
  data[i] # NoMsg <=> (IF abort[i] THEN owner[i] = P ELSE owner[i] = C)

Accounted ==
  /\ Seen \subseteq 1 .. sent
  /\ \A m \in 1 .. sent : m \in Seen \/ \E i \in Buf : data[i] = m
  /\ \A i \in Buf : data[i] # NoMsg => data[i] \in (1 .. sent) \ Seen
  /\ \A i, j \in Buf : data[i] = data[j] /\ data[i] # NoMsg => i = j
  /\ \A k, l \in DOMAIN rcvd : rcvd[k] = rcvd[l] => k = l

ContentInv ==
  /\ Loaded
  /\ Accounted
  /\ NoAbort => \A i \in Buf : ~abort[i]

LEMMA ContentInit == Init => ContentInv
<1>. SUFFICES ASSUME Init PROVE ContentInv
  OBVIOUS
<1>1. Loaded /\ (NoAbort => \A i \in Buf : ~abort[i])
  BY PeerFacts DEF Init, Loaded
<1>2. DOMAIN rcvd = {}
  BY DEF Init
<1>3. Seen = {}
  BY <1>2 DEF Init, Seen, Read
<1>4. Accounted
  BY <1>2, <1>3 DEF Init, Accounted, NoMsg
<1>. QED
  BY <1>1, <1>4 DEF ContentInv

\* Appending what was read adds it to Read and to nothing else.
LEMMA ReadAppend ==
  ASSUME TypeInv, NEW m \in Msg, m \notin Read, rcvd' = Append(rcvd, m),
         \A k, l \in DOMAIN rcvd : rcvd[k] = rcvd[l] => k = l
  PROVE  /\ Read' = Read \cup {m}
         /\ \A k, l \in DOMAIN rcvd' : rcvd'[k] = rcvd'[l] => k = l
<1>. DEFINE n == Len(rcvd)
<1>1. rcvd \in Seq(Msg \cup {NoMsg}) /\ n \in Nat /\ DOMAIN rcvd = 1 .. n
  BY DEF TypeInv, TypeOK
<1>2. /\ DOMAIN rcvd' = 1 .. n + 1
      /\ rcvd'[n + 1] = m
      /\ \A k \in 1 .. n : rcvd'[k] = rcvd[k]
  BY <1>1
<1>3. Read' = {rcvd'[k] : k \in 1 .. n + 1}
  BY <1>2 DEF Read
<1>4. Read = {rcvd[k] : k \in 1 .. n}
  BY <1>1 DEF Read
<1>. QED
  BY <1>1, <1>2, <1>3, <1>4

LEMMA ContentStep ==
  ASSUME CleanReset
  PROVE  TypeInv /\ HoldInv /\ ContentInv /\ [Next]_vars => ContentInv'
<1>. SUFFICES ASSUME TypeInv, HoldInv, ContentInv, [Next]_vars
              PROVE  ContentInv'
  OBVIOUS
<1>. USE PeerFacts, BufFacts
<1>0. /\ owner \in [Buf -> Side] /\ abort \in [Buf -> BOOLEAN]
      /\ data \in [Buf -> Msg \cup {NoMsg}] /\ idx \in [Side -> Buf]
      /\ sent \in Nat /\ NoMsg = 0 /\ Msg \subseteq Nat \ {0}
  BY QueueAssumption DEF TypeInv, TypeOK, Msg, NoMsg
<1>i. NoAbort => \A i \in Buf : ~abort[i]
  BY DEF ContentInv
<1>1. CASE Quiet
  BY <1>1 DEF Quiet, ContentInv, Loaded, Accounted, Seen, Read
<1>a. ASSUME UNCHANGED <<data, sent, rcvd, voided>> PROVE Accounted'
  BY <1>a DEF ContentInv, Accounted, Seen, Read
<1>2. ASSUME NEW e \in Side, TurnAround(e) PROVE ContentInv'
  <2>1. Accounted'
    BY <1>2, <1>a DEF TurnAround, hist
  <2>2. Loaded' /\ (NoAbort => \A i \in Buf : ~abort'[i])
    BY <1>0, <1>2 DEF TurnAround, ContentInv, Loaded, Side, Peer
  <2>. QED
    BY <2>1, <2>2 DEF ContentInv
<1>3. ASSUME NEW e \in Side, Take(e) PROVE ContentInv'
  BY <1>3, <1>a DEF Take, ContentInv, Loaded, hist
<1>4. ASSUME NEW e \in Side, NEW i \in Buf, NEW f \in PutFlags,
             PutCall(e, i, f)
      PROVE  ContentInv'
  BY <1>4, <1>a DEF PutCall, ContentInv, Loaded, ring, hist
<1>5. ASSUME NEW e \in Side, Publish(e) PROVE ContentInv'
  <2>. DEFINE i == call[e].buf
  <2>1. i \in app[e] /\ i \in Buf /\ owner[i] = e /\ ~abort[i]
    BY <1>5 DEF Publish, TypeInv, TypeOK, HoldInv, ExclusiveHold
  <2>2. CASE e = P
    <3>1. /\ data[i] = NoMsg /\ data' = [data EXCEPT ![i] = sent + 1]
          /\ sent' = sent + 1 /\ owner' = [owner EXCEPT ![i] = C]
          /\ UNCHANGED <<abort, rcvd, voided>>
      BY <1>5, <2>1, <2>2 DEF Publish, ContentInv, Loaded, Peer
    <3>2. Seen' = Seen
      BY <3>1 DEF Seen, Read
    <3>3. Loaded'
      BY <1>0, <2>1, <3>1 DEF ContentInv, Loaded
    <3>4. Seen' \subseteq 1 .. sent'
      BY <1>0, <3>1, <3>2 DEF ContentInv, Accounted
    <3>5. \A m \in 1 .. sent' : m \in Seen' \/ \E j \in Buf : data'[j] = m
      <4>. SUFFICES ASSUME NEW m \in 1 .. sent + 1, m \notin Seen
                    PROVE  \E j \in Buf : data'[j] = m
        BY <3>1, <3>2
      <4>1. CASE m = sent + 1
        BY <1>0, <2>1, <3>1, <4>1
      <4>2. CASE m \in 1 .. sent
        <5>1. PICK j \in Buf : data[j] = m
          BY <4>2 DEF ContentInv, Accounted
        <5>2. j # i
          BY <1>0, <3>1, <4>2, <5>1
        <5>. QED
          BY <1>0, <3>1, <5>1, <5>2
      <4>. QED
        BY <1>0, <4>1, <4>2
    <3>6. \A j \in Buf : data'[j] # NoMsg =>
            data'[j] \in (1 .. sent') \ Seen'
      BY <1>0, <2>1, <3>1, <3>2 DEF ContentInv, Accounted
    <3>7. \A j, k \in Buf : data'[j] = data'[k] /\ data'[j] # NoMsg => j = k
      BY <1>0, <2>1, <3>1 DEF ContentInv, Accounted
    <3>. QED
      BY <1>i, <3>1, <3>3, <3>4, <3>5, <3>6, <3>7 DEF ContentInv, Accounted
  <2>3. CASE e = C
    <3>. DEFINE m == data[i]
    <3>1. /\ data' = [data EXCEPT ![i] = NoMsg] /\ rcvd' = Append(rcvd, m)
          /\ owner' = [owner EXCEPT ![i] = P]
          /\ UNCHANGED <<abort, sent, voided>>
      BY <1>5, <2>3 DEF Publish, Peer
    <3>2. m \in Msg /\ m # NoMsg /\ m \in (1 .. sent) \ Seen
      BY <1>0, <2>1, <2>3 DEF ContentInv, Loaded, Accounted
    <3>3. /\ Read' = Read \cup {m}
          /\ \A k, l \in DOMAIN rcvd' : rcvd'[k] = rcvd'[l] => k = l
      BY <3>1, <3>2, ReadAppend DEF ContentInv, Accounted, Seen
    <3>4. Seen' = Seen \cup {m}
      BY <3>1, <3>3 DEF Seen
    <3>5. Loaded'
      BY <1>0, <2>1, <3>1 DEF ContentInv, Loaded
    <3>6. /\ Seen' \subseteq 1 .. sent'
          /\ \A x \in 1 .. sent' : x \in Seen' \/ \E j \in Buf : data'[j] = x
      BY <1>0, <2>1, <3>1, <3>2, <3>4 DEF ContentInv, Accounted
    <3>7. \A j \in Buf : data'[j] # NoMsg =>
            data'[j] \in (1 .. sent') \ Seen'
      BY <1>0, <2>1, <3>1, <3>2, <3>4 DEF ContentInv, Accounted
    <3>8. \A j, k \in Buf : data'[j] = data'[k] /\ data'[j] # NoMsg => j = k
      BY <1>0, <2>1, <3>1 DEF ContentInv, Accounted
    <3>. QED
      BY <1>i, <3>1, <3>3, <3>5, <3>6, <3>7, <3>8 DEF ContentInv, Accounted
  <2>. QED
    BY <2>2, <2>3 DEF Side
<1>6. ASSUME NEW e \in Side, NEW i \in Buf, NEW f \in PutFlags,
             PutBack(e, i, f)
      PROVE  ContentInv'
  BY <1>6, <1>a DEF PutBack, ContentInv, Loaded, hist
<1>7. ASSUME NEW e \in Side, NEW i \in Buf, NEW f \in PutFlags,
             PutAbort(e, i, f)
      PROVE  ContentInv'
  <2>1. i \in app[e] /\ owner[i] = e /\ ~abort[i] /\ ~NoAbort
    BY <1>7 DEF PutAbort, PutValid, HoldInv, ExclusiveHold, NoAbort
  <2>2. data' = data
    BY <1>0, <1>7, <2>1 DEF PutAbort, ContentInv, Loaded
  <2>3. Accounted'
    BY <1>7, <1>a, <2>2 DEF PutAbort, hist
  <2>4. Loaded'
    BY <1>0, <1>7, <2>1, <2>2 DEF PutAbort, ContentInv, Loaded, Side, Peer
  <2>. QED
    BY <2>1, <2>3, <2>4 DEF ContentInv
<1>8. ASSUME NEW e \in Side, Reset(e) PROVE ContentInv'
  <2>1. \A i \in Buf : ~abort[i]
    BY <1>8 DEF Reset, CleanReset, ContentInv
  <2>2. CASE e = C
    BY <1>8, <1>a, <2>2 DEF Reset, ContentInv, Loaded
  <2>3. CASE e = P
    <3>1. /\ owner' = [i \in Buf |-> P] /\ data' = [i \in Buf |-> NoMsg]
          /\ voided' = voided \cup ({data[i] : i \in Buf} \ {NoMsg})
          /\ UNCHANGED <<abort, sent, rcvd>>
      BY <1>8, <2>1, <2>3 DEF Reset
    <3>2. Seen' = Seen \cup ({data[i] : i \in Buf} \ {NoMsg})
      BY <3>1 DEF Seen, Read
    <3>3. Loaded'
      BY <2>1, <3>1 DEF Loaded
    <3>4. Seen' \subseteq 1 .. sent'
      <4>1. \A j \in Buf : data[j] # NoMsg => data[j] \in 1 .. sent
        BY DEF ContentInv, Accounted
      <4>2. Seen \subseteq 1 .. sent
        BY DEF ContentInv, Accounted
      <4>3. {data[i] : i \in Buf} \ {NoMsg} \subseteq 1 .. sent
        BY <4>1
      <4>4. sent' = sent
        BY <3>1
      <4>. QED
        BY <3>2, <4>2, <4>3, <4>4
    <3>5. \A m \in 1 .. sent' : m \in Seen'
      <4>. SUFFICES ASSUME NEW m \in 1 .. sent, m \notin Seen
                    PROVE  m \in {data[i] : i \in Buf} \ {NoMsg}
        BY <3>1, <3>2
      <4>1. PICK j \in Buf : data[j] = m
        BY DEF ContentInv, Accounted
      <4>2. m # NoMsg
        BY <1>0 DEF NoMsg
      <4>. QED
        BY <4>1, <4>2
    <3>6. \A j \in Buf : data'[j] = NoMsg
      BY <3>1
    <3>7. \A k, l \in DOMAIN rcvd' : rcvd'[k] = rcvd'[l] => k = l
      BY <3>1 DEF ContentInv, Accounted
    <3>8. Accounted'
      BY <3>4, <3>5, <3>6, <3>7 DEF Accounted
    <3>. QED
      BY <2>1, <3>1, <3>3, <3>8 DEF ContentInv
  <2>. QED
    BY <2>2, <2>3 DEF Side
<1>. QED
  BY <1>1, <1>2, <1>3, <1>4, <1>5, <1>6, <1>7, <1>8, StepKinds
     DEF BufferStep

LEMMA ContentAlways ==
  ASSUME CleanReset
  PROVE  Spec => [](TypeInv /\ HoldInv /\ ContentInv)
<1>1. Init => TypeInv /\ HoldInv /\ ContentInv
  BY TypeInit, HoldInit, ContentInit
<1>2. TypeInv /\ HoldInv /\ ContentInv /\ [Next]_vars
        => (TypeInv /\ HoldInv /\ ContentInv)'
  BY TypeStep, HoldStep, ContentStep
<1>. QED
  BY <1>1, <1>2, PTL DEF Spec

\* The ring of vxt_queue.c loses, duplicates and overwrites nothing: every
\* published message that no reset discarded is read once or still in one
\* buffer.  Clients that abort must not reset (CleanReset).
THEOREM NothingLost ==
  ASSUME CleanReset
  PROVE  Spec => []NoLostMessage
<1>1. TypeInv /\ HoldInv /\ ContentInv => NoLostMessage
  <2>. SUFFICES ASSUME TypeInv, ContentInv PROVE NoLostMessage
    OBVIOUS
  <2>1. \A i \in Buf : data[i] # NoMsg => owner[i] = C \/ abort[i]
    BY DEF ContentInv, Loaded
  <2>. QED
    BY <2>1 DEF ContentInv, Accounted, Seen, NoLostMessage
<1>. QED
  BY <1>1, ContentAlways, PTL

\* A buffer vxtq_get_buf returned to the consumer has a message nobody has
\* seen, one it returned to the producer is empty.
THEOREM GotContentsAlways ==
  ASSUME CleanReset
  PROVE  Spec => []GotContents
<1>1. TypeInv /\ HoldInv /\ ContentInv => GotContents
  <2>. SUFFICES ASSUME TypeInv, HoldInv, ContentInv PROVE GotContents
    OBVIOUS
  <2>1. \A e \in Side : \A i \in app[e] : i \in Buf /\ owner[i] = e /\ ~abort[i]
    BY DEF TypeInv, TypeOK, HoldInv, ExclusiveHold
  <2>. QED
    BY <2>1, PeerFacts
       DEF ContentInv, Loaded, Accounted, Seen, GotContents
<1>. QED
  BY <1>1, ContentAlways, PTL

-----------------------------------------------------------------------------
(* No lost wake-up *)

\* Clients that are both attached when they start, and neither abort nor
\* stream.  The others may miss a signal: Connect clears a need flag that is
\* up, TurnAround raises no signal, streaming withholds it.
PlainClients ==
  /\ Attached = Side
  /\ \A f \in PutFlags : "ABORT" \notin f /\ "AUTO_STREAM" \notin f

\* Where the signal a sleeper counts on is.  A sleeper's need flag is up
\* until the peer has committed itself to signalling; a flag that is up when
\* the buffer arrives is seen by the put that delivers it.
Committed(e) == sig[e] \/ pc[Peer(e)] = "signal"
CoverInv ==
  /\ \A i \in Buf : ~abort[i]
  /\ \A e \in Side :
       /\ pc[e] \notin {"detached", "compare", "hysteresis"}
       /\ pc[e] \in {"publish", "count"} => "AUTO_STREAM" \notin call[e].flags
       /\ pc[e] = "wait" => need[e] \/ Committed(e)
       /\ pc[e] \in {"need", "wait"} /\ need[e] /\ owner[idx[e]] = e =>
            Committed(e) \/ pc[Peer(e)] \in {"count", "check"}

LEMMA CoverInit == ASSUME PlainClients PROVE Init => CoverInv
BY DEF PlainClients, Init, CoverInv

LEMMA CoverStep ==
  ASSUME PlainClients
  PROVE  TypeInv /\ CoverInv /\ [Next]_vars => CoverInv'
<1>. SUFFICES ASSUME TypeInv, CoverInv, [Next]_vars PROVE CoverInv'
  OBVIOUS
<1>. USE PeerFacts
<1>0. /\ owner \in [Buf -> Side] /\ abort \in [Buf -> BOOLEAN]
      /\ idx \in [Side -> Buf] /\ need \in [Side -> BOOLEAN]
      /\ sig \in [Side -> BOOLEAN] /\ pc \in [Side -> PCs]
      /\ call \in [Side -> CallType]
  BY DEF TypeInv, TypeOK
<1>a. ASSUME NEW a \in Side, Connect(a) PROVE CoverInv'
  BY <1>0, <1>a DEF Connect, CoverInv, Committed, ring, hist
<1>b. ASSUME NEW a \in Side, NEW f \in GetFlags, GetCall(a, f) PROVE CoverInv'
  BY <1>0, <1>b DEF GetCall, CoverInv, Committed, ring, hist
<1>c. ASSUME NEW a \in Side, TurnAround(a) PROVE CoverInv'
  BY <1>0, <1>c DEF TurnAround, CoverInv, Committed, ring, hist
<1>d. ASSUME NEW a \in Side, AllHeld(a) PROVE CoverInv'
  BY <1>0, <1>d DEF AllHeld, Return, CoverInv, Committed, ring, hist
<1>e. ASSUME NEW a \in Side, Take(a) PROVE CoverInv'
  BY <1>0, <1>e DEF Take, Return, CoverInv, Committed, ring, hist
<1>f. ASSUME NEW a \in Side, NotAvailable(a) PROVE CoverInv'
  BY <1>0, <1>f DEF NotAvailable, Return, CoverInv, Committed, ring, hist
<1>g. ASSUME NEW a \in Side, RequestSignal(a) PROVE CoverInv'
  BY <1>0, <1>g DEF RequestSignal, CoverInv, Committed, ring, hist
<1>h. ASSUME NEW a \in Side, Wake(a) PROVE CoverInv'
  BY <1>0, <1>h DEF Wake, Return, CoverInv, Committed, ring, hist
<1>i. ASSUME NEW a \in Side, Recheck(a) PROVE CoverInv'
  BY <1>0, <1>i DEF Recheck, Return, CoverInv, Committed, ring, hist
<1>j. ASSUME NEW a \in Side, NEW i \in Buf, NEW f \in PutFlags,
             PutCall(a, i, f)
      PROVE  CoverInv'
  <2>1. "AUTO_STREAM" \notin call'[a].flags /\ call'[Peer(a)] = call[Peer(a)]
    BY <1>0, <1>j DEF PutCall, PlainClients, CallType
  <2>. QED
    BY <1>0, <1>j, <2>1 DEF PutCall, CoverInv, Committed, ring, hist
<1>k. ASSUME NEW a \in Side, Publish(a) PROVE CoverInv'
  BY <1>0, <1>k DEF Publish, CoverInv, Committed, ring, hist
<1>l. ASSUME NEW a \in Side, NEW i \in Buf, NEW f \in PutFlags,
             PutBack(a, i, f)
      PROVE  CoverInv'
  BY <1>0, <1>l DEF PutBack, CoverInv, Committed, ring, hist
<1>m. ASSUME NEW a \in Side, NEW i \in Buf, NEW f \in PutFlags,
             PutAbort(a, i, f)
      PROVE  CoverInv'
  BY <1>m DEF PutAbort, PlainClients
<1>n. ASSUME NEW a \in Side, Count(a) PROVE CoverInv'
  BY <1>0, <1>n DEF Count, CoverInv, Committed, ring, hist
<1>o. ASSUME NEW a \in Side, Compare(a) PROVE CoverInv'
  BY <1>0, <1>o DEF Compare, CoverInv, Committed, ring, hist
<1>p. ASSUME NEW a \in Side, Hysteresis(a) PROVE CoverInv'
  BY <1>0, <1>p DEF Hysteresis, CoverInv, Committed, ring, hist
<1>q. ASSUME NEW a \in Side, CheckNeed(a) PROVE CoverInv'
  BY <1>0, <1>q DEF CheckNeed, Return, CoverInv, Committed, ring, hist
<1>r. ASSUME NEW a \in Side, Signal(a) PROVE CoverInv'
  BY <1>0, <1>r DEF Signal, Return, CoverInv, Committed, ring, hist
<1>s. ASSUME NEW a \in Side, NEW f \in SigFlags, QSignal(a, f) PROVE CoverInv'
  BY <1>0, <1>s DEF QSignal, CoverInv, Committed, ring, hist
<1>t. ASSUME NEW a \in Side, SetHysteresis(a) PROVE CoverInv'
  BY <1>0, <1>t DEF SetHysteresis, CoverInv, Committed, ring, hist
<1>u. ASSUME NEW a \in Side, SetError(a) PROVE CoverInv'
  BY <1>0, <1>u DEF SetError, CoverInv, Committed, ring, hist
<1>v. ASSUME NEW a \in Side, Reset(a) PROVE CoverInv'
  BY <1>0, <1>v DEF Reset, Quiescent, CoverInv, Committed, ring, hist
<1>w. ASSUME NEW a \in Side, Attention(a) PROVE CoverInv'
  BY <1>0, <1>w DEF Attention, CoverInv, Committed, ring, hist
<1>x. CASE UNCHANGED vars
  BY <1>x DEF CoverInv, Committed, vars
<1>. QED
  BY <1>a, <1>b, <1>c, <1>d, <1>e, <1>f, <1>g, <1>h, <1>i, <1>j, <1>k, <1>l,
     <1>m, <1>n, <1>o, <1>p, <1>q, <1>r, <1>s, <1>t, <1>u, <1>v, <1>w, <1>x
     DEF Next, Step, ClientCall, WaitReturn, WaitInterrupted

\* vxtq_get_buf never sleeps through the arrival of its next buffer: the
\* need flag, the second look after raising it and the put's check of it
\* close the race for every ring size and every plain client.
THEOREM NoLostWakeup ==
  ASSUME PlainClients
  PROVE  Spec => []WaiterCovered
<1>1. Init => TypeInv /\ CoverInv
  BY TypeInit, CoverInit
<1>2. TypeInv /\ CoverInv /\ [Next]_vars => (TypeInv /\ CoverInv)'
  BY TypeStep, CoverStep
<1>3. TypeInv /\ CoverInv => WaiterCovered
  BY DEF CoverInv, Committed, WaiterCovered
<1>. QED
  BY <1>1, <1>2, <1>3, PTL DEF Spec

-----------------------------------------------------------------------------
(* Stopping the producer *)

\* A put that passed the test before producer_stop was set is the only one
\* that still counts, and it has not been counted yet.
StopInv ==
  /\ late \in {0, 1}
  /\ pc[P] = "publish" /\ hdr.producer_stop /\ "IGNORE_SHUTDOWN" \notin call[P].flags
       => late = 0

\* A step that neither starts a put nor sets producer_stop.
LEMMA StopKept ==
  ASSUME StopInv, late' = late,
         hdr'.producer_stop => hdr.producer_stop,
         pc'[P] = "publish" => pc[P] = "publish" /\ call'[P] = call[P]
  PROVE  StopInv'
BY DEF StopInv

LEMMA StopStep == TypeInv /\ StopInv /\ [Next]_vars => StopInv'
<1>. SUFFICES ASSUME TypeInv, StopInv, [Next]_vars PROVE StopInv'
  OBVIOUS
<1>. USE PeerFacts
<1>0. /\ hdr \in Hdr /\ pc \in [Side -> PCs] /\ call \in [Side -> CallType]
  BY DEF TypeInv, TypeOK
<1>1. ASSUME NEW e \in Side, NEW f \in SigFlags, QSignal(e, f) PROVE StopInv'
  <2>1. pc'[P] = "publish" => pc[P] = "publish" /\ call'[P] = call[P]
    BY <1>0, <1>1 DEF QSignal
  <2>2. CASE f \cap {"STOP", "START"} # {}
    BY <1>1, <2>2 DEF QSignal, StopInv
  <2>3. CASE f \cap {"STOP", "START"} = {}
    <3>1. "STOP" \notin f /\ "START" \notin f
      BY <2>3
    <3>2. late' = late /\ hdr'.producer_stop = hdr.producer_stop
      BY <1>0, <1>1, <2>3, <3>1 DEF QSignal, Hdr
    <3>. QED
      BY <2>1, <3>2, StopKept
  <2>. QED
    BY <2>2, <2>3
<1>2. ASSUME NEW e \in Side, NEW i \in Buf, NEW f \in PutFlags, PutCall(e, i, f)
      PROVE  StopInv'
  <2>1. late' = late /\ hdr' = hdr
    BY <1>2 DEF PutCall, hist
  <2>2. CASE e = P
    <3>1. call'[P].flags = f
      BY <1>0, <1>2, <2>2 DEF PutCall, CallType
    <3>. QED
      BY <1>2, <2>1, <2>2, <3>1 DEF PutCall, StopInv
  <2>3. CASE e = C
    <3>1. pc'[P] = pc[P] /\ call'[P] = call[P]
      BY <1>0, <1>2, <2>3 DEF PutCall
    <3>. QED
      BY <2>1, <3>1, StopKept
  <2>. QED
    BY <2>2, <2>3 DEF Side
<1>3. ASSUME NEW e \in Side, Publish(e) PROVE StopInv'
  <2>1. hdr' = hdr /\ call' = call /\ (pc'[P] = "publish" => e = C /\ pc[P] = "publish")
    BY <1>0, <1>3 DEF Publish, Side
  <2>2. late' = late \/ (e = P /\ pc[P] = "publish" /\ hdr.producer_stop
                           /\ "IGNORE_SHUTDOWN" \notin call[P].flags /\ late' = late + 1)
    BY <1>3 DEF Publish
  <2>3. CASE late' = late
    BY <2>1, <2>3, StopKept
  <2>4. CASE late' # late
    BY <2>1, <2>2, <2>4 DEF StopInv
  <2>. QED
    BY <2>3, <2>4
<1>4. ASSUME NEW e \in Side, Connect(e) PROVE StopInv'
  BY <1>0, <1>4, StopKept DEF Connect, DefaultHdr, hist
<1>5. ASSUME NEW e \in Side, Reset(e) PROVE StopInv'
  <2>1. hdr'.producer_stop => hdr.producer_stop
    BY <1>5 DEF Reset, DefaultHdr
  <2>. QED
    BY <1>5, <2>1, StopKept DEF Reset
<1>6. ASSUME NEW e \in Side, SetHysteresis(e) \/ SetError(e) PROVE StopInv'
  <2>1. hdr'.producer_stop = hdr.producer_stop
    BY <1>0, <1>6 DEF SetHysteresis, SetError, Hdr
  <2>. QED
    BY <1>6, <2>1, StopKept DEF SetHysteresis, SetError, hist
<1>7. ASSUME NEW e \in Side, late' = late, hdr' = hdr, Moves(e),
             \A s \in Side : s # e => call'[s] = call[s]
      PROVE  StopInv'
  <2>1. PICK v \in PCs : v # "publish" /\ pc' = [pc EXCEPT ![e] = v]
    BY <1>7 DEF Moves
  <2>2. pc'[P] = "publish" => pc[P] = "publish" /\ call'[P] = call[P]
    BY <1>0, <1>7, <2>1
  <2>. QED
    BY <1>7, <2>2, StopKept
<1>. USE PcFacts
<1>8. ASSUME NEW e \in Side,
             \/ TurnAround(e) \/ AllHeld(e) \/ Take(e) \/ NotAvailable(e)
             \/ RequestSignal(e) \/ Wake(e) \/ Recheck(e)
      PROVE  StopInv'
  <2>1. CASE TurnAround(e)
    BY <2>1, StopKept DEF TurnAround, hist
  <2>2. CASE AllHeld(e) \/ Take(e)
    BY <1>0, <1>7, <2>2 DEF AllHeld, Take, Return, Moves, hist
  <2>3. CASE NotAvailable(e) \/ Recheck(e)
    BY <1>0, <1>7, <2>3 DEF NotAvailable, Recheck, Return, Moves, hist
  <2>4. CASE RequestSignal(e)
    BY <1>0, <1>7, <2>4 DEF RequestSignal, Moves, hist
  <2>5. CASE Wake(e)
    BY <1>0, <1>7, <2>5 DEF Wake, Return, Moves, hist
  <2>. QED
    BY <1>8, <2>1, <2>2, <2>3, <2>4, <2>5
<1>9. ASSUME NEW e \in Side,
             \/ Count(e) \/ Compare(e) \/ Hysteresis(e) \/ CheckNeed(e) \/ Signal(e)
             \/ \E f \in GetFlags : GetCall(e, f)
      PROVE  StopInv'
  <2>1. CASE Count(e)
    BY <1>0, <1>7, <2>1 DEF Count, Moves, hist
  <2>2. CASE Compare(e)
    BY <1>0, <1>7, <2>2 DEF Compare, Moves, hist
  <2>3. CASE Hysteresis(e)
    BY <1>0, <1>7, <2>3 DEF Hysteresis, Return, Moves, hist
  <2>4. CASE CheckNeed(e)
    BY <1>0, <1>7, <2>4 DEF CheckNeed, Return, Moves, hist
  <2>5. CASE Signal(e)
    BY <1>0, <1>7, <2>5 DEF Signal, Return, Moves, hist
  <2>6. CASE \E f \in GetFlags : GetCall(e, f)
    BY <1>0, <1>7, <2>6 DEF GetCall, Moves, hist
  <2>. QED
    BY <1>9, <2>1, <2>2, <2>3, <2>4, <2>5, <2>6
<1>10. ASSUME NEW e \in Side, NEW i \in Buf, NEW f \in PutFlags,
              PutBack(e, i, f) \/ PutAbort(e, i, f)
       PROVE  StopInv'
  BY <1>0, <1>7, <1>10 DEF PutBack, PutAbort, Moves, hist
<1>11. ASSUME NEW e \in Side, Attention(e) PROVE StopInv'
  BY <1>11, StopKept DEF Attention, hist
<1>12. CASE UNCHANGED vars
  BY <1>12, StopKept DEF vars
<1>. QED
  BY <1>1, <1>2, <1>3, <1>4, <1>5, <1>6, <1>8, <1>9, <1>10, <1>11, <1>12
     DEF Next, Step, ClientCall, WaitReturn, WaitInterrupted

\* VXTQ_SIGNAL_STOP lets at most the one put through that was past its test,
\* for any client: whatever it resets, restarts or puts in between.
THEOREM StopAdmitsOneAlways == Spec => []StopAdmitsOne
<1>1. Init => TypeInv /\ StopInv
  BY TypeInit DEF Init, StopInv
<1>2. TypeInv /\ StopInv /\ [Next]_vars => (TypeInv /\ StopInv)'
  BY TypeStep, StopStep
<1>3. StopInv => StopAdmitsOne
  BY DEF StopInv, StopAdmitsOne
<1>. QED
  BY <1>1, <1>2, <1>3, PTL DEF Spec

-----------------------------------------------------------------------------
(* The queue as a FIFO channel *)

\* Clients that are both attached when they start, hold one buffer at a time
\* and do not reset.  They may wait, abort, stream, stop and end as they like.
TurnTakers == Attached = Side /\ MaxHeld = 1 /\ "RESET" \notin IoCmds

\* How far buffer i is from buffer r, in the direction of the ring.
Dist(r, i) == IF i >= r THEN i - r ELSE i - r + BufCnt

\* Endpoint e will put, or is putting, buffer i next.
At(e, i) == IF app[e] = {} THEN idx[e] = i ELSE app[e] = {i} /\ idx[e] = Succ(i)

Getting == {"retry", "need", "wait", "recheck"}

\* An abort gives the buffer back in place, so no abort mark is ever set.
TurnInv ==
  /\ \A i \in Buf : ~abort[i]
  /\ \A e \in Side : pc[e] # "detached" /\ (pc[e] \in Getting => app[e] = {})

\* The messages not yet read are in the buffers from the consumer's, r, to the
\* producer's, w, in order.
InTurn(r, w) ==
  /\ At(C, r) /\ At(P, w)
  /\ Len(rcvd) <= sent /\ sent <= Len(rcvd) + BufCnt
  /\ \A i \in Buf : owner[i] = C <=> Dist(r, i) < sent - Len(rcvd)
  /\ \A i \in Buf : owner[i] = C => data[i] = Len(rcvd) + 1 + Dist(r, i)
  /\ IF sent - Len(rcvd) = BufCnt THEN w = r ELSE Dist(r, w) = sent - Len(rcvd)

FifoInv == TurnInv /\ \E r, w \in Buf : InTurn(r, w)

LEMMA DistFacts ==
  ASSUME NEW r \in Buf
  PROVE  /\ \A i \in Buf : Dist(r, i) \in 0 .. BufCnt - 1 /\ (Dist(r, i) = 0 <=> i = r)
         /\ \A i, j \in Buf : Dist(r, i) = Dist(r, j) => i = j
         /\ \A i \in Buf : Dist(r, Succ(i)) = IF Dist(r, i) = BufCnt - 1 THEN 0 ELSE Dist(r, i) + 1
         /\ \A i \in Buf : Dist(Succ(r), i) = IF i = r THEN BufCnt - 1 ELSE Dist(r, i) - 1
BY QueueAssumption DEF Buf, Dist, Succ

LEMMA FifoInit == ASSUME TurnTakers PROVE Init => FifoInv
<1>. SUFFICES ASSUME Init PROVE FifoInv
  OBVIOUS
<1>1. TurnInv
  BY DEF Init, TurnTakers, TurnInv, Getting
<1>2. At(C, 0) /\ At(P, 0)
  BY PeerFacts DEF Init, At
<1>3. sent = 0 /\ Len(rcvd) = 0
  BY DEF Init
<1>4. BufCnt \in Nat /\ BufCnt > 0
  BY QueueAssumption
<1>5. \A i \in Buf : owner[i] # C /\ Dist(0, i) \in Nat
  BY BufFacts, DistFacts, PeerFacts DEF Init
<1>6. Dist(0, 0) = 0
  BY BufFacts, DistFacts
<1>7. InTurn(0, 0)
  BY <1>2, <1>3, <1>4, <1>5, <1>6 DEF InTurn
<1>. QED
  BY <1>1, <1>7, BufFacts DEF FifoInv

\* A step that moves no buffer and does not begin to get one in vain.
LEMMA FifoKept ==
  ASSUME FifoInv,
         UNCHANGED <<owner, abort, data, idx, app, sent, rcvd>>,
         \A e \in Side : pc'[e] # "detached" /\ (pc'[e] \in Getting => app[e] = {})
  PROVE  FifoInv'
<1>1. TurnInv'
  BY DEF FifoInv, TurnInv
<1>2. PICK r \in Buf, w \in Buf : InTurn(r, w)
  BY DEF FifoInv
<1>3. InTurn(r, w)'
  BY <1>2 DEF InTurn, At
<1>. QED
  BY <1>1, <1>3 DEF FifoInv

LEMMA Empty ==
  ASSUME TypeInv, NEW e \in Side, Cardinality(app[e]) < 1
  PROVE  app[e] = {}
<1>1. app[e] \subseteq Buf
  BY DEF TypeInv, TypeOK
<1>2. IsFiniteSet(Buf)
  BY QueueAssumption, FS_Interval DEF Buf
<1>3. IsFiniteSet(app[e])
  BY <1>1, <1>2, FS_Subset
<1>4. Cardinality(app[e]) \in Nat
  BY <1>3, FS_CardinalityType
<1>5. Cardinality(app[e]) = 0
  BY <1>4
<1>. QED
  BY <1>3, <1>5, FS_EmptySet

LEMMA TakeTurn ==
  ASSUME TypeInv, FifoInv, NEW e \in Side, Take(e)
  PROVE  FifoInv'
<1>. USE PeerFacts
<1>0. /\ pc \in [Side -> PCs] /\ app \in [Side -> SUBSET Buf] /\ idx \in [Side -> Buf]
  BY DEF TypeInv, TypeOK
<1>1. /\ app[e] = {} /\ pc' = [pc EXCEPT ![e] = "idle"]
      /\ app' = [app EXCEPT ![e] = @ \cup {idx[e]}] /\ idx' = [idx EXCEPT ![e] = Succ(@)]
      /\ UNCHANGED <<owner, abort, data, sent, rcvd>>
  BY DEF Take, Return, hist, FifoInv, TurnInv, Getting
<1>2. TurnInv'
  BY <1>0, <1>1 DEF FifoInv, TurnInv, Getting
<1>3. \A s \in Side, i \in Buf : At(s, i) => At(s, i)'
  BY <1>0, <1>1 DEF At
<1>4. PICK r \in Buf, w \in Buf : InTurn(r, w)
  BY DEF FifoInv
<1>5. InTurn(r, w)'
  BY <1>1, <1>3, <1>4 DEF InTurn
<1>. QED
  BY <1>2, <1>5 DEF FifoInv

LEMMA PutBackTurn ==
  ASSUME TypeInv, FifoInv, NEW e \in Side, NEW i \in Buf, NEW f \in PutFlags, PutBack(e, i, f)
  PROVE  FifoInv'
<1>. USE PeerFacts
<1>0. /\ pc \in [Side -> PCs] /\ app \in [Side -> SUBSET Buf] /\ idx \in [Side -> Buf]
  BY DEF TypeInv, TypeOK
<1>1. /\ pc' \in {[pc EXCEPT ![e] = "idle"], [pc EXCEPT ![e] = "signal"]}
      /\ app' = [app EXCEPT ![e] = @ \ {i}] /\ idx' = [idx EXCEPT ![e] = i]
      /\ UNCHANGED <<owner, abort, data, sent, rcvd>> /\ i \in app[e]
  BY DEF PutBack, PutValid, hist
<1>2. TurnInv'
  BY <1>0, <1>1 DEF FifoInv, TurnInv, Getting
<1>3. \A s \in Side, j \in Buf : At(s, j) => At(s, j)'
  BY <1>0, <1>1 DEF At
<1>4. PICK r \in Buf, w \in Buf : InTurn(r, w)
  BY DEF FifoInv
<1>5. InTurn(r, w)'
  BY <1>1, <1>3, <1>4 DEF InTurn
<1>. QED
  BY <1>2, <1>5 DEF FifoInv

\* What a put publishes, and where it leaves its endpoint.
LEMMA PublishFacts ==
  ASSUME TypeInv, HoldInv, FifoInv, NEW e \in Side, Publish(e),
         NEW i \in Buf, At(e, i)
  PROVE  /\ i = call[e].buf /\ owner[i] = e /\ TurnInv'
         /\ At(e, Succ(i))' /\ \A j \in Buf : At(Peer(e), j) => At(Peer(e), j)'
         /\ owner' = [owner EXCEPT ![i] = Peer(e)]
<1>. USE PeerFacts, BufFacts
<1>0. /\ pc \in [Side -> PCs] /\ app \in [Side -> SUBSET Buf] /\ idx \in [Side -> Buf]
  BY DEF TypeInv, TypeOK
<1>1. call[e].buf \in app[e] /\ call[e].buf \in Buf
  BY <1>0 DEF HoldInv, Publish
<1>2. i = call[e].buf /\ app[e] = {i} /\ idx[e] = Succ(i)
  BY <1>1 DEF At
<1>3. /\ owner' = [owner EXCEPT ![i] = Peer(e)]
      /\ app' = [app EXCEPT ![e] = {}] /\ pc' = [pc EXCEPT ![e] = "count"]
      /\ abort' = abort /\ idx' = idx
  BY <1>0, <1>2 DEF Publish
<1>4. TurnInv'
  BY <1>0, <1>3 DEF FifoInv, TurnInv, Getting
<1>5. At(e, Succ(i))' /\ \A j \in Buf : At(Peer(e), j) => At(Peer(e), j)'
  BY <1>0, <1>2, <1>3 DEF At
<1>6. owner[i] = e
  BY <1>1, <1>2 DEF HoldInv, ExclusiveHold
<1>. QED
  BY <1>2, <1>3, <1>4, <1>5, <1>6

LEMMA ProducerTurn ==
  ASSUME TypeInv, HoldInv, FifoInv, Publish(P)
  PROVE  FifoInv' /\ Fifo!Put
<1>. USE PeerFacts, BufFacts
<1>0. /\ owner \in [Buf -> Side] /\ data \in [Buf -> Msg \cup {NoMsg}]
      /\ sent \in Nat /\ Len(rcvd) \in Nat /\ BufCnt \in Nat /\ BufCnt > 0
  BY QueueAssumption DEF TypeInv, TypeOK
<1>1. PICK r \in Buf, w \in Buf : InTurn(r, w)
  BY DEF FifoInv
<1>2. /\ w = call[P].buf /\ owner[w] = P /\ TurnInv' /\ At(P, Succ(w))' /\ At(C, r)'
      /\ owner' = [owner EXCEPT ![w] = C]
  BY <1>1, PublishFacts DEF InTurn, Peer
<1>3. /\ data' = [data EXCEPT ![w] = sent + 1] /\ sent' = sent + 1 /\ rcvd' = rcvd
  BY <1>2 DEF Publish
<1>4. PICK n \in Nat : n = sent - Len(rcvd)
  BY <1>0, <1>1 DEF InTurn
<1>5. /\ \A j \in Buf : Dist(r, j) \in 0 .. BufCnt - 1 /\ (Dist(r, j) = 0 <=> j = r)
      /\ \A i, j \in Buf : Dist(r, i) = Dist(r, j) => i = j
      /\ \A j \in Buf : Dist(r, Succ(j)) = IF Dist(r, j) = BufCnt - 1 THEN 0 ELSE Dist(r, j) + 1
  BY DistFacts
<1>6. n < BufCnt /\ Dist(r, w) = n
  <2>1. /\ owner[w] = C <=> Dist(r, w) < n
        /\ n <= BufCnt /\ IF n = BufCnt THEN w = r ELSE Dist(r, w) = n
    BY <1>0, <1>1, <1>4 DEF InTurn
  <2>. QED
    BY <1>0, <1>2, <1>5, <2>1
<1>7. sent' - Len(rcvd') = n + 1 /\ n + 1 <= BufCnt
  BY <1>0, <1>3, <1>4, <1>6
<1>8. \A j \in Buf : owner'[j] = C <=> Dist(r, j) < n + 1
  <2>. SUFFICES ASSUME NEW j \in Buf PROVE owner'[j] = C <=> Dist(r, j) < n + 1
    OBVIOUS
  <2>1. owner[j] = C <=> Dist(r, j) < n
    BY <1>1, <1>4 DEF InTurn
  <2>2. Dist(r, j) = n <=> j = w
    BY <1>5, <1>6
  <2>3. owner'[j] = IF j = w THEN C ELSE owner[j]
    BY <1>0, <1>2
  <2>4. Dist(r, j) \in Nat
    BY <1>5
  <2>. QED
    BY <2>1, <2>2, <2>3, <2>4
<1>9. \A j \in Buf : owner'[j] = C => data'[j] = Len(rcvd') + 1 + Dist(r, j)
  <2>. SUFFICES ASSUME NEW j \in Buf, owner'[j] = C
                PROVE  data'[j] = Len(rcvd) + 1 + Dist(r, j)
    BY <1>3
  <2>1. CASE j = w
    BY <1>0, <1>3, <1>4, <1>6, <2>1
  <2>2. CASE j # w
    <3>1. owner[j] = C /\ data'[j] = data[j]
      BY <1>0, <1>2, <1>3, <2>2
    <3>. QED
      BY <1>1, <3>1 DEF InTurn
  <2>. QED
    BY <2>1, <2>2
<1>10. IF n + 1 = BufCnt THEN Succ(w) = r ELSE Dist(r, Succ(w)) = n + 1
  BY <1>0, <1>5, <1>6
<1>11. InTurn(r, Succ(w))'
  <2>1. Len(rcvd') <= sent' /\ sent' <= Len(rcvd') + BufCnt
    BY <1>0, <1>3, <1>7
  <2>. QED
    BY <1>2, <1>7, <1>8, <1>9, <1>10, <2>1 DEF InTurn
<1>12. Fifo!Put
  BY <1>3, <1>4, <1>6 DEF Fifo!Put
<1>. QED
  BY <1>2, <1>11, <1>12 DEF FifoInv

LEMMA ConsumerTurn ==
  ASSUME TypeInv, HoldInv, FifoInv, Publish(C)
  PROVE  FifoInv' /\ Fifo!Get
<1>. USE PeerFacts, BufFacts
<1>0. /\ owner \in [Buf -> Side] /\ data \in [Buf -> Msg \cup {NoMsg}]
      /\ rcvd \in Seq(Msg \cup {NoMsg})
      /\ sent \in Nat /\ Len(rcvd) \in Nat /\ BufCnt \in Nat /\ BufCnt > 0
  BY QueueAssumption DEF TypeInv, TypeOK
<1>1. PICK r \in Buf, w \in Buf : InTurn(r, w)
  BY DEF FifoInv
<1>2. /\ r = call[C].buf /\ owner[r] = C /\ TurnInv' /\ At(C, Succ(r))' /\ At(P, w)'
      /\ owner' = [owner EXCEPT ![r] = P]
  BY <1>1, PublishFacts DEF InTurn, Peer
<1>3. /\ data' = [data EXCEPT ![r] = NoMsg] /\ sent' = sent /\ rcvd' = Append(rcvd, data[r])
  BY <1>2 DEF Publish
<1>4. PICK n \in Nat : n = sent - Len(rcvd)
  BY <1>0, <1>1 DEF InTurn
<1>5. /\ \A j \in Buf : Dist(r, j) \in 0 .. BufCnt - 1 /\ (Dist(r, j) = 0 <=> j = r)
      /\ \A j \in Buf : Dist(Succ(r), j) = IF j = r THEN BufCnt - 1 ELSE Dist(r, j) - 1
  BY DistFacts
<1>6. n >= 1 /\ data[r] = Len(rcvd) + 1
  <2>1. Dist(r, r) = 0 /\ (owner[r] = C <=> Dist(r, r) < n)
    BY <1>1, <1>4, <1>5 DEF InTurn
  <2>2. data[r] = Len(rcvd) + 1 + Dist(r, r)
    BY <1>1, <1>2 DEF InTurn
  <2>. QED
    BY <1>0, <1>2, <2>1, <2>2
<1>7. Len(rcvd') = Len(rcvd) + 1
  <2>1. data[r] \in Msg \cup {NoMsg}
    BY <1>0
  <2>. QED
    BY <1>0, <1>3, <2>1
<1>8. sent' - Len(rcvd') = n - 1
  BY <1>0, <1>3, <1>4, <1>7
<1>9. \A j \in Buf : owner'[j] = C <=> Dist(Succ(r), j) < n - 1
  <2>. SUFFICES ASSUME NEW j \in Buf PROVE owner'[j] = C <=> Dist(Succ(r), j) < n - 1
    OBVIOUS
  <2>1. owner[j] = C <=> Dist(r, j) < n
    BY <1>1, <1>4 DEF InTurn
  <2>2. owner'[j] = IF j = r THEN P ELSE owner[j]
    BY <1>0, <1>2
  <2>3. n <= BufCnt
    BY <1>0, <1>1, <1>4 DEF InTurn
  <2>. QED
    BY <1>0, <1>5, <2>1, <2>2, <2>3
<1>10. \A j \in Buf : owner'[j] = C => data'[j] = Len(rcvd') + 1 + Dist(Succ(r), j)
  <2>. SUFFICES ASSUME NEW j \in Buf, owner'[j] = C
                PROVE  data'[j] = Len(rcvd') + 1 + Dist(Succ(r), j)
    OBVIOUS
  <2>1. j # r /\ owner[j] = C /\ data'[j] = data[j]
    BY <1>0, <1>2, <1>3
  <2>2. data[j] = Len(rcvd) + 1 + Dist(r, j)
    BY <1>1, <2>1 DEF InTurn
  <2>3. Dist(Succ(r), j) = Dist(r, j) - 1 /\ Dist(r, j) \in Nat
    BY <1>5, <2>1
  <2>. QED
    BY <1>0, <1>7, <2>1, <2>2, <2>3
<1>11. n - 1 < BufCnt /\ Dist(Succ(r), w) = n - 1
  <2>1. n <= BufCnt /\ IF n = BufCnt THEN w = r ELSE Dist(r, w) = n
    BY <1>0, <1>1, <1>4 DEF InTurn
  <2>. QED
    BY <1>0, <1>5, <1>6, <2>1
<1>12. InTurn(Succ(r), w)'
  <2>1. Len(rcvd') <= sent' /\ sent' <= Len(rcvd') + BufCnt
    BY <1>0, <1>3, <1>4, <1>6, <1>7, <1>11
  <2>2. sent' - Len(rcvd') # BufCnt
    BY <1>0, <1>8, <1>11
  <2>. QED
    BY <1>2, <1>8, <1>9, <1>10, <1>11, <2>1, <2>2 DEF InTurn
<1>13. Fifo!Get
  BY <1>0, <1>3, <1>4, <1>6 DEF Fifo!Get
<1>. QED
  BY <1>2, <1>12, <1>13 DEF FifoInv

\* The steps that publish nothing move no message.
LEMMA FifoRest ==
  ASSUME TurnTakers, TypeInv, HoldInv, FifoInv, [Next]_vars,
         ~\E e \in Side : Publish(e)
  PROVE  FifoInv' /\ UNCHANGED <<sent, rcvd>>
<1>. USE PeerFacts
<1>0. /\ pc \in [Side -> PCs]
      /\ \A e \in Side : pc[e] # "detached" /\ (pc[e] \in Getting => app[e] = {})
      /\ \A i \in Buf : ~abort[i]
  BY DEF TypeInv, TypeOK, FifoInv, TurnInv
<1>a. ASSUME NEW e \in Side, NEW v,
             UNCHANGED <<owner, abort, data, idx, app, sent, rcvd>>,
             v # "detached", v \in Getting => app[e] = {}, pc' = [pc EXCEPT ![e] = v]
      PROVE  FifoInv' /\ UNCHANGED <<sent, rcvd>>
  BY <1>0, <1>a, FifoKept
<1>b. ASSUME UNCHANGED <<owner, abort, data, idx, app, sent, rcvd, pc>>
      PROVE  FifoInv' /\ UNCHANGED <<sent, rcvd>>
  BY <1>0, <1>b, FifoKept
<1>1. ASSUME NEW e \in Side, Take(e) PROVE FifoInv' /\ UNCHANGED <<sent, rcvd>>
  BY <1>1, TakeTurn DEF Take, hist
<1>2. ASSUME NEW e \in Side, NEW i \in Buf, NEW f \in PutFlags, PutBack(e, i, f)
      PROVE  FifoInv' /\ UNCHANGED <<sent, rcvd>>
  BY <1>2, PutBackTurn DEF PutBack, hist
<1>3. ASSUME NEW e \in Side, Connect(e) \/ Reset(e) \/ TurnAround(e) PROVE FALSE
  BY <1>0, <1>3 DEF Connect, Reset, TurnAround, TurnTakers, TypeInv, TypeOK
<1>4. ASSUME NEW e \in Side, NEW i \in Buf, NEW f \in PutFlags, PutAbort(e, i, f)
      PROVE  FALSE
  <2>1. PICK j \in Buf : At(e, j)
    BY DEF FifoInv, InTurn, Side
  <2>. QED
    BY <1>4, <2>1 DEF PutAbort, PutValid, At
<1>5. ASSUME NEW e \in Side, NEW f \in GetFlags, GetCall(e, f)
      PROVE  FifoInv' /\ UNCHANGED <<sent, rcvd>>
  <2>1. app[e] = {}
    BY <1>5, Empty DEF GetCall, TurnTakers
  <2>. QED
    BY <1>5, <1>a, <2>1 DEF GetCall, ring, hist
<1>6. ASSUME NEW e \in Side, NEW i \in Buf, NEW f \in PutFlags, PutCall(e, i, f)
      PROVE  FifoInv' /\ UNCHANGED <<sent, rcvd>>
  BY <1>6, <1>a DEF PutCall, ring, hist, Getting
<1>7. ASSUME NEW e \in Side, NEW f \in SigFlags, QSignal(e, f)
      PROVE  FifoInv' /\ UNCHANGED <<sent, rcvd>>
  <2>1. UNCHANGED <<owner, abort, data, idx, app, sent, rcvd>>
    BY <1>7 DEF QSignal, ring
  <2>2. pc' = pc \/ pc' = [pc EXCEPT ![e] = "signal"]
    BY <1>7 DEF QSignal
  <2>. QED
    BY <1>a, <1>b, <2>1, <2>2 DEF Getting
<1>8. ASSUME NEW e \in Side, SetHysteresis(e) \/ SetError(e) \/ Attention(e)
      PROVE  FifoInv' /\ UNCHANGED <<sent, rcvd>>
  BY <1>8, <1>b DEF SetHysteresis, SetError, Attention, ring, hist
<1>9. ASSUME NEW e \in Side, AllHeld(e) \/ NotAvailable(e)
      PROVE  FifoInv' /\ UNCHANGED <<sent, rcvd>>
  BY <1>0, <1>9, <1>a DEF AllHeld, NotAvailable, Return, ring, hist, Getting
<1>10. ASSUME NEW e \in Side, RequestSignal(e) \/ Recheck(e)
       PROVE  FifoInv' /\ UNCHANGED <<sent, rcvd>>
  BY <1>0, <1>10, <1>a DEF RequestSignal, Recheck, Return, ring, hist, Getting
<1>11. ASSUME NEW e \in Side, Wake(e) PROVE FifoInv' /\ UNCHANGED <<sent, rcvd>>
  BY <1>0, <1>11, <1>a DEF Wake, Return, ring, hist, Getting
<1>12. ASSUME NEW e \in Side, Count(e) PROVE FifoInv' /\ UNCHANGED <<sent, rcvd>>
  BY <1>12, <1>a DEF Count, ring, hist, Getting
<1>13. ASSUME NEW e \in Side, Compare(e) \/ Hysteresis(e)
       PROVE  FifoInv' /\ UNCHANGED <<sent, rcvd>>
  BY <1>13, <1>a DEF Compare, Hysteresis, Return, ring, hist, Getting
<1>14. ASSUME NEW e \in Side, CheckNeed(e) \/ Signal(e)
       PROVE  FifoInv' /\ UNCHANGED <<sent, rcvd>>
  BY <1>14, <1>a DEF CheckNeed, Signal, Return, ring, hist, Getting
<1>15. CASE UNCHANGED vars
  BY <1>15, <1>b DEF vars
<1>. QED
  BY <1>1, <1>2, <1>3, <1>4, <1>5, <1>6, <1>7, <1>8, <1>9, <1>10, <1>11, <1>12, <1>13,
     <1>14, <1>15 DEF Next, Step, ClientCall, WaitReturn, WaitInterrupted

LEMMA FifoStep ==
  ASSUME TurnTakers
  PROVE  TypeInv /\ HoldInv /\ FifoInv /\ [Next]_vars
           => FifoInv' /\ [Fifo!Next]_<<sent, rcvd>>
<1>. SUFFICES ASSUME TypeInv, HoldInv, FifoInv, [Next]_vars
              PROVE  FifoInv' /\ [Fifo!Next]_<<sent, rcvd>>
  OBVIOUS
<1>1. CASE Publish(P)
  BY <1>1, ProducerTurn DEF Fifo!Next
<1>2. CASE Publish(C)
  BY <1>2, ConsumerTurn DEF Fifo!Next
<1>3. CASE ~\E e \in Side : Publish(e)
  BY <1>3, FifoRest
<1>. QED
  BY <1>1, <1>2, <1>3 DEF Side

\* The ring of vxt_queue.c, with its owner bits, its two indices that wrap and
\* buffers that are taken and put back, implements a FIFO channel of BufCnt
\* messages, for every number of buffers.
THEOREM QueueIsFifo ==
  ASSUME TurnTakers
  PROVE  Spec => FifoSpec
<1>. DEFINE Inv == TypeInv /\ HoldInv /\ FifoInv
<1>1. Init => Inv
  BY TypeInit, HoldInit, FifoInit
<1>2. Inv /\ [Next]_vars => Inv'
  BY TypeStep, HoldStep, FifoStep
<1>3. Inv /\ [Next]_vars => [Fifo!Next]_<<sent, rcvd>>
  BY FifoStep
<1>4. Init => Fifo!Init
  BY DEF Init, Fifo!Init
<1>. QED
  BY <1>1, <1>2, <1>3, <1>4, PTL DEF Spec, FifoSpec, Fifo!Spec

-----------------------------------------------------------------------------
(* Streaming never puts both endpoints to sleep *)

\* The leads are ones that a ring which fills or drains passes through, and
\* the counters do not wrap.
Streamers ==
  TurnTakers /\ MaxMsg < CntMod /\ Leads \subseteq (0 .. BufCnt - 1) \X (0 .. BufCnt - 1)

\* Hysteresis is set before the first message, not while the queue is in use.
LeadsFirst == Lead(P)' # Lead(P) \/ Lead(C)' # Lead(C) => sent = 0

\* The buffers endpoint e can still put before its peer has them all.
Room(e) == IF e = P THEN BufCnt - (sent - Len(rcvd)) ELSE sent - Len(rcvd)

\* e sleeps, or will without another look at the ring.
Blocked(e) == pc[e] = "wait" \/ (pc[e] = "need" /\ need[e])

\* The peer has not come to the lead at which it signals e, or has just come
\* there and is about to find out.
Ahead(e) ==
  \/ Room(Peer(e)) > Lead(Peer(e))
  \/ /\ Room(Peer(e)) = Lead(Peer(e))
     /\ \/ pc[Peer(e)] \in {"count", "compare", "check"}
        \/ pc[Peer(e)] = "hysteresis" /\ ~call[Peer(e)].wrapped

\* The counters are exact but for a buffer that was put and not yet counted.
Uncounted(e) == IF pc[e] = "count" THEN 1 ELSE 0
Counters == cnt[P] + Uncounted(P) = sent /\ cnt[C] + Uncounted(C) = Len(rcvd)

Sleeper(e) == Blocked(e) => Committed(e) \/ (need[e] /\ Ahead(e))

SleepInv ==
  /\ Counters
  /\ \A e \in Side : Lead(e) \in 0 .. BufCnt - 1 /\ Sleeper(e)
  /\ Blocked(P) => sent > 0
  /\ (\A e \in Side : Blocked(e)) => \E e \in Side : sig[e]

QueueInv == TypeInv /\ HoldInv /\ FifoInv

LEMMA RoomFacts ==
  ASSUME QueueInv
  PROVE  /\ sent \in Nat /\ Len(rcvd) \in Nat /\ Len(rcvd) <= sent /\ sent <= MaxMsg
         /\ BufCnt \in Nat /\ BufCnt > 0 /\ MaxMsg \in Nat
         /\ \A e \in Side : Room(e) \in 0 .. BufCnt
<1>1. sent \in Nat /\ Len(rcvd) \in Nat /\ sent <= MaxMsg
  BY QueueAssumption DEF QueueInv, TypeInv, TypeOK
<1>2. BufCnt \in Nat /\ BufCnt > 0 /\ MaxMsg \in Nat
  BY QueueAssumption
<1>3. Len(rcvd) <= sent /\ sent <= Len(rcvd) + BufCnt
  BY DEF QueueInv, FifoInv, InTurn
<1>. QED
  BY <1>1, <1>2, <1>3 DEF Room

\* An endpoint finds its next buffer with the peer only if all of them are.
LEMMA AllGone ==
  ASSUME QueueInv, NEW e \in Side, app[e] = {}, owner[idx[e]] # e
  PROVE  Room(Peer(e)) = BufCnt /\ (e = P => sent > 0)
<1>. USE PeerFacts
<1>1. PICK r \in Buf, w \in Buf : InTurn(r, w)
  BY DEF QueueInv, FifoInv
<1>2. /\ sent \in Nat /\ Len(rcvd) \in Nat /\ Len(rcvd) <= sent
      /\ BufCnt \in Nat /\ BufCnt > 0
  BY RoomFacts
<1>3. PICK n \in Nat : n = sent - Len(rcvd)
  BY <1>2
<1>4. /\ n <= BufCnt /\ \A i \in Buf : owner[i] = C <=> Dist(r, i) < n
      /\ IF n = BufCnt THEN w = r ELSE Dist(r, w) = n
  BY <1>1, <1>2, <1>3 DEF InTurn
<1>5. Dist(r, r) = 0 /\ Dist(r, w) \in Nat
  BY DistFacts
<1>6. owner \in [Buf -> Side]
  BY DEF QueueInv, TypeInv, TypeOK
<1>7. CASE e = P
  <2>1. owner[w] = C
    BY <1>1, <1>6, <1>7 DEF InTurn, At, Side
  <2>2. n = BufCnt
    BY <1>4, <1>5, <2>1
  <2>. QED
    BY <1>2, <1>3, <1>7, <2>2 DEF Room, Peer
<1>8. CASE e = C
  <2>1. owner[r] # C
    BY <1>1, <1>8 DEF InTurn, At
  <2>2. n = 0
    BY <1>4, <1>5, <2>1
  <2>. QED
    BY <1>2, <1>3, <1>8, <2>2 DEF Room, Peer
<1>. QED
  BY <1>7, <1>8 DEF Side

LEMMA SleepInit ==
  ASSUME Streamers
  PROVE  Init => SleepInv
<1>. SUFFICES ASSUME Init PROVE SleepInv
  OBVIOUS
<1>. USE PeerFacts
<1>1. Counters
  BY DEF Init, Counters, Uncounted
<1>2. BufCnt \div 4 \in 0 .. BufCnt - 1 /\ (BufCnt \div 2) + (BufCnt \div 4) \in 0 .. BufCnt - 1
  BY QueueAssumption
<1>3. \A e \in Side : Lead(e) \in 0 .. BufCnt - 1
  BY <1>2 DEF Init, Lead, DefaultHdr
<1>4. \A e \in Side : ~Blocked(e)
  BY DEF Init, Blocked
<1>. QED
  BY <1>1, <1>3, <1>4 DEF SleepInv, Sleeper

\* A step inside one endpoint that neither counts, signals nor goes to sleep.
LEMMA SleepMove ==
  ASSUME SleepInv, pc \in [Side -> PCs], NEW e \in Side, NEW v,
         pc' = [pc EXCEPT ![e] = v],
         UNCHANGED <<cnt, sent, rcvd, need, sig>>, Lead(P)' = Lead(P), Lead(C)' = Lead(C),
         call'[Peer(e)] = call[Peer(e)],
         pc[e] # "count", v # "count", pc[e] # "signal",
         v = "wait" \/ (v = "need" /\ need[e]) => Blocked(e),
         Blocked(Peer(e)) /\ need[Peer(e)] /\ Room(e) = Lead(e) =>
           \/ pc[e] \notin {"compare", "hysteresis", "check"}
           \/ pc[e] = "hysteresis" /\ call[e].wrapped
           \/ v \in {"compare", "check", "signal"}
           \/ v = "hysteresis" /\ ~call'[e].wrapped
  PROVE  SleepInv'
<1>. USE PeerFacts
<1>1. pc'[e] = v /\ pc'[Peer(e)] = pc[Peer(e)]
  OBVIOUS
<1>2. Counters'
  BY <1>1 DEF SleepInv, Counters, Uncounted, Side
<1>3. \A s \in Side : Room(s)' = Room(s) /\ Lead(s)' = Lead(s)
  BY DEF Room, Side
<1>4. \A s \in Side : Blocked(s)' => Blocked(s)
  <2>1. Blocked(e)' => Blocked(e)
    BY <1>1 DEF Blocked
  <2>2. Blocked(Peer(e))' => Blocked(Peer(e))
    BY <1>1 DEF Blocked
  <2>. QED
    BY <2>1, <2>2
<1>5. Sleeper(e)'
  BY <1>1, <1>3, <1>4 DEF SleepInv, Sleeper, Committed, Ahead
<1>6. Sleeper(Peer(e))'
  <2>. SUFFICES ASSUME Blocked(Peer(e))' PROVE Committed(Peer(e))' \/ (need[Peer(e)] /\ Ahead(Peer(e)))'
    BY DEF Sleeper
  <2>1. Blocked(Peer(e)) /\ (Committed(Peer(e)) \/ (need[Peer(e)] /\ Ahead(Peer(e))))
    BY <1>4 DEF SleepInv, Sleeper
  <2>2. CASE Committed(Peer(e))
    BY <2>2 DEF Committed
  <2>3. CASE need[Peer(e)] /\ Ahead(Peer(e))
    BY <1>1, <1>3, <2>1, <2>3 DEF Committed, Ahead
  <2>. QED
    BY <2>1, <2>2, <2>3
<1>7. /\ Blocked(P)' => sent' > 0
      /\ (\A s \in Side : Blocked(s)') => \E s \in Side : sig'[s]
  BY <1>4 DEF SleepInv
<1>8. \A s \in Side : Lead(s)' \in 0 .. BufCnt - 1 /\ Sleeper(s)'
  BY <1>3, <1>5, <1>6 DEF SleepInv
<1>. QED
  BY <1>2, <1>7, <1>8 DEF SleepInv

\* A step of e that leaves it awake, if its sleeping peer stays covered.
LEMMA SleepAwake ==
  ASSUME SleepInv, NEW e \in Side, Counters', sent' >= sent, sent \in Nat, sent' \in Nat,
         Lead(P)' = Lead(P), Lead(C)' = Lead(C), ~Blocked(e)',
         Blocked(Peer(e))' => Blocked(Peer(e)) /\ Sleeper(Peer(e))'
  PROVE  SleepInv'
<1>. USE PeerFacts
<1>1. \A s \in Side : Lead(s)' \in 0 .. BufCnt - 1
  BY DEF SleepInv, Side
<1>2. \A s \in Side : Sleeper(s)'
  BY DEF Sleeper
<1>3. Blocked(P)' => sent' > 0
  BY DEF SleepInv, Side
<1>. QED
  BY <1>1, <1>2, <1>3 DEF SleepInv

LEMMA SleepPublish ==
  ASSUME QueueInv, SleepInv, NEW e \in Side, Publish(e)
  PROVE  SleepInv'
<1>. USE PeerFacts
<1>0. /\ pc \in [Side -> PCs] /\ data \in [Buf -> Msg \cup {NoMsg}]
      /\ rcvd \in Seq(Msg \cup {NoMsg})
  BY DEF QueueInv, TypeInv, TypeOK
<1>1. /\ pc'[e] = "count" /\ pc'[Peer(e)] = pc[Peer(e)] /\ pc[e] = "publish"
      /\ UNCHANGED <<cnt, need, hdr, sig, call>>
  BY <1>0 DEF Publish
<1>2. /\ sent \in Nat /\ Len(rcvd) \in Nat /\ \A s \in Side : Room(s) \in Nat
  BY RoomFacts
<1>3. \A s \in Side : Lead(s)' = Lead(s) /\ Lead(s) \in Nat
  BY <1>1 DEF Lead, SleepInv
<1>4. IF e = P THEN sent' = sent + 1 /\ Len(rcvd') = Len(rcvd)
               ELSE sent' = sent /\ Len(rcvd') = Len(rcvd) + 1
  <2>1. CASE e = P
    BY <2>1 DEF Publish
  <2>2. CASE e = C
    <3>1. call[C].buf \in Buf
      BY DEF QueueInv, TypeInv, TypeOK, CallType
    <3>2. data[call[C].buf] \in Msg \cup {NoMsg}
      BY <1>0, <3>1
    <3>3. sent' = sent /\ rcvd' = Append(rcvd, data[call[C].buf])
      BY <2>2 DEF Publish
    <3>. QED
      BY <1>0, <2>2, <3>2, <3>3
  <2>. QED
    BY <2>1, <2>2 DEF Side
<1>5. Room(e)' = Room(e) - 1
  BY <1>2, <1>4, QueueAssumption DEF Room, Side
<1>6. Counters'
  BY <1>1, <1>2, <1>4, QueueAssumption DEF SleepInv, Counters, Uncounted, Side, QueueInv, TypeInv, TypeOK
<1>7. ~Blocked(e)' /\ (Blocked(Peer(e))' => Blocked(Peer(e)))
  BY <1>1 DEF Blocked
<1>8. Blocked(Peer(e)) => Sleeper(Peer(e))'
  <2>. SUFFICES ASSUME Blocked(Peer(e))
                PROVE  Committed(Peer(e))' \/ (need[Peer(e)] /\ Ahead(Peer(e)))'
    BY DEF Sleeper
  <2>1. Committed(Peer(e)) \/ (need[Peer(e)] /\ Ahead(Peer(e)))
    BY DEF SleepInv, Sleeper
  <2>2. CASE Committed(Peer(e))
    BY <1>1, <2>2 DEF Committed
  <2>3. CASE need[Peer(e)] /\ Ahead(Peer(e))
    <3>1. Room(e) > Lead(e)
      BY <1>1, <2>3 DEF Ahead
    <3>2. Room(e)' >= Lead(e)'
      BY <1>2, <1>3, <1>5, <3>1
    <3>3. Room(e)' > Lead(e)' \/ Room(e)' = Lead(e)'
      BY <1>2, <1>3, <1>5, <3>2
    <3>. QED
      BY <1>1, <2>3, <3>3 DEF Ahead
  <2>. QED
    BY <2>1, <2>2, <2>3
<1>9. sent' >= sent /\ sent' \in Nat
  BY <1>2, <1>4
<1>. QED
  BY <1>2, <1>3, <1>6, <1>7, <1>8, <1>9, SleepAwake

LEMMA SleepCount ==
  ASSUME Streamers, QueueInv, SleepInv, NEW e \in Side, Count(e)
  PROVE  SleepInv'
<1>. USE PeerFacts
<1>0. /\ pc \in [Side -> PCs] /\ cnt \in [Side -> 0 .. CntMod - 1] /\ CntMod \in Nat
  BY QueueAssumption DEF QueueInv, TypeInv, TypeOK
<1>1. /\ pc'[e] \in {"signal", "compare", "check"} /\ pc'[Peer(e)] = pc[Peer(e)] /\ pc[e] = "count"
      /\ cnt' = [cnt EXCEPT ![e] = (@ + 1) % CntMod]
      /\ UNCHANGED <<need, hdr, sig, call, sent, rcvd>>
  BY <1>0 DEF Count, hist
<1>2. /\ sent \in Nat /\ Len(rcvd) \in Nat /\ Len(rcvd) <= sent /\ sent <= MaxMsg /\ MaxMsg \in Nat
  BY RoomFacts
<1>3. cnt[e] + 1 = (IF e = P THEN sent ELSE Len(rcvd))
  BY <1>1 DEF SleepInv, Counters, Uncounted, Side
<1>4. cnt[e] + 1 \in 0 .. CntMod - 1
  BY <1>0, <1>2, <1>3 DEF Streamers
<1>5. (cnt[e] + 1) % CntMod = cnt[e] + 1
  BY <1>0, <1>4
<1>6. Counters'
  <2>1. cnt'[e] = cnt[e] + 1 /\ cnt'[Peer(e)] = cnt[Peer(e)]
    BY <1>0, <1>1, <1>5
  <2>2. Uncounted(e)' = 0 /\ Uncounted(Peer(e))' = Uncounted(Peer(e))
    BY <1>1 DEF Uncounted
  <2>3. cnt'[e] + Uncounted(e)' = cnt[e] + 1
    BY <1>0, <2>1, <2>2
  <2>4. CASE e = P
    BY <1>1, <1>3, <2>1, <2>2, <2>3, <2>4 DEF SleepInv, Counters, Peer
  <2>5. CASE e = C
    BY <1>1, <1>3, <2>1, <2>2, <2>3, <2>5 DEF SleepInv, Counters, Peer
  <2>. QED
    BY <2>4, <2>5 DEF Side
<1>7. \A s \in Side : Room(s)' = Room(s) /\ Lead(s)' = Lead(s)
  BY <1>1 DEF Room, Lead
<1>8. ~Blocked(e)' /\ (Blocked(Peer(e))' => Blocked(Peer(e)))
  BY <1>1 DEF Blocked
<1>9. Sleeper(Peer(e)) => (Blocked(Peer(e)) => Sleeper(Peer(e))')
  BY <1>1, <1>7 DEF Sleeper, Committed, Ahead
<1>10. sent' >= sent /\ sent' \in Nat
  BY <1>1, <1>2
<1>. QED
  BY <1>2, <1>6, <1>7, <1>8, <1>9, <1>10, SleepAwake DEF SleepInv

LEMMA SleepStream ==
  ASSUME Streamers, QueueInv, SleepInv, NEW e \in Side, Compare(e) \/ Hysteresis(e)
  PROVE  SleepInv'
<1>. USE PeerFacts
<1>0. /\ pc \in [Side -> PCs] /\ cnt \in [Side -> 0 .. CntMod - 1] /\ CntMod \in Nat
      /\ call \in [Side -> CallType] /\ CntMod > BufCnt
  BY QueueAssumption DEF QueueInv, TypeInv, TypeOK
<1>1. /\ sent \in Nat /\ Len(rcvd) \in Nat /\ Len(rcvd) <= sent /\ BufCnt \in Nat
      /\ \A s \in Side : Room(s) \in 0 .. BufCnt
  BY RoomFacts
<1>2. Blocked(Peer(e)) => cnt[P] = sent /\ cnt[C] = Len(rcvd)
  BY <1>0 DEF Compare, Hysteresis, Blocked, SleepInv, Counters, Uncounted, Side
<1>3. /\ UNCHANGED <<cnt, sent, rcvd, need, sig>> /\ hdr' = hdr
      /\ call'[Peer(e)] = call[Peer(e)]
  BY <1>0 DEF Compare, Hysteresis, Return, hist
<1>4. Lead(P)' = Lead(P) /\ Lead(C)' = Lead(C)
  BY <1>3 DEF Lead
<1>5. CASE Compare(e)
  <2>1. pc' = [pc EXCEPT ![e] = "hysteresis"] /\ pc[e] = "compare"
    BY <1>5 DEF Compare
  <2>2. Blocked(Peer(e)) => ~call'[e].wrapped
    <3>1. call'[e].wrapped <=> cnt[C] > cnt[P]
      BY <1>0, <1>5 DEF Compare, CallType
    <3>2. Blocked(Peer(e)) => ~(cnt[C] > cnt[P])
      BY <1>1, <1>2
    <3>. QED
      BY <3>1, <3>2
  <2>. QED
    BY <1>0, <1>3, <1>4, <2>1, <2>2, SleepMove
<1>6. CASE Hysteresis(e)
  <2>1. pc[e] = "hysteresis"
    BY <1>6 DEF Hysteresis
  <2>2. PICK v \in {"check", "idle"} : pc' = [pc EXCEPT ![e] = v] /\ (AvailNum(e) = Lead(e) => v = "check")
    BY <1>6 DEF Hysteresis, Return
  <2>3. Blocked(Peer(e)) /\ ~call[e].wrapped => AvailNum(e) = Room(e)
    <3>. SUFFICES ASSUME Blocked(Peer(e)), ~call[e].wrapped PROVE AvailNum(e) = Room(e)
      OBVIOUS
    <3>1. AvailNum(e) = Room(e) % CntMod
      BY <1>2 DEF AvailNum, Room, Side
    <3>2. Room(e) \in 0 .. CntMod - 1
      BY <1>0, <1>1
    <3>. QED
      BY <1>0, <3>1, <3>2
  <2>. QED
    BY <1>0, <1>3, <1>4, <2>1, <2>2, <2>3, SleepMove
<1>. QED
  BY <1>5, <1>6

LEMMA SleepSignal ==
  ASSUME QueueInv, SleepInv, NEW e \in Side, CheckNeed(e) \/ Signal(e) \/ Wake(e)
  PROVE  SleepInv'
<1>. USE PeerFacts
<1>0. /\ pc \in [Side -> PCs] /\ call \in [Side -> CallType]
      /\ need \in [Side -> BOOLEAN] /\ sig \in [Side -> BOOLEAN] /\ sent \in Nat
  BY RoomFacts DEF QueueInv, TypeInv, TypeOK
<1>1. /\ UNCHANGED <<cnt, sent, rcvd, hdr>> /\ call'[Peer(e)] = call[Peer(e)]
      /\ pc'[Peer(e)] = pc[Peer(e)]
  BY <1>0 DEF CheckNeed, Signal, Wake, Return, hist
<1>2. \A s \in Side : Room(s)' = Room(s) /\ Lead(s)' = Lead(s)
  BY <1>1 DEF Room, Lead
<1>3. pc[e] # "count" /\ pc'[e] # "count" /\ pc'[e] \notin {"need", "wait"}
  BY <1>0 DEF CheckNeed, Signal, Wake, Return
<1>4. Counters'
  BY <1>1, <1>3 DEF SleepInv, Counters, Uncounted, Side
<1>5. ~Blocked(e)'
  BY <1>3 DEF Blocked
<1>6. CASE CheckNeed(e)
  <2>1. Blocked(Peer(e))' => Blocked(Peer(e)) /\ Sleeper(Peer(e))'
    BY <1>0, <1>1, <1>2, <1>6 DEF CheckNeed, Return, Blocked, Sleeper, Committed, Ahead, SleepInv
  <2>. QED
    BY <1>0, <1>1, <1>2, <1>4, <1>5, <2>1, SleepAwake
<1>7. CASE Signal(e)
  <2>1. Blocked(Peer(e))' => Blocked(Peer(e)) /\ Sleeper(Peer(e))'
    BY <1>0, <1>1, <1>7 DEF Signal, Blocked, Sleeper, Committed
  <2>. QED
    BY <1>0, <1>1, <1>2, <1>4, <1>5, <2>1, SleepAwake
<1>8. CASE Wake(e)
  <2>1. Blocked(Peer(e))' => Blocked(Peer(e)) /\ Sleeper(Peer(e))'
    BY <1>0, <1>1, <1>2, <1>8 DEF Wake, Return, Blocked, Sleeper, Committed, Ahead, SleepInv
  <2>. QED
    BY <1>0, <1>1, <1>2, <1>4, <1>5, <2>1, SleepAwake
<1>. QED
  BY <1>6, <1>7, <1>8

LEMMA SleepFalls ==
  ASSUME QueueInv, SleepInv, NEW e \in Side, NotAvailable(e) \/ RequestSignal(e)
  PROVE  SleepInv'
<1>. USE PeerFacts
<1>0. /\ pc \in [Side -> PCs] /\ call \in [Side -> CallType]
      /\ need \in [Side -> BOOLEAN] /\ sig \in [Side -> BOOLEAN] /\ sent \in Nat
  BY RoomFacts DEF QueueInv, TypeInv, TypeOK
<1>1. /\ UNCHANGED <<cnt, sent, rcvd, hdr, sig>> /\ call'[Peer(e)] = call[Peer(e)]
      /\ pc'[Peer(e)] = pc[Peer(e)] /\ need'[Peer(e)] = need[Peer(e)]
  BY <1>0 DEF NotAvailable, RequestSignal, Return, hist
<1>2. \A s \in Side : Room(s)' = Room(s) /\ Lead(s)' = Lead(s)
  BY <1>1 DEF Room, Lead
<1>3. pc[e] \in {"retry", "need"} /\ pc'[e] \in {"idle", "retry", "need", "wait"}
  BY <1>0 DEF NotAvailable, RequestSignal, Return
<1>4. Counters'
  BY <1>1, <1>3 DEF SleepInv, Counters, Uncounted, Side
<1>5. Blocked(Peer(e))' => Blocked(Peer(e)) /\ Sleeper(Peer(e))'
  BY <1>1, <1>2, <1>3 DEF Blocked, Sleeper, Committed, Ahead, SleepInv
<1>6. CASE ~Blocked(e)'
  BY <1>0, <1>1, <1>2, <1>4, <1>5, <1>6, SleepAwake
<1>7. CASE Blocked(e)' /\ RequestSignal(e)
  <2>1. need[e] /\ need' = need /\ pc' = [pc EXCEPT ![e] = "wait"] /\ Blocked(e)
    <3>1. need[e]
      BY <1>0, <1>7 DEF RequestSignal, Blocked
    <3>2. need' = [need EXCEPT ![e] = TRUE] /\ need[e] = TRUE
      BY <1>0, <1>7, <3>1 DEF RequestSignal
    <3>3. need' = need
      BY <1>0, <3>2
    <3>4. pc[e] = "need" /\ pc' = [pc EXCEPT ![e] = "wait"]
      BY <1>7, <3>1 DEF RequestSignal
    <3>. QED
      BY <3>1, <3>3, <3>4 DEF Blocked
  <2>. QED
    BY <1>0, <1>1, <1>2, <1>3, <2>1, SleepMove
<1>8. CASE Blocked(e)' /\ NotAvailable(e)
  <2>1. need' = need /\ need[e] /\ pc[e] = "retry" /\ owner[idx[e]] # e /\ app[e] = {}
    BY <1>0, <1>8 DEF NotAvailable, Return, Blocked, QueueInv, FifoInv, TurnInv, Getting
  <2>2. Room(Peer(e)) = BufCnt /\ (e = P => sent > 0)
    BY <2>1, AllGone
  <2>3. /\ BufCnt \in Nat /\ BufCnt > 0 /\ Room(e) \in Nat
        /\ \A s \in Side : Lead(s) \in 0 .. BufCnt - 1
    BY RoomFacts DEF SleepInv
  <2>4. Room(e) = 0
    BY <2>2, RoomFacts DEF Room, Side, Peer
  <2>5. Sleeper(e)'
    <3>1. Ahead(e)'
      BY <1>2, <2>2, <2>3 DEF Ahead
    <3>. QED
      BY <2>1, <3>1 DEF Sleeper
  <2>6. Blocked(Peer(e)) => sig[Peer(e)]
    BY <2>1, <2>3, <2>4 DEF SleepInv, Sleeper, Committed, Ahead
  <2>7. /\ Blocked(P)' => sent' > 0
        /\ (\A s \in Side : Blocked(s)') => \E s \in Side : sig'[s]
    BY <1>1, <1>5, <2>2, <2>6 DEF SleepInv, Side
  <2>8. \A s \in Side : Lead(s)' \in 0 .. BufCnt - 1 /\ Sleeper(s)'
    <3>1. Sleeper(Peer(e))'
      BY <1>5 DEF Sleeper
    <3>. QED
      BY <1>2, <2>3, <2>5, <3>1
  <2>. QED
    BY <1>4, <2>7, <2>8 DEF SleepInv
<1>. QED
  BY <1>6, <1>7, <1>8

LEMMA SleepLeads ==
  ASSUME Streamers, QueueInv, SleepInv, NEW e \in Side, SetHysteresis(e), [LeadsFirst]_vars
  PROVE  SleepInv'
<1>. USE PeerFacts
<1>0. /\ sent \in Nat /\ Len(rcvd) \in Nat /\ Len(rcvd) <= sent /\ BufCnt \in Nat /\ BufCnt > 0
      /\ pc \in [Side -> PCs] /\ hdr \in Hdr
  BY RoomFacts DEF QueueInv, TypeInv, TypeOK
<1>1. UNCHANGED <<cnt, sent, rcvd, need, sig, pc, call>> /\ pc[e] = "idle"
  BY DEF SetHysteresis, hist
<1>2. \A s \in Side : Lead(s)' \in 0 .. BufCnt - 1
  <2>1. PICK lead \in Leads : hdr' = [hdr EXCEPT !.data_avail_lead = lead[1],
                                                 !.space_avail_lead = lead[2]]
    BY DEF SetHysteresis
  <2>2. lead[1] \in 0 .. BufCnt - 1 /\ lead[2] \in 0 .. BufCnt - 1
    BY DEF Streamers
  <2>3. hdr'.data_avail_lead = lead[1] /\ hdr'.space_avail_lead = lead[2]
    BY <1>0, <2>1 DEF Hdr
  <2>. QED
    BY <2>2, <2>3 DEF Lead
<1>3. CASE Lead(P)' = Lead(P) /\ Lead(C)' = Lead(C)
  <2>1. pc' = [pc EXCEPT ![e] = "idle"]
    BY <1>0, <1>1
  <2>. QED
    BY <1>0, <1>1, <1>3, <2>1, SleepMove
<1>4. CASE ~(Lead(P)' = Lead(P) /\ Lead(C)' = Lead(C))
  <2>1. sent = 0 /\ Len(rcvd) = 0
    <3>1. sent = 0
      BY <1>4 DEF LeadsFirst, vars, Lead
    <3>. QED
      BY <1>0, <3>1
  <2>2. \A s \in Side : Blocked(s)' <=> Blocked(s)
    BY <1>1 DEF Blocked
  <2>3. ~Blocked(P)
    BY <2>1 DEF SleepInv
  <2>4. Counters'
    BY <1>1 DEF SleepInv, Counters, Uncounted
  <2>5. Sleeper(C)'
    <3>. SUFFICES ASSUME Blocked(C) PROVE Committed(C)' \/ (need[C] /\ Ahead(C))'
      BY <2>2 DEF Sleeper
    <3>1. Committed(C) \/ need[C]
      BY DEF SleepInv, Sleeper
    <3>2. Room(P)' > Lead(P)'
      BY <1>0, <1>1, <1>2, <2>1 DEF Room
    <3>. QED
      BY <1>1, <3>1, <3>2 DEF Committed, Ahead, Peer
  <2>6. \A s \in Side : Sleeper(s)'
    BY <2>2, <2>3, <2>5 DEF Sleeper, Side
  <2>. QED
    BY <1>2, <2>2, <2>3, <2>4, <2>6 DEF SleepInv
<1>. QED
  BY <1>3, <1>4

LEMMA SleepStep ==
  ASSUME Streamers
  PROVE  QueueInv /\ SleepInv /\ [Next /\ LeadsFirst]_vars => SleepInv'
<1>. SUFFICES ASSUME QueueInv, SleepInv, [Next]_vars, [LeadsFirst]_vars PROVE SleepInv'
  OBVIOUS
<1>. USE PeerFacts
<1>0. /\ pc \in [Side -> PCs] /\ call \in [Side -> CallType] /\ hdr \in Hdr
      /\ \A i \in Buf : ~abort[i]
  BY DEF QueueInv, TypeInv, TypeOK, FifoInv, TurnInv
<1>a. ASSUME NEW e \in Side, NEW v, pc' = [pc EXCEPT ![e] = v],
             UNCHANGED <<cnt, sent, rcvd, need, sig>>, call'[Peer(e)] = call[Peer(e)],
             Lead(P)' = Lead(P), Lead(C)' = Lead(C),
             pc[e] \notin {"count", "signal", "compare", "hysteresis", "check"},
             v \notin {"count", "need", "wait"}
      PROVE  SleepInv'
  BY <1>0, <1>a, SleepMove
<1>b. hdr' = hdr => Lead(P)' = Lead(P) /\ Lead(C)' = Lead(C)
  BY DEF Lead
<1>1. ASSUME NEW e \in Side, NEW f \in GetFlags, GetCall(e, f) PROVE SleepInv'
  BY <1>0, <1>1, <1>a, <1>b DEF GetCall, hist
<1>2. ASSUME NEW e \in Side, AllHeld(e) \/ Take(e) \/ Recheck(e) PROVE SleepInv'
  BY <1>0, <1>2, <1>a, <1>b DEF AllHeld, Take, Recheck, Return, hist
<1>3. ASSUME NEW e \in Side, NEW i \in Buf, NEW f \in PutFlags,
             PutCall(e, i, f) \/ PutBack(e, i, f)
      PROVE  SleepInv'
  BY <1>0, <1>3, <1>a, <1>b DEF PutCall, PutBack, hist
<1>4. ASSUME NEW e \in Side, NEW i \in Buf, NEW f \in PutFlags, PutAbort(e, i, f)
      PROVE  FALSE
  <2>1. PICK j \in Buf : At(e, j)
    BY DEF QueueInv, FifoInv, InTurn, Side
  <2>. QED
    BY <1>4, <2>1 DEF PutAbort, PutValid, At
<1>5. ASSUME NEW e \in Side, Connect(e) \/ Reset(e) \/ TurnAround(e) PROVE FALSE
  BY <1>0, <1>5
     DEF Connect, Reset, TurnAround, Streamers, TurnTakers, QueueInv, TypeInv, TypeOK, FifoInv, TurnInv
<1>6. ASSUME NEW e \in Side, NEW f \in SigFlags, QSignal(e, f) PROVE SleepInv'
  <2>1. Lead(P)' = Lead(P) /\ Lead(C)' = Lead(C)
    BY <1>0, <1>6 DEF QSignal, Lead, Hdr
  <2>2. PICK v \in {"idle", "signal"} : pc' = [pc EXCEPT ![e] = v]
    <3>1. pc[e] = "idle" /\ (pc' = pc \/ pc' = [pc EXCEPT ![e] = "signal"])
      BY <1>6 DEF QSignal
    <3>2. pc = [pc EXCEPT ![e] = "idle"]
      BY <1>0, <3>1
    <3>. QED
      BY <3>1, <3>2
  <2>3. /\ UNCHANGED <<cnt, sent, rcvd, need, sig>> /\ call'[Peer(e)] = call[Peer(e)]
        /\ pc[e] = "idle"
    BY <1>0, <1>6 DEF QSignal
  <2>. QED
    BY <1>a, <2>1, <2>2, <2>3
<1>7. ASSUME NEW e \in Side, SetError(e) PROVE SleepInv'
  <2>1. Lead(P)' = Lead(P) /\ Lead(C)' = Lead(C)
    BY <1>0, <1>7 DEF SetError, Lead, Hdr
  <2>2. pc' = [pc EXCEPT ![e] = "idle"]
    BY <1>0, <1>7 DEF SetError
  <2>. QED
    BY <1>7, <1>a, <2>1, <2>2 DEF SetError, hist
<1>8. ASSUME NEW e \in Side, Attention(e) PROVE SleepInv'
  <2>1. /\ UNCHANGED <<cnt, sent, rcvd, need, pc, call, hdr>>
        /\ \A s \in Side : sig[s] => sig'[s]
    BY <1>8 DEF Attention, hist, QueueInv, TypeInv, TypeOK
  <2>2. \A s \in Side : Room(s)' = Room(s) /\ Lead(s)' = Lead(s)
    BY <2>1 DEF Room, Lead
  <2>3. \A s \in Side : (Blocked(s)' <=> Blocked(s)) /\ (Sleeper(s) => Sleeper(s)')
    BY <2>1, <2>2 DEF Blocked, Sleeper, Committed, Ahead
  <2>4. Counters'
    BY <2>1 DEF SleepInv, Counters, Uncounted
  <2>. QED
    BY <2>1, <2>2, <2>3, <2>4 DEF SleepInv
<1>9. CASE UNCHANGED vars
  BY <1>9 DEF vars, SleepInv, Counters, Uncounted, Sleeper, Committed, Blocked, Ahead, Room, Lead
<1>. QED
  BY <1>1, <1>2, <1>3, <1>4, <1>5, <1>6, <1>7, <1>8, <1>9, SleepPublish, SleepCount,
     SleepStream, SleepSignal, SleepFalls, SleepLeads
     DEF Next, Step, ClientCall, WaitReturn, WaitInterrupted

\* Streaming withholds signals until the lead, and still vxtq_get_buf never
\* puts producer and consumer to sleep at the same time with no signal on its
\* way, for every number of buffers and every lead short of a whole ring.
THEOREM NoMutualWaitAlways ==
  ASSUME Streamers
  PROVE  Spec /\ [][LeadsFirst]_vars => []NoMutualWait
<1>1. Init => QueueInv /\ SleepInv
  BY TypeInit, HoldInit, FifoInit, SleepInit DEF QueueInv, Streamers
<1>2. QueueInv /\ SleepInv /\ [Next]_vars /\ [LeadsFirst]_vars => (QueueInv /\ SleepInv)'
  BY TypeStep, HoldStep, FifoStep, SleepStep DEF QueueInv, Streamers
<1>3. SleepInv => NoMutualWait
  BY DEF SleepInv, Blocked, NoMutualWait
<1>. QED
  BY <1>1, <1>2, <1>3, PTL DEF Spec
=============================================================================
