-------------------------- MODULE VxtDeviceProofs --------------------------
(***************************************************************************)
(* The configuration queues of VxtDevice, for any number of threads and    *)
(* slots.                                                                  *)
(***************************************************************************)
EXTENDS VxtDevice, WellFoundedInduction, TLAPS

\* Identifiers never fall behind: the next request of a side is newer than the
\* one in its half and than everything its peer has handled.
IdsAhead ==
  \A s \in Side : req[s].id < outId[s] /\ inId[Peer(s)] < outId[s]

\* The host makes a device only for one the guest has offered: it has used no
\* more slots, and none for the offer that is on its way.
HostFollows ==
  /\ next["host"] <= next["guest"]
  /\ req["guest"].type = "ADD_REQ" =>
       next["host"] <= req["guest"].lcp /\ req["guest"].lcp < next["guest"]

LinkInv == TypeOK /\ StrictLink /\ IdsAhead /\ HostFollows

LEMMA SideFacts ==
  /\ "guest" \in Side /\ "host" \in Side /\ Peer("guest") = "host" /\ Peer("host") = "guest"
  /\ \A s \in Side : Peer(s) \in Side /\ Peer(Peer(s)) = s /\ Peer(s) # s
  /\ \A s \in Side : s = "guest" \/ s = "host"
BY DEF Side, Peer

LEMMA NullFacts == NullMsg \in Msg /\ NoDevice \in Device /\ NullMsg.type = "NULL"
BY DEF NullMsg, NoDevice, Msg, MsgType, Device

LEMMA LinkInit == Init => LinkInv
<1>. SUFFICES ASSUME Init PROVE LinkInv
  OBVIOUS
<1>. USE SideFacts, DeviceAssumption
<1>1. TypeOK
  BY NullFacts DEF Init, TypeOK, Both, Slot
<1>2. StrictLink /\ IdsAhead
  BY NullFacts DEF Init, StrictLink, IdsAhead, Both, NullMsg
<1>3. HostFollows
  BY NullFacts DEF Init, HostFollows, Both
<1>. QED
  BY <1>1, <1>2, <1>3 DEF LinkInv

-----------------------------------------------------------------------------
(* What a step does to the queues *)

Quiet == UNCHANGED <<req, rep, reqInUse, outId, inId>>

\* Side s puts message m in its request half.
Sends(s, m) ==
  /\ ~reqInUse[s]
  /\ m \in Msg /\ m.type # "NULL" /\ m.id = outId[s]
  /\ req' = [req EXCEPT ![s] = m]
  /\ TakeHalf(s)
  /\ UNCHANGED <<rep, inId>>

LEMMA QuietStep ==
  ASSUME LinkInv, Quiet
  PROVE  StrictLink' /\ IdsAhead'
BY DEF LinkInv, Quiet, StrictLink, IdsAhead

LEMMA SendStep ==
  ASSUME LinkInv, NEW s \in Side, NEW m, Sends(s, m)
  PROVE  StrictLink' /\ IdsAhead'
<1>. USE SideFacts DEF LinkInv
<1>1. /\ req \in [Side -> Msg] /\ rep \in [Side -> Msg] /\ reqInUse \in [Side -> BOOLEAN]
      /\ outId \in [Side -> Nat] /\ inId \in [Side -> Nat]
  BY DEF TypeOK
<1>2. /\ req' = [req EXCEPT ![s] = m] /\ reqInUse' = [reqInUse EXCEPT ![s] = TRUE]
      /\ outId' = [outId EXCEPT ![s] = @ + 1] /\ rep' = rep /\ inId' = inId
      /\ m.type # "NULL" /\ m.id = outId[s]
  BY DEF Sends, TakeHalf
<1>3. rep[Peer(s)].type = "NULL"
  BY DEF Sends, StrictLink
<1>4. StrictLink'
  BY <1>1, <1>2, <1>3 DEF StrictLink, IdsAhead
<1>5. IdsAhead'
  BY <1>1, <1>2 DEF IdsAhead
<1>. QED
  BY <1>4, <1>5

LEMMA ReplyStep ==
  ASSUME LinkInv, NEW s \in Side, ParseReply(s)
  PROVE  StrictLink' /\ IdsAhead'
<1>. USE SideFacts DEF LinkInv
<1>1. /\ req \in [Side -> Msg] /\ rep \in [Side -> Msg] /\ reqInUse \in [Side -> BOOLEAN]
  BY DEF TypeOK
<1>2. CASE rep[Peer(s)].type = "NULL"
  <2>1. Quiet
    BY <1>2 DEF ParseReply, Quiet
  <2>. QED
    BY <2>1, QuietStep
<1>3. CASE rep[Peer(s)].type # "NULL"
  <2>1. /\ reqInUse' = [reqInUse EXCEPT ![s] = FALSE]
        /\ req' = [req EXCEPT ![s].type = "NULL"]
        /\ rep' = [rep EXCEPT ![Peer(s)].type = "NULL"]
        /\ outId' = outId /\ inId' = inId
    BY <1>3 DEF ParseReply
  <2>2. req'[s].type = "NULL" /\ req'[s].id = req[s].id /\ req'[Peer(s)] = req[Peer(s)]
    BY <1>1, <2>1 DEF Msg
  <2>3. rep'[Peer(s)].type = "NULL" /\ rep'[s] = rep[s]
    BY <1>1, <2>1 DEF Msg
  <2>4. ~reqInUse'[s] /\ reqInUse'[Peer(s)] = reqInUse[Peer(s)]
    BY <1>1, <2>1
  <2>. QED
    BY <2>1, <2>2, <2>3, <2>4 DEF StrictLink, IdsAhead
<1>. QED
  BY <1>2, <1>3

\* Side s handles the request of its peer: it leaves no more than one reply and
\* may put a request of its own in a half that was free.
Handles(s) ==
  LET p == Peer(s) IN
  /\ req[p].type # "NULL" /\ inId[s] < req[p].id
  /\ req'[p].type = "NULL" /\ req'[p].id = req[p].id
  /\ outId'[p] = outId[p] /\ reqInUse'[p] = reqInUse[p] /\ rep'[p] = rep[p]
  /\ rep'[s] = rep[s] \/ rep'[s].id = req[p].id
  /\ inId'[s] = inId[s] + 1 /\ inId'[p] = inId[p]
  /\ \/ req'[s] = req[s] /\ reqInUse'[s] = reqInUse[s] /\ outId'[s] \in Nat /\ outId'[s] >= outId[s]
     \/ ~reqInUse[s] /\ reqInUse'[s] /\ req'[s].id = outId[s] /\ outId'[s] = outId[s] + 1

LEMMA HandleStep ==
  ASSUME LinkInv, NEW s \in Side, Handles(s)
  PROVE  StrictLink' /\ IdsAhead'
<1>. USE SideFacts DEF LinkInv
<1>1. /\ \A x \in Side : req[x] \in Msg /\ rep[x] \in Msg /\ outId[x] \in Nat /\ inId[x] \in Nat
      /\ \A x \in Side : req[x].id \in Nat
  BY DEF TypeOK, Msg
<1>2. ASSUME NEW x \in Side PROVE x = s \/ x = Peer(s)
  OBVIOUS
<1>. DEFINE p == Peer(s)
<1>3. /\ reqInUse[p] /\ rep[s].type = "NULL" /\ inId[s] < req[p].id /\ req[p].id < outId[p]
      /\ inId[p] < outId[s] /\ req[s].id < outId[s]
  BY DEF Handles, StrictLink, IdsAhead
<1>4. StrictLink'
  <2>1. /\ req'[s].type # "NULL" =>
              reqInUse'[s] /\ rep'[p].type = "NULL" /\ inId'[p] < req'[s].id
        /\ rep'[p].type # "NULL" => reqInUse'[s] /\ rep'[p].id = req'[s].id
    BY <1>1, <1>3 DEF Handles, StrictLink
  <2>2. /\ req'[p].type # "NULL" =>
              reqInUse'[p] /\ rep'[s].type = "NULL" /\ inId'[s] < req'[p].id
        /\ rep'[s].type # "NULL" => reqInUse'[p] /\ rep'[s].id = req'[p].id
    BY <1>1, <1>3 DEF Handles
  <2>. QED
    BY <1>2, <2>1, <2>2 DEF StrictLink
<1>5. IdsAhead'
  <2>1. req'[s].id < outId'[s] /\ inId'[p] < outId'[s]
    BY <1>1, <1>3 DEF Handles
  <2>2. req'[p].id < outId'[p] /\ inId'[s] < outId'[p]
    BY <1>1, <1>3 DEF Handles
  <2>. QED
    BY <1>2, <2>1, <2>2 DEF IdsAhead
<1>. QED
  BY <1>4, <1>5

-----------------------------------------------------------------------------
(* Types and slots *)

QueueType ==
  /\ req \in [Side -> Msg] /\ rep \in [Side -> Msg]
  /\ reqInUse \in [Side -> BOOLEAN] /\ outId \in [Side -> Nat]
  /\ irq \in [Side -> BOOLEAN]

\* What a handler promises: everything but the identifier the parser counts.
Handled(s) ==
  LET p == Peer(s) IN
  /\ QueueType'
  /\ req'[p].type = "NULL" /\ req'[p].id = req[p].id
  /\ outId'[p] = outId[p] /\ reqInUse'[p] = reqInUse[p] /\ rep'[p] = rep[p]
  /\ rep'[s] = rep[s] \/ rep'[s].id = req[p].id
  /\ \/ req'[s] = req[s] /\ reqInUse'[s] = reqInUse[s] /\ outId'[s] \in Nat /\ outId'[s] >= outId[s]
     \/ ~reqInUse[s] /\ reqInUse'[s] /\ req'[s].id = outId[s] /\ outId'[s] = outId[s] + 1

LEMMA DoneFacts ==
  ASSUME LinkInv, NEW s \in Side, Done(s)
  PROVE  /\ req' \in [Side -> Msg] /\ req'[s] = req[s]
         /\ req'[Peer(s)].type = "NULL" /\ req'[Peer(s)].id = req[Peer(s)].id
<1>. USE SideFacts DEF LinkInv
<1>1. req \in [Side -> Msg] /\ req' = [req EXCEPT ![Peer(s)].type = "NULL"]
  BY DEF TypeOK, Done
<1>2. [req[Peer(s)] EXCEPT !.type = "NULL"] \in Msg
  BY <1>1 DEF Msg, MsgType
<1>3. req' = [req EXCEPT ![Peer(s)] = [req[Peer(s)] EXCEPT !.type = "NULL"]]
  BY <1>1
<1>. QED
  BY <1>1, <1>2, <1>3 DEF Msg

LEMMA AnswerStep ==
  ASSUME LinkInv, NEW s \in Side, NEW m \in Msg, NEW err \in BOOLEAN, NEW k \in Nat,
         m.id = req[Peer(s)].id, Answer(s, m, err, k)
  PROVE  Handled(s) /\ req'[s] = req[s]
<1>. USE SideFacts DEF LinkInv
<1>1. /\ req \in [Side -> Msg] /\ rep \in [Side -> Msg] /\ reqInUse \in [Side -> BOOLEAN]
      /\ outId \in [Side -> Nat] /\ irq \in [Side -> BOOLEAN]
  BY DEF TypeOK
<1>2. /\ req' \in [Side -> Msg] /\ req'[s] = req[s]
      /\ req'[Peer(s)].type = "NULL" /\ req'[Peer(s)].id = req[Peer(s)].id
  BY DoneFacts DEF Answer
<1>3. [m EXCEPT !.err = err] \in Msg /\ [m EXCEPT !.err = err].id = m.id
  BY DEF Msg
<1>4. rep' \in [Side -> Msg] /\ rep'[s].id = m.id /\ rep'[Peer(s)] = rep[Peer(s)]
  BY <1>1, <1>3 DEF Answer, Respond
<1>5. /\ outId' \in [Side -> Nat] /\ outId'[Peer(s)] = outId[Peer(s)]
      /\ outId'[s] >= outId[s] /\ outId'[s] \in Nat
  BY <1>1 DEF Answer
<1>6. reqInUse' = reqInUse /\ irq' \in [Side -> BOOLEAN]
  BY <1>1 DEF Answer, Signal
<1>. QED
  BY <1>1, <1>2, <1>4, <1>5, <1>6 DEF Handled, QueueType

LEMMA DeviceFacts ==
  /\ \A made \in {"waiting", "ok"} : NewDevice(made) \in Device
  /\ \A n \in Slot : [NewDevice("ok") EXCEPT !.remote = n] \in Device
BY DEF NewDevice, NoDevice, Device

LEMMA DevUpdate ==
  ASSUME devs \in [Side -> [Slot -> Device]], NEW s \in Side, NEW n \in Slot
  PROVE  /\ \A d \in Device : [devs EXCEPT ![s][n] = d] \in [Side -> [Slot -> Device]]
         /\ [devs EXCEPT ![s][n].state = "freed"] \in [Side -> [Slot -> Device]]
         /\ [devs EXCEPT ![s][n].closing = TRUE] \in [Side -> [Slot -> Device]]
<1>1. \A d \in Device : [devs EXCEPT ![s][n] = d] \in [Side -> [Slot -> Device]]
  OBVIOUS
<1>2. devs[s][n] \in Device
  OBVIOUS
<1>3. /\ [devs[s][n] EXCEPT !.state = "freed"] \in Device
      /\ [devs[s][n] EXCEPT !.closing = TRUE] \in Device
  BY <1>2 DEF Device
<1>4. /\ [devs EXCEPT ![s][n].state = "freed"]
           = [devs EXCEPT ![s][n] = [devs[s][n] EXCEPT !.state = "freed"]]
      /\ [devs EXCEPT ![s][n].closing = TRUE]
           = [devs EXCEPT ![s][n] = [devs[s][n] EXCEPT !.closing = TRUE]]
  OBVIOUS
<1>. QED
  BY <1>1, <1>3, <1>4

SlotType == next \in [Side -> 1 .. MaxSlot + 1] /\ devs \in [Side -> [Slot -> Device]]

LEMMA AddDeviceStep ==
  ASSUME LinkInv, req["host"].type = "REQ_ADD", AddDevice(req["host"])
  PROVE  Handled("guest") /\ SlotType' /\ HostFollows'
<1>. USE SideFacts, DeviceAssumption DEF LinkInv
<1>. DEFINE m == req["host"]
            n == next["guest"]
<1>1. /\ req \in [Side -> Msg] /\ rep \in [Side -> Msg] /\ reqInUse \in [Side -> BOOLEAN]
      /\ outId \in [Side -> Nat] /\ irq \in [Side -> BOOLEAN]
      /\ next \in [Side -> 1 .. MaxSlot + 1] /\ devs \in [Side -> [Slot -> Device]]
  BY DEF TypeOK
<1>2. m \in Msg /\ n \in 1 .. MaxSlot + 1 /\ m.who \in Thread \cup {None}
  BY <1>1 DEF Msg
<1>3. CASE /\ Done("guest") /\ UNCHANGED <<next, devs, rep, reqInUse, outId, irq>>
  <2>1. Handled("guest") /\ req'["guest"] = req["guest"]
    BY <1>1, <1>3, DoneFacts DEF Handled, QueueType
  <2>. QED
    BY <1>1, <1>3, <2>1 DEF SlotType, HostFollows
<1>4. CASE /\ next' \in {next, [next EXCEPT !["guest"] = n + 1]}
           /\ next'["guest"] <= MaxSlot + 1
           /\ \E k \in 1 .. 2 : Answer("guest", m, TRUE, k)
           /\ UNCHANGED devs
  <2>1. Handled("guest") /\ req'["guest"] = req["guest"]
    <3>1. PICK k \in 1 .. 2 : Answer("guest", m, TRUE, k)
      BY <1>4
    <3>2. k \in Nat /\ m.id = req[Peer("guest")].id
      BY SideFacts
    <3>. QED
      BY <1>2, <3>1, <3>2, AnswerStep
  <2>2. SlotType' /\ next'["guest"] >= next["guest"] /\ next'["host"] = next["host"]
    <3>1. CASE next' = next
      BY <1>1, <1>2, <1>4, <3>1 DEF SlotType
    <3>2. CASE next' = [next EXCEPT !["guest"] = n + 1]
      BY <1>1, <1>2, <1>4, <3>2 DEF SlotType
    <3>. QED
      BY <1>4, <3>1, <3>2
  <2>3. req["guest"].lcp \in Slot \cup {0}
    BY <1>1 DEF Msg
  <2>. QED
    BY <1>1, <2>1, <2>2, <2>3 DEF SlotType, HostFollows, Slot
<1>5. CASE /\ n <= MaxSlot /\ ~reqInUse["guest"]
           /\ next' = [next EXCEPT !["guest"] = n + 1]
           /\ devs' = [devs EXCEPT !["guest"][n] = NewDevice("ok")]
           /\ req' = [req EXCEPT !["guest"] = NewRequest("guest", "ADD_REQ", n, 0, m.who),
                                 !["host"].type = "NULL"]
           /\ TakeHalf("guest")
           /\ Respond("guest", m, FALSE)
  <2>. DEFINE r == NewRequest("guest", "ADD_REQ", n, 0, m.who)
  <2>1. n \in Slot
    BY <1>2, <1>5 DEF Slot
  <2>2. r \in Msg /\ r.type = "ADD_REQ" /\ r.id = outId["guest"] /\ r.lcp = n
    BY <1>1, <1>2, <2>1 DEF NewRequest, Msg, MsgType
  <2>3. [m EXCEPT !.type = "NULL"] \in Msg /\ [m EXCEPT !.type = "NULL"].type = "NULL"
        /\ [m EXCEPT !.type = "NULL"].id = m.id
    BY <1>2 DEF Msg, MsgType
  <2>4. /\ req' \in [Side -> Msg] /\ req'["guest"] = r
        /\ req'["host"] = [m EXCEPT !.type = "NULL"]
    <3>. HIDE DEF r
    <3>1. req' = [req EXCEPT !["guest"] = r, !["host"] = [m EXCEPT !.type = "NULL"]]
      BY <1>1, <1>5 DEF r
    <3>. QED
      BY <1>1, <2>2, <2>3, <3>1
  <2>5. [m EXCEPT !.err = FALSE] \in Msg /\ [m EXCEPT !.err = FALSE].id = m.id
    BY <1>2 DEF Msg
  <2>6. rep' \in [Side -> Msg] /\ rep'["guest"].id = m.id /\ rep'["host"] = rep["host"]
    BY <1>1, <1>5, <2>5 DEF Respond
  <2>7. /\ outId' = [outId EXCEPT !["guest"] = @ + 1] /\ reqInUse' = [reqInUse EXCEPT !["guest"] = TRUE]
        /\ irq' \in [Side -> BOOLEAN]
    BY <1>1, <1>5 DEF TakeHalf, Signal
  <2>8. Handled("guest")
    <3>. HIDE DEF r, m
    <3>1. QueueType'
      BY <1>1, <2>4, <2>6, <2>7 DEF QueueType
    <3>2. /\ ~reqInUse["guest"] /\ reqInUse'["guest"] /\ req'["guest"].id = outId["guest"]
          /\ outId'["guest"] = outId["guest"] + 1
      BY <1>1, <1>5, <2>2, <2>4, <2>7
    <3>3. /\ req'["host"].type = "NULL" /\ req'["host"].id = m.id /\ rep'["guest"].id = m.id
          /\ outId'["host"] = outId["host"] /\ reqInUse'["host"] = reqInUse["host"]
      BY <1>1, <2>3, <2>4, <2>6, <2>7
    <3>. QED
      BY <2>6, <3>1, <3>2, <3>3 DEF Handled, m
  <2>9. SlotType'
    BY <1>1, <1>2, <1>5, <2>1, DeviceFacts DEF SlotType
  <2>10. HostFollows'
    BY <1>1, <1>2, <1>5, <2>2, <2>4 DEF HostFollows
  <2>. QED
    BY <2>8, <2>9, <2>10
<1>. QED
  BY <1>3, <1>4, <1>5 DEF AddDevice

LEMMA ConnectDeviceStep ==
  ASSUME LinkInv, req["guest"].type = "ADD_REQ", ConnectDevice(req["guest"])
  PROVE  /\ Handled("host") /\ SlotType' /\ HostFollows'
         /\ cookie' \in [Thread -> {"none", "open", "done", "failed"}]
<1>. USE SideFacts, DeviceAssumption DEF LinkInv
<1>. DEFINE m == req["guest"]
            n == next["host"]
<1>1. /\ req \in [Side -> Msg] /\ cookie \in [Thread -> {"none", "open", "done", "failed"}]
      /\ next \in [Side -> 1 .. MaxSlot + 1] /\ devs \in [Side -> [Slot -> Device]]
  BY DEF TypeOK
<1>2. m \in Msg /\ n \in 1 .. MaxSlot + 1 /\ next["guest"] \in 1 .. MaxSlot + 1
  BY <1>1
<1>3. m.lcp \in Slot /\ n <= m.lcp /\ m.lcp < next["guest"] /\ n \in Slot
  BY <1>2 DEF HostFollows, Slot, Msg
<1>4. CASE /\ next' \in {next, [next EXCEPT !["host"] = n + 1]}
           /\ next'["host"] <= MaxSlot + 1
           /\ \E k \in 1 .. 2 : Answer("host", m, TRUE, k)
           /\ Finish(m.who, "failed")
           /\ UNCHANGED devs
  <2>1. Handled("host")
    <3>1. PICK k \in 1 .. 2 : Answer("host", m, TRUE, k)
      BY <1>4
    <3>2. k \in Nat /\ m.id = req[Peer("host")].id
      BY SideFacts
    <3>. QED
      BY <1>2, <3>1, <3>2, AnswerStep
  <2>2. SlotType' /\ next'["host"] <= next'["guest"]
    <3>1. CASE next' = next
      BY <1>1, <1>4, <3>1 DEF SlotType, HostFollows
    <3>2. CASE next' = [next EXCEPT !["host"] = n + 1]
      BY <1>1, <1>2, <1>3, <1>4, <3>2 DEF SlotType, Slot
    <3>. QED
      BY <1>4, <3>1, <3>2
  <2>3. cookie' \in [Thread -> {"none", "open", "done", "failed"}]
    BY <1>1, <1>4 DEF Finish
  <2>. QED
    BY <2>1, <2>2, <2>3 DEF Handled, HostFollows
<1>5. CASE /\ next' = [next EXCEPT !["host"] = n + 1]
           /\ devs' = [devs EXCEPT !["host"][n] = [NewDevice("ok") EXCEPT !.remote = m.lcp]]
           /\ Answer("host", [m EXCEPT !.rcp = n], FALSE, 2)
           /\ Finish(m.who, "done")
  <2>1. [m EXCEPT !.rcp = n] \in Msg /\ [m EXCEPT !.rcp = n].id = m.id
    BY <1>2, <1>3 DEF Msg
  <2>2. Handled("host")
    <3>. HIDE DEF m, n
    <3>. QED
      BY <1>5, <2>1, AnswerStep DEF m
  <2>3. SlotType' /\ next'["host"] <= next'["guest"]
    BY <1>1, <1>2, <1>3, <1>5, DeviceFacts DEF SlotType, Slot
  <2>4. cookie' \in [Thread -> {"none", "open", "done", "failed"}]
    BY <1>1, <1>5 DEF Finish
  <2>. QED
    BY <2>2, <2>3, <2>4 DEF Handled, HostFollows
<1>. QED
  BY <1>4, <1>5 DEF ConnectDevice

LEMMA RequestStep ==
  ASSUME LinkInv, NEW s \in Side, RequestHandler(s, req[Peer(s)])
  PROVE  /\ Handled(s) /\ SlotType' /\ HostFollows'
         /\ shutdown' \in [Side -> BOOLEAN]
         /\ cookie' \in [Thread -> {"none", "open", "done", "failed"}]
<1>. USE SideFacts, DeviceAssumption DEF LinkInv
<1>. DEFINE m == req[Peer(s)]
<1>1. /\ req \in [Side -> Msg] /\ cookie \in [Thread -> {"none", "open", "done", "failed"}]
      /\ next \in [Side -> 1 .. MaxSlot + 1] /\ devs \in [Side -> [Slot -> Device]]
      /\ shutdown \in [Side -> BOOLEAN]
  BY DEF TypeOK
<1>2. m \in Msg
  BY <1>1
<1>3. ASSUME NEW err \in BOOLEAN, Answer(s, m, err, 2), next' = next
      PROVE  Handled(s) /\ HostFollows'
  <2>1. Handled(s) /\ req'[s] = req[s] /\ req'[Peer(s)].type = "NULL"
    BY <1>2, <1>3, AnswerStep DEF Handled
  <2>2. req'["guest"].type = "NULL" \/ req'["guest"] = req["guest"]
    BY <2>1
  <2>. QED
    BY <1>3, <2>1, <2>2 DEF HostFollows
<1>4. CASE m.type = "REQ_ADD" /\ s = "guest" /\ AddDevice(m) /\ UNCHANGED <<shutdown, cookie>>
  BY <1>1, <1>4, AddDeviceStep
<1>5. CASE m.type = "ADD_REQ" /\ s = "host" /\ ConnectDevice(m) /\ UNCHANGED shutdown
  BY <1>1, <1>5, ConnectDeviceStep
<1>6. CASE m.type = "REMOVE" /\ Unplug(s, m) /\ UNCHANGED <<shutdown, cookie>>
  <2>1. \E err \in BOOLEAN : Answer(s, m, err, 2)
    BY <1>6 DEF Unplug
  <2>2. next' = next
    BY <1>6 DEF Unplug
  <2>3. devs' \in [Side -> [Slot -> Device]]
    <3>. HIDE DEF m
    <3>2. \/ devs' = devs
          \/ /\ m.rcp \in Slot
             /\ \/ devs' = [devs EXCEPT ![s][m.rcp].state = "freed"]
                \/ devs' = [devs EXCEPT ![s][m.rcp].closing = TRUE]
      BY <1>6 DEF Unplug, Live
    <3>3. m.rcp \in Slot =>
            /\ [devs EXCEPT ![s][m.rcp].state = "freed"] \in [Side -> [Slot -> Device]]
            /\ [devs EXCEPT ![s][m.rcp].closing = TRUE] \in [Side -> [Slot -> Device]]
      BY <1>1, DevUpdate
    <3>. QED
      BY <1>1, <3>2, <3>3
  <2>. QED
    BY <1>1, <1>3, <1>6, <2>1, <2>2, <2>3 DEF SlotType
<1>7. CASE /\ m.type = "BUS_CLOSING"
           /\ shutdown' = [shutdown EXCEPT ![s] = TRUE]
           /\ Answer(s, m, FALSE, 2)
           /\ UNCHANGED <<next, devs, cookie>>
  BY <1>1, <1>3, <1>7 DEF SlotType
<1>. QED
  BY <1>4, <1>5, <1>6, <1>7 DEF RequestHandler

LEMMA ParseRequestStep ==
  ASSUME LinkInv, NEW s \in Side, ParseRequest(s)
  PROVE  LinkInv'
<1>. USE SideFacts DEF LinkInv
<1>1. inId \in [Side -> Nat] /\ req \in [Side -> Msg]
  BY DEF TypeOK
<1>2. /\ parsing' \in [Side -> BOOLEAN] /\ inId' \in [Side -> Nat]
      /\ UNCHANGED <<history, pc, slot>>
  BY <1>1 DEF ParseRequest, TypeOK
<1>3. CASE Fresh(s) /\ req[Peer(s)].type # "NULL"
  <2>1. /\ Handled(s) /\ SlotType' /\ HostFollows'
        /\ shutdown' \in [Side -> BOOLEAN]
        /\ cookie' \in [Thread -> {"none", "open", "done", "failed"}]
    BY <1>3, RequestStep DEF ParseRequest
  <2>2. Handles(s)
    BY <1>1, <1>3, <2>1 DEF Handled, Handles, ParseRequest, Fresh
  <2>3. StrictLink' /\ IdsAhead'
    BY <2>2, HandleStep
  <2>4. TypeOK'
    BY <1>2, <2>1 DEF TypeOK, Handled, QueueType, SlotType, history
  <2>. QED
    BY <2>1, <2>3, <2>4
<1>4. CASE ~(Fresh(s) /\ req[Peer(s)].type # "NULL")
  <2>1. UNCHANGED <<next, devs, req, rep, reqInUse, outId, irq, shutdown, cookie>>
    BY <1>4 DEF ParseRequest
  <2>2. req[Peer(s)].type # "NULL" => Fresh(s)
    BY DEF StrictLink, Fresh
  <2>3. req[Peer(s)].type = "NULL"
    BY <1>4, <2>2
  <2>4. TypeOK'
    BY <1>2, <2>1 DEF TypeOK, history
  <2>5. inId'[s] \in Nat /\ inId'[s] < outId[Peer(s)] /\ inId'[Peer(s)] = inId[Peer(s)]
    BY <1>1 DEF ParseRequest, Fresh, IdsAhead, TypeOK, Msg
  <2>6. StrictLink' /\ IdsAhead'
    BY <2>1, <2>3, <2>5 DEF StrictLink, IdsAhead
  <2>. QED
    BY <2>1, <2>4, <2>6 DEF HostFollows
<1>. QED
  BY <1>3, <1>4

LEMMA ParseReplyStep ==
  ASSUME LinkInv, NEW s \in Side, ParseReply(s)
  PROVE  LinkInv'
<1>. USE SideFacts, DeviceAssumption DEF LinkInv
<1>. DEFINE m == rep[Peer(s)]
<1>1. /\ req \in [Side -> Msg] /\ rep \in [Side -> Msg] /\ irq \in [Side -> BOOLEAN]
      /\ reqInUse \in [Side -> BOOLEAN] /\ devs \in [Side -> [Slot -> Device]]
      /\ cookie \in [Thread -> {"none", "open", "done", "failed"}]
  BY DEF TypeOK
<1>2. m \in Msg
  BY <1>1
<1>3. /\ parsing' \in [Side -> BOOLEAN]
      /\ UNCHANGED <<next, outId, inId, shutdown, taken, down, gave, pc, slot>>
  BY DEF ParseReply, TypeOK
<1>4. StrictLink' /\ IdsAhead'
  BY ReplyStep
<1>5. CASE m.type = "NULL"
  <2>1. /\ irq' \in [Side -> BOOLEAN]
        /\ UNCHANGED <<devs, cookie, req, rep, reqInUse, alone>>
    BY <1>1, <1>5 DEF ParseReply
  <2>. QED
    BY <1>3, <1>4, <2>1 DEF TypeOK, HostFollows
<1>6. CASE m.type # "NULL"
  <2>1. /\ reqInUse' = [reqInUse EXCEPT ![s] = FALSE]
        /\ req' = [req EXCEPT ![s].type = "NULL"]
        /\ rep' = [rep EXCEPT ![Peer(s)].type = "NULL"]
        /\ ReplyHandler(s, m)
    BY <1>6 DEF ParseReply
  <2>2. req' \in [Side -> Msg] /\ req'[s].type = "NULL" /\ req'[Peer(s)] = req[Peer(s)]
    <3>0. req[s] \in Msg
      BY <1>1
    <3>1. [req[s] EXCEPT !.type = "NULL"] \in Msg
      BY <3>0 DEF Msg, MsgType
    <3>2. req' = [req EXCEPT ![s] = [req[s] EXCEPT !.type = "NULL"]]
      BY <1>1, <2>1
    <3>. QED
      BY <1>1, <3>1, <3>2 DEF Msg
  <2>3. rep' \in [Side -> Msg]
    <3>1. [m EXCEPT !.type = "NULL"] \in Msg
      BY <1>2 DEF Msg, MsgType
    <3>2. rep' = [rep EXCEPT ![Peer(s)] = [m EXCEPT !.type = "NULL"]]
      BY <1>1, <2>1
    <3>. QED
      BY <1>1, <3>1, <3>2
  <2>4. devs' \in [Side -> [Slot -> Device]]
    <3>. HIDE DEF m
    <3>1. \/ devs' = devs
          \/ m.lcp \in Slot /\ devs' = [devs EXCEPT ![s][m.lcp] = Completed(devs[s][m.lcp], m)]
          \/ m.rcp \in Slot /\ devs' = [devs EXCEPT ![s][m.rcp] = Unplugged(devs[s][m.rcp], m)]
      BY <1>1, <2>1 DEF ReplyHandler, Live
    <3>2. ASSUME NEW d \in Device PROVE Completed(d, m) \in Device /\ Unplugged(d, m) \in Device
      BY <1>2, <3>2 DEF Completed, Unplugged, Device, Msg
    <3>3. m.lcp \in Slot => [devs EXCEPT ![s][m.lcp] = Completed(devs[s][m.lcp], m)]
                              \in [Side -> [Slot -> Device]]
      BY <1>1, <3>2, DevUpdate
    <3>4. m.rcp \in Slot => [devs EXCEPT ![s][m.rcp] = Unplugged(devs[s][m.rcp], m)]
                              \in [Side -> [Slot -> Device]]
      BY <1>1, <3>2, DevUpdate
    <3>. QED
      BY <1>1, <3>1, <3>3, <3>4
  <2>5. cookie' \in [Thread -> {"none", "open", "done", "failed"}]
    BY <1>1, <2>1 DEF ReplyHandler
  <2>6. irq' \in [Side -> BOOLEAN]
    BY <1>1, <2>1 DEF ReplyHandler
  <2>7. alone' \subseteq Slot \cup {0}
    BY <1>2, <2>1 DEF ReplyHandler, Msg, TypeOK
  <2>8. TypeOK'
    BY <1>1, <1>3, <2>1, <2>2, <2>3, <2>4, <2>5, <2>6, <2>7 DEF TypeOK
  <2>9. HostFollows'
    <3>1. req'["guest"].type = "NULL" \/ req'["guest"] = req["guest"]
      BY <2>2
    <3>. QED
      BY <1>3, <3>1 DEF HostFollows
  <2>. QED
    BY <1>4, <2>8, <2>9
<1>. QED
  BY <1>5, <1>6

-----------------------------------------------------------------------------
(* The calls of the threads *)

LEMMA SendFacts ==
  ASSUME LinkInv, NEW t \in Thread, NEW type \in MsgType \ {"NULL"},
         NEW lcp \in Slot \cup {0}, NEW rcp \in Slot \cup {0},
         Send(t, type, lcp, rcp), UNCHANGED <<rep, inId>>
  PROVE  /\ StrictLink' /\ IdsAhead' /\ QueueType'
         /\ \/ req' = req
            \/ ~reqInUse[Home[t]] /\ req' = [req EXCEPT ![Home[t]] = NewRequest(Home[t], type, lcp, rcp, t)]
<1>. USE SideFacts, DeviceAssumption DEF LinkInv
<1>. DEFINE s == Home[t]
            m == NewRequest(s, type, lcp, rcp, t)
<1>1. /\ req \in [Side -> Msg] /\ rep \in [Side -> Msg] /\ reqInUse \in [Side -> BOOLEAN]
      /\ outId \in [Side -> Nat] /\ irq \in [Side -> BOOLEAN]
  BY DEF TypeOK
<1>2. s \in Side
  OBVIOUS
<1>3. CASE reqInUse[s]
  <2>1. UNCHANGED <<req, reqInUse, outId, irq>>
    BY <1>3 DEF Send
  <2>2. StrictLink' /\ IdsAhead'
    BY <2>1, QuietStep DEF Quiet
  <2>. QED
    BY <1>1, <2>1, <2>2 DEF QueueType
<1>4. CASE ~reqInUse[s]
  <2>1. req' = [req EXCEPT ![s] = m] /\ TakeHalf(s)
    BY <1>4 DEF Send
  <2>2. m \in Msg /\ m.type = type /\ m.id = outId[s]
    BY <1>1, <1>2 DEF NewRequest, Msg
  <2>3. Sends(s, m)
    BY <1>4, <2>1, <2>2 DEF Sends
  <2>4. StrictLink' /\ IdsAhead'
    BY <1>2, <2>3, SendStep
  <2>5. QueueType'
    <3>. HIDE DEF m
    <3>. QED
      BY <1>1, <1>2, <2>1, <2>2 DEF QueueType, TakeHalf, Signal
  <2>. QED
    BY <1>4, <2>1, <2>4, <2>5
<1>. QED
  BY <1>3, <1>4

\* A request that is not an offer, from a step that gives no slot away.
LEMMA PlainSend ==
  ASSUME LinkInv, NEW t \in Thread, NEW type \in MsgType \ {"NULL", "ADD_REQ"},
         NEW lcp \in Slot \cup {0}, NEW rcp \in Slot \cup {0},
         Send(t, type, lcp, rcp), UNCHANGED <<rep, inId, next>>
  PROVE  StrictLink' /\ IdsAhead' /\ QueueType' /\ HostFollows'
<1>. USE SideFacts, DeviceAssumption DEF LinkInv
<1>. DEFINE m == NewRequest(Home[t], type, lcp, rcp, t)
<1>1. /\ StrictLink' /\ IdsAhead' /\ QueueType'
      /\ req' = req \/ req' = [req EXCEPT ![Home[t]] = m]
  BY SendFacts
<1>2. m.type = type /\ Home[t] \in Side /\ req \in [Side -> Msg]
  BY DEF NewRequest, TypeOK
<1>3. req'["guest"] = req["guest"] \/ req'["guest"].type = type
  <2>. HIDE DEF m
  <2>. QED
    BY <1>1, <1>2
<1>. QED
  BY <1>1, <1>3 DEF HostFollows

\* A step that leaves the queues and the slot counters alone.
LEMMA PlainStep ==
  ASSUME LinkInv, UNCHANGED <<next, queues, inId>>
  PROVE  StrictLink' /\ IdsAhead' /\ HostFollows'
BY QuietStep DEF LinkInv, Quiet, queues, HostFollows

LEMMA DevWrite ==
  ASSUME devs \in [Side -> [Slot -> Device]], NEW s \in Side, NEW n
  PROVE  [devs EXCEPT ![s][n].state = "freed"] \in [Side -> [Slot -> Device]]
<1>1. CASE n \in Slot
  BY <1>1, DevUpdate
<1>2. CASE n \notin Slot
  BY <1>2
<1>. QED
  BY <1>1, <1>2

\* Every field of a device can be written on its own.
LEMMA FieldWrite ==
  ASSUME NEW f \in [Side -> [Slot -> Device]], NEW s \in Side, NEW n \in Slot,
         NEW b \in BOOLEAN, NEW e \in {"none", "CONNECTING", "CONNECTED", "ERROR", "freed"}
  PROVE  /\ [f EXCEPT ![s][n].removed = b] \in [Side -> [Slot -> Device]]
         /\ [f EXCEPT ![s][n].closing = b] \in [Side -> [Slot -> Device]]
         /\ [f EXCEPT ![s][n].inst = b] \in [Side -> [Slot -> Device]]
         /\ [f EXCEPT ![s][n].state = e] \in [Side -> [Slot -> Device]]
<1>1. f[s][n] \in Device
  OBVIOUS
<1>2. /\ [f[s][n] EXCEPT !.removed = b] \in Device
      /\ [f[s][n] EXCEPT !.closing = b] \in Device
      /\ [f[s][n] EXCEPT !.inst = b] \in Device
      /\ [f[s][n] EXCEPT !.state = e] \in Device
  BY <1>1 DEF Device
<1>3. ASSUME NEW d \in Device PROVE [f EXCEPT ![s][n] = d] \in [Side -> [Slot -> Device]]
  BY <1>3
<1>. QED
  BY <1>2, <1>3

\* The list of live devices has a head unless it is empty.
LEMMA HeadFacts ==
  ASSUME NEW s \in Side, \E n \in Slot : Live(s, n)
  PROVE  Head(s) \in Slot /\ Live(s, Head(s))
<1>. USE DeviceAssumption DEF Slot
<1>. DEFINE T == {k \in Nat : \E n \in Slot : Live(s, n) /\ k = MaxSlot - n}
            R == OpToRel(<, Nat)
<1>1. T # {} /\ T \subseteq Nat
  <2>1. PICK n \in Slot : Live(s, n)
    OBVIOUS
  <2>2. MaxSlot - n \in T
    BY <2>1
  <2>. QED
    BY <2>2
<1>2. R = {ss \in Nat \X Nat : ss[1] < ss[2]}
  BY DEF OpToRel
<1>3. PICK k \in T : \A j \in T : ~(<<j, k>> \in R)
  <2>1. IsWellFoundedOn(R, Nat)
    BY NatLessThanWellFounded
  <2>. HIDE DEF T, R
  <2>. QED
    BY <1>1, <2>1, WFMin
<1>4. \A j \in T : k <= j
  <2>. HIDE DEF R, T
  <2>. SUFFICES ASSUME NEW j \in T, j < k PROVE FALSE
    BY <1>1
  <2>1. <<j, k>> \in R
    BY <1>1, <1>2
  <2>. QED
    BY <1>3, <2>1
<1>5. PICK n \in Slot : Live(s, n) /\ k = MaxSlot - n
  OBVIOUS
<1>6. \A m \in Slot : Live(s, m) => m <= n
  BY <1>4, <1>5
<1>. QED
  BY <1>5, <1>6 DEF Head

LEMMA AskStep ==
  ASSUME LinkInv, NEW t \in Thread, Ask(t)
  PROVE  LinkInv'
<1>1. StrictLink' /\ IdsAhead' /\ QueueType' /\ HostFollows'
  BY PlainSend DEF Ask, MsgType
<1>2. cookie' \in [Thread -> {"none", "open", "done", "failed"}]
  BY DEF Ask, LinkInv, TypeOK
<1>3. pc' \in [Thread -> {"idle", "asking", "making", "removing", "signal", "closing",
                          "detach", "unplugging", "spin"}]
  BY DEF Ask, LinkInv, TypeOK
<1>4. TypeOK'
  BY <1>1, <1>2, <1>3 DEF Ask, LinkInv, TypeOK, QueueType, history
<1>. QED
  BY <1>1, <1>4 DEF LinkInv

LEMMA MakeStep ==
  ASSUME LinkInv, NEW t \in Thread, Make(t)
  PROVE  LinkInv'
<1>. USE SideFacts, DeviceAssumption DEF LinkInv
<1>. DEFINE n == next["guest"]
<1>1. /\ next \in [Side -> 1 .. MaxSlot + 1] /\ devs \in [Side -> [Slot -> Device]]
      /\ req \in [Side -> Msg] /\ slot \in [Thread -> Slot \cup {0}]
  BY DEF TypeOK
<1>2. n \in Slot /\ next' = [next EXCEPT !["guest"] = n + 1] /\ Home[t] = "guest"
      /\ UNCHANGED <<rep, inId, parsing, shutdown, history, cookie>>
  BY <1>1 DEF Make, Slot
<1>3. next' \in [Side -> 1 .. MaxSlot + 1] /\ next'["host"] = next["host"] /\ next'["guest"] = n + 1
  BY <1>1, <1>2 DEF Slot
<1>4. n \in Nat /\ next["host"] \in Nat /\ next["host"] <= n
      /\ (req["guest"].type = "ADD_REQ" => req["guest"].lcp \in Nat)
  BY <1>1, <1>2 DEF HostFollows, Slot, Msg
<1>5. CASE UNCHANGED <<devs, req, reqInUse, outId, irq, pc, slot>>
  <2>1. StrictLink' /\ IdsAhead'
    BY <1>2, <1>5, QuietStep DEF Quiet
  <2>2. HostFollows'
    BY <1>3, <1>4, <1>5 DEF HostFollows
  <2>3. TypeOK'
    BY <1>2, <1>3, <1>5 DEF TypeOK, history
  <2>. QED
    BY <2>1, <2>2, <2>3
<1>6. CASE /\ ~reqInUse["guest"]
           /\ devs' = [devs EXCEPT !["guest"][n] = NewDevice("waiting")]
           /\ Send(t, "ADD_REQ", n, 0)
           /\ slot' = [slot EXCEPT ![t] = n]
           /\ pc' = [pc EXCEPT ![t] = "making"]
  <2>. DEFINE m == NewRequest("guest", "ADD_REQ", n, 0, t)
  <2>1. StrictLink' /\ IdsAhead' /\ QueueType'
    BY <1>2, <1>6, SendFacts DEF MsgType
  <2>2. req' = [req EXCEPT !["guest"] = m]
    BY <1>2, <1>6 DEF Send
  <2>3. m.lcp = n
    BY DEF NewRequest
  <2>4. HostFollows'
    <3>1. req'["guest"].lcp = n
      BY <1>1, <2>2, <2>3
    <3>. QED
      BY <1>3, <1>4, <3>1 DEF HostFollows
  <2>5. devs' \in [Side -> [Slot -> Device]] /\ slot' \in [Thread -> Slot \cup {0}]
    BY <1>1, <1>2, <1>6, DeviceFacts
  <2>6. pc' \in [Thread -> {"idle", "asking", "making", "removing", "signal", "closing",
                            "detach", "unplugging", "spin"}]
    BY <1>6 DEF TypeOK
  <2>7. TypeOK'
    BY <1>2, <1>3, <2>1, <2>5, <2>6 DEF TypeOK, QueueType, history
  <2>. QED
    BY <2>1, <2>4, <2>7
<1>. QED
  BY <1>5, <1>6 DEF Make

LEMMA RemoveStep ==
  ASSUME LinkInv, NEW t \in Thread, NEW n \in Slot, NEW then \in {"removing", "unplugging"},
         SignalRemoteClose(t, n, then)
  PROVE  LinkInv'
<1>. USE SideFacts, DeviceAssumption DEF LinkInv
<1>. DEFINE s == Home[t]
<1>1. devs \in [Side -> [Slot -> Device]] /\ slot \in [Thread -> Slot \cup {0}] /\ s \in Side
  BY DEF TypeOK
<1>2. devs[s][n] \in Device
  BY <1>1
<1>3. devs[s][n].remote \in Slot \cup {0}
  BY <1>2 DEF Device
<1>4. StrictLink' /\ IdsAhead' /\ QueueType' /\ HostFollows'
  BY <1>3, PlainSend DEF SignalRemoteClose, MsgType
<1>5. devs' \in [Side -> [Slot -> Device]]
  <2>. DEFINE e == IF s = "host" THEN "ERROR" ELSE devs[s][n].state
              f1 == [devs EXCEPT ![s][n].removed = FALSE]
              f2 == [f1 EXCEPT ![s][n].closing = (s = "host")]
              f3 == [f2 EXCEPT ![s][n].inst = (s = "guest")]
              f4 == [f3 EXCEPT ![s][n].state = e]
  <2>1. devs' = f4
    BY DEF SignalRemoteClose
  <2>. HIDE DEF f1, f2, f3, e
  <2>2. f1 \in [Side -> [Slot -> Device]]
    BY <1>1, FieldWrite DEF f1
  <2>3. f2 \in [Side -> [Slot -> Device]]
    BY <1>1, <2>2, FieldWrite DEF f2
  <2>4. f3 \in [Side -> [Slot -> Device]]
    BY <1>1, <2>3, FieldWrite DEF f3
  <2>5. e \in {"none", "CONNECTING", "CONNECTED", "ERROR", "freed"}
    BY <1>2 DEF e, Device
  <2>6. f4 \in [Side -> [Slot -> Device]]
    BY <1>1, <2>4, <2>5, FieldWrite
  <2>. QED
    BY <2>1, <2>6
<1>6. slot' \in [Thread -> Slot \cup {0}]
      /\ pc' \in [Thread -> {"idle", "asking", "making", "removing", "signal", "closing",
                              "detach", "unplugging", "spin"}]
  BY DEF SignalRemoteClose, TypeOK
<1>7. /\ UNCHANGED <<next, rep, inId, parsing, shutdown, taken, down, gave, cookie>>
      /\ alone' \subseteq Slot \cup {0}
  BY DEF SignalRemoteClose, TypeOK
<1>8. TypeOK'
  BY <1>4, <1>5, <1>6, <1>7 DEF TypeOK, QueueType, history
<1>. QED
  BY <1>4, <1>8

LEMMA CallStep ==
  ASSUME LinkInv, NEW t \in Thread, Begin(t) \/ TakeDown(t)
  PROVE  LinkInv'
<1>. USE DeviceAssumption DEF LinkInv
<1>1. CASE \E n \in Slot : Remove(t, n)
  BY <1>1, RemoveStep DEF Remove
<1>2. CASE \E n \in Slot : RemoveFails(t, n)
  <2>1. PICK n \in Slot : RemoveFails(t, n)
    BY <1>2
  <2>2. devs' \in [Side -> [Slot -> Device]]
    BY <2>1, DevUpdate, SideFacts DEF RemoveFails, TypeOK
  <2>3. UNCHANGED <<next, queues, inId, irq, parsing, shutdown, history, threads>>
    BY <2>1 DEF RemoveFails
  <2>4. TypeOK'
    BY <2>2, <2>3 DEF TypeOK, queues, threads, history
  <2>. QED
    BY <2>3, <2>4, PlainStep
<1>3. CASE TakeDown(t)
  <2>1. UNCHANGED <<next, devs, queues, inId, irq, parsing, down, gave, alone, slot, cookie>>
    BY <1>3 DEF TakeDown
  <2>2. taken' \in [Side -> BOOLEAN] /\ shutdown' \in [Side -> BOOLEAN]
    BY <1>3 DEF TakeDown, TypeOK
  <2>3. pc' \in [Thread -> {"idle", "asking", "making", "removing", "signal", "closing",
                            "detach", "unplugging", "spin"}]
    BY <1>3 DEF TakeDown, TypeOK
  <2>4. TypeOK'
    BY <2>1, <2>2, <2>3 DEF TypeOK, queues, history
  <2>. QED
    BY <2>1, <2>4, PlainStep
<1>. QED
  BY <1>1, <1>2, <1>3, AskStep, MakeStep DEF Begin

LEMMA EndStep ==
  ASSUME LinkInv, NEW t \in Thread, End(t)
  PROVE  LinkInv'
<1>. USE DeviceAssumption DEF LinkInv
<1>. DEFINE PC == {"idle", "asking", "making", "removing", "signal", "closing",
                   "detach", "unplugging", "spin"}
<1>1. /\ devs \in [Side -> [Slot -> Device]] /\ slot \in [Thread -> Slot \cup {0}]
      /\ cookie \in [Thread -> {"none", "open", "done", "failed"}] /\ pc \in [Thread -> PC]
      /\ down \in [Side -> BOOLEAN] /\ Home[t] \in Side
  BY DEF TypeOK
<1>2. CASE WaitEnds(t)
  <2>1. /\ UNCHANGED <<next, devs, queues, inId, irq, parsing, shutdown, taken, down, alone, slot>>
        /\ pc' \in [Thread -> PC] /\ cookie' \in [Thread -> {"none", "open", "done", "failed"}]
        /\ gave' \subseteq Thread
    BY <1>1, <1>2 DEF WaitEnds, TypeOK
  <2>2. TypeOK'
    BY <2>1 DEF TypeOK, queues, history
  <2>. QED
    BY <2>1, <2>2, PlainStep
<1>3. CASE MakeEnds(t)
  <2>1. /\ UNCHANGED <<next, queues, inId, irq, parsing, shutdown, taken, down, gave, cookie>>
        /\ pc' \in [Thread -> PC] /\ slot' \in [Thread -> Slot \cup {0}]
        /\ alone' \subseteq Slot \cup {0}
    BY <1>1, <1>3 DEF MakeEnds, TypeOK
  <2>2. devs' \in [Side -> [Slot -> Device]]
    BY <1>1, <1>3, DevWrite, SideFacts DEF MakeEnds
  <2>3. TypeOK'
    BY <2>1, <2>2 DEF TypeOK, queues, history
  <2>. QED
    BY <2>1, <2>3, PlainStep
<1>4. CASE RemoveEnds(t)
  <2>1. /\ UNCHANGED <<next, queues, inId, irq, parsing, shutdown, taken, down, gave, cookie>>
        /\ pc' \in [Thread -> PC] /\ slot' \in [Thread -> Slot \cup {0}]
        /\ alone' \subseteq Slot \cup {0}
    BY <1>1, <1>4 DEF RemoveEnds, TypeOK
  <2>2. devs' \in [Side -> [Slot -> Device]]
    BY <1>1, <1>4, DevWrite DEF RemoveEnds
  <2>3. TypeOK'
    BY <2>1, <2>2 DEF TypeOK, queues, history
  <2>. QED
    BY <2>1, <2>3, PlainStep
<1>5. CASE SignalClosing(t)
  <2>1. StrictLink' /\ IdsAhead' /\ QueueType' /\ HostFollows'
    BY <1>5, PlainSend DEF SignalClosing, MsgType
  <2>2. /\ UNCHANGED <<next, devs, rep, inId, parsing, shutdown, history, slot>>
        /\ pc' \in [Thread -> PC] /\ cookie' \in [Thread -> {"none", "open", "done", "failed"}]
    BY <1>1, <1>5 DEF SignalClosing
  <2>3. TypeOK'
    BY <2>1, <2>2 DEF TypeOK, QueueType, history
  <2>. QED
    BY <2>1, <2>3
<1>6. CASE UnplugDone(t)
  <2>1. /\ UNCHANGED <<next, queues, inId, irq, parsing, shutdown, taken, gave, alone, slot, cookie>>
        /\ pc' \in [Thread -> PC] /\ down' \in [Side -> BOOLEAN]
    BY <1>1, <1>6 DEF UnplugDone
  <2>2. ASSUME NEW d \in Device PROVE [d EXCEPT !.closing = TRUE] \in Device
    BY <2>2 DEF Device
  <2>3. devs' \in [Side -> [Slot -> Device]]
    BY <1>1, <1>6, <2>2 DEF UnplugDone
  <2>4. TypeOK'
    BY <2>1, <2>3 DEF TypeOK, queues, history
  <2>. QED
    BY <2>1, <2>4, PlainStep
<1>7. CASE UnplugNext(t)
  <2>1. Head(Home[t]) \in Slot
    BY <1>1, <1>7, HeadFacts DEF UnplugNext
  <2>. QED
    BY <1>7, <2>1, RemoveStep DEF UnplugNext
<1>8. CASE UnplugSpins(t)
  <2>1. /\ UNCHANGED <<next, devs, queues, inId, irq, parsing, shutdown, history, slot, cookie>>
        /\ pc' \in [Thread -> PC]
    BY <1>1, <1>8 DEF UnplugSpins
  <2>2. TypeOK'
    BY <2>1 DEF TypeOK, queues, history
  <2>. QED
    BY <2>1, <2>2, PlainStep
<1>. QED
  BY <1>2, <1>3, <1>4, <1>5, <1>6, <1>7, <1>8 DEF End

LEMMA LinkStep == LinkInv /\ [Next]_vars => LinkInv'
<1>. SUFFICES ASSUME LinkInv, [Next]_vars PROVE LinkInv'
  OBVIOUS
<1>1. CASE \E t \in User : Begin(t)
  BY <1>1, CallStep DEF Thread
<1>2. CASE \E t \in Card : TakeDown(t)
  BY <1>2, CallStep DEF Thread
<1>3. CASE \E t \in Thread : End(t)
  BY <1>3, EndStep
<1>4. CASE \E s \in Side : Parse(s)
  BY <1>4, ParseReplyStep, ParseRequestStep DEF Parse
<1>5. CASE UNCHANGED vars
  BY <1>5 DEF vars, queues, threads, history, LinkInv, TypeOK, StrictLink, IdsAhead, HostFollows
<1>. QED
  BY <1>1, <1>2, <1>3, <1>4, <1>5 DEF Next

\* The state of vxtcom_create_dev, vxtcom_destroy_dev and the parser keeps its
\* types, in particular slots never run past the end of the table: the host
\* gives one away only for an offer of the guest that is still to be answered.
THEOREM DeviceTypes == Spec => []TypeOK
<1>1. LinkInv => TypeOK
  BY DEF LinkInv
<1>. QED
  BY LinkInit, LinkStep, <1>1, PTL DEF Spec

\* The synchronisation of vxtcom_parse_config_msg holds between any number of
\* threads, however early their waits end: no request is overwritten before its
\* reply was handled, a reply answers the request that waits, and no request is
\* passed over as an old one.
THEOREM StrictLinkAlways == Spec => []StrictLink
<1>1. LinkInv => StrictLink
  BY DEF LinkInv
<1>. QED
  BY LinkInit, LinkStep, <1>1, PTL DEF Spec

=============================================================================
