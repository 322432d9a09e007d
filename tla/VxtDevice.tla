----------------------------- MODULE VxtDevice -----------------------------
(***************************************************************************)
(* Creating and removing devices over the configuration queues of a pair   *)
(* of controllers: vxt_com.c (vxtcom_create_dev, vxtcom_destroy_dev,       *)
(* vxtcom_parse_config_msg), the messages of vxtcfg_msgs.c and the message *)
(* device of vxt_msg_dev.c.                                                *)
(*                                                                         *)
(* The guest offers the shared pages and is the origin of every device;    *)
(* the host (indirect_create) asks it to create one.  Each side has a      *)
(* request half and a reply half in shared memory.  config_mutex makes a   *)
(* call, up to where it sleeps, and each half of a parse, one step; what a *)
(* step writes to the queues the peer sees together.  request_offset is    *)
(* not zero exactly while request_in_use, and pending_send is folded into  *)
(* the number of signals a step sends.                                     *)
(*                                                                         *)
(* Any wait may end at any time, answered or not: each is interruptible,   *)
(* that of a removal lasts a second and that of a host's create ten.  On a *)
(* 64-bit build most end at once, for the 32-bit flag waited for is cast   *)
(* to long* and read together with what lies behind it: shutting_down,     *)
(* which the host sets before it sleeps (vxt_com.c:1416), or the first     *)
(* word of the wait queue (vxt_com.c:2870, 3049).                          *)
(*                                                                         *)
(* The create information of a device is complete: vxtmsg_dev_create fails *)
(* without an answer otherwise.                                            *)
(***************************************************************************)
EXTENDS Integers, FiniteSets

CONSTANTS
  User,     \* threads in vxtcom_create_dev or vxtcom_destroy_dev
  Card,     \* threads of the card drivers, which take a controller down
  Home,     \* the side each of them runs on
  None,     \* no thread
  MaxSlot,  \* bound: devices ever given a slot on one side
  MaxId     \* bound: a call begins only while msg_id of its side is at most this

Side == {"guest", "host"}
Peer(s) == IF s = "guest" THEN "host" ELSE "guest"
Slot == 1 .. MaxSlot
Thread == User \cup Card

ASSUME DeviceAssumption ==
  /\ Home \in [Thread -> Side]
  /\ None \notin Thread
  /\ MaxSlot \in Nat /\ MaxId \in [Side -> Nat]

VARIABLES
  next,      \* vxtcom_slots
  devs,      \* the device in each slot
  req,       \* the request half of outq
  rep,       \* the reply half of outq
  reqInUse,  \* outq_header.request_in_use
  outId,     \* outq_header.msg_id
  inId,      \* inq_header.msg_id
  irq,       \* a signal to this side is pending
  parsing,   \* vxtcom_parse_config_msg is between its two halves
  shutdown,  \* pending_shutdown
  taken,     \* history: the card driver takes this side's controller down
  down,      \* history: and has unplugged its devices
  gave,      \* history: threads that left a wait for their cookie unanswered
  alone,     \* history: the guest's devices whose end was not agreed upon:
             \* a request about it not sent or not waited for, or refused
  pc,        \* where each thread is
  slot,      \* the device it works on
  cookie     \* the wait record it allocated: "none", "open", "done", "failed"

queues == <<req, rep, reqInUse, outId>>
threads == <<pc, slot, cookie>>
history == <<taken, down, gave, alone>>
vars == <<next, devs, queues, inId, irq, parsing, shutdown, history, threads>>

MsgType == {"NULL", "REQ_ADD", "ADD_REQ", "REMOVE", "BUS_CLOSING"}
Msg == [type : MsgType, id : Nat, lcp : Slot \cup {0}, rcp : Slot \cup {0},
        who : Thread \cup {None}, err : BOOLEAN]
NullMsg == [type |-> "NULL", id |-> 0, lcp |-> 0, rcp |-> 0, who |-> None, err |-> FALSE]

\* closing is shutting_down, removed is waiting; made and inst are what the
\* message device knows: its waiting and error, and whether it is in live_devs.
Device == [state : {"none", "CONNECTING", "CONNECTED", "ERROR", "freed"},
           closing : BOOLEAN, removed : BOOLEAN,
           made : {"waiting", "ok", "failed"}, inst : BOOLEAN,
           remote : Slot \cup {0}]
NoDevice == [state |-> "none", closing |-> FALSE, removed |-> FALSE,
             made |-> "waiting", inst |-> FALSE, remote |-> 0]

TypeOK ==
  /\ next \in [Side -> 1 .. MaxSlot + 1]
  /\ devs \in [Side -> [Slot -> Device]]
  /\ req \in [Side -> Msg]
  /\ rep \in [Side -> Msg]
  /\ reqInUse \in [Side -> BOOLEAN]
  /\ outId \in [Side -> Nat]
  /\ inId \in [Side -> Nat]
  /\ irq \in [Side -> BOOLEAN]
  /\ parsing \in [Side -> BOOLEAN]
  /\ shutdown \in [Side -> BOOLEAN]
  /\ taken \in [Side -> BOOLEAN]
  /\ down \in [Side -> BOOLEAN]
  /\ gave \subseteq Thread
  /\ alone \subseteq Slot \cup {0}
  /\ pc \in [Thread -> {"idle", "asking", "making", "removing", "signal", "closing",
                        "detach", "unplugging", "spin"}]
  /\ slot \in [Thread -> Slot \cup {0}]
  /\ cookie \in [Thread -> {"none", "open", "done", "failed"}]

Both(v) == [s \in Side |-> v]

Init ==
  /\ next = Both(1)
  /\ devs = Both([n \in Slot |-> NoDevice])
  /\ req = Both(NullMsg)
  /\ rep = Both(NullMsg)
  /\ reqInUse = Both(FALSE)
  /\ outId = Both(1)
  /\ inId = Both(0)
  /\ irq = Both(FALSE)
  /\ parsing = Both(FALSE)
  /\ shutdown = Both(FALSE)
  /\ taken = Both(FALSE)
  /\ down = Both(FALSE)
  /\ gave = {}
  /\ alone = {}
  /\ pc = [t \in Thread |-> "idle"]
  /\ slot = [t \in Thread |-> 0]
  /\ cookie = [t \in Thread |-> "none"]

Live(s, n) == n \in Slot /\ devs[s][n].state \notin {"none", "freed"}

\* config_mutex is held between the halves of a parse, and for ever by a thread
\* that spins.  vxtcom_ctrlr_shutdown also holds it from one removal to the
\* next; it is free there in the model.
Holds(t) == pc[t] = "spin"
Free(t) == ~parsing[Home[t]] /\ \A u \in Thread \ {t} : Home[u] = Home[t] => ~Holds(u)

-----------------------------------------------------------------------------
(* Writing to the configuration queues *)

Signal(s) == irq' = [irq EXCEPT ![Peer(s)] = TRUE]

NewRequest(s, type, lcp, rcp, who) ==
  [type |-> type, id |-> outId[s], lcp |-> lcp, rcp |-> rcp, who |-> who, err |-> FALSE]

\* Fault: msg_id is not counted up.
TakeHalfFlat(s) ==
  /\ reqInUse' = [reqInUse EXCEPT ![s] = TRUE]
  /\ Signal(s)
  /\ UNCHANGED outId

\* The request half of side s is taken and signalled: a signal sent while it is
\* in use counts msg_id up.
TakeHalf(s) ==
  /\ reqInUse' = [reqInUse EXCEPT ![s] = TRUE]
  /\ outId' = [outId EXCEPT ![s] = @ + 1]
  /\ Signal(s)

\* A thread's request: when the half is in use it is not sent, and its caller
\* goes to sleep all the same.
Send(t, type, lcp, rcp) ==
  LET s == Home[t] IN
  IF reqInUse[s] THEN UNCHANGED <<req, reqInUse, outId, irq>>
  ELSE req' = [req EXCEPT ![s] = NewRequest(s, type, lcp, rcp, t)] /\ TakeHalf(s)

\* vxtcfg_msg_response: the request's header with the outcome.  The parser has
\* just emptied the half.
Respond(s, m, err) == rep' = [rep EXCEPT ![s] = [m EXCEPT !.err = err]]

\* The peer's request is done with.
Done(s) == req' = [req EXCEPT ![Peer(s)].type = "NULL"]

\* A reply and k signals, with no request written.
Answer(s, m, err, k) ==
  /\ Respond(s, m, err)
  /\ Done(s)
  /\ outId' = IF reqInUse[s] THEN [outId EXCEPT ![s] = @ + k] ELSE outId
  /\ Signal(s)
  /\ UNCHANGED reqInUse

-----------------------------------------------------------------------------
(* vxtcom_create_dev *)

\* On the host: ask the guest, and sleep for at most ten seconds.
Ask(t) ==
  /\ pc[t] = "idle" /\ Home[t] = "host" /\ Free(t)
  /\ ~shutdown["host"] /\ outId["host"] <= MaxId["host"]
  /\ cookie' = [cookie EXCEPT ![t] = "open"]
  /\ Send(t, "REQ_ADD", 0, 0)
  /\ pc' = [pc EXCEPT ![t] = "asking"]
  /\ UNCHANGED <<next, devs, rep, inId, parsing, shutdown, history, slot>>

\* The wait ends: the cookie is freed.
WaitEnds(t) ==
  /\ pc[t] \in {"asking", "closing"} /\ Free(t)
  /\ gave' = IF cookie[t] = "open" THEN gave \cup {t} ELSE gave
  /\ pc' = [pc EXCEPT ![t] = IF @ = "asking" THEN "idle" ELSE "detach"]
  /\ cookie' = [cookie EXCEPT ![t] = "none"]
  /\ UNCHANGED <<next, devs, queues, inId, irq, parsing, shutdown, taken, down, alone, slot>>

\* A new device; made says whether a thread waits for it to be connected.
NewDevice(made) ==
  [NoDevice EXCEPT !.state = "CONNECTING", !.inst = TRUE, !.made = made]

\* Fault: the slot is counted again when the device has been created.
MakeCountsTwice(t) ==
  LET n == next["guest"] IN
  /\ pc[t] = "idle" /\ Home[t] = "guest" /\ Free(t)
  /\ ~shutdown["guest"] /\ n <= MaxSlot /\ ~reqInUse["guest"]
  /\ next' = [next EXCEPT !["guest"] = n + 2]
  /\ devs' = [devs EXCEPT !["guest"][n] = NewDevice("waiting")]
  /\ Send(t, "ADD_REQ", n, 0)
  /\ slot' = [slot EXCEPT ![t] = n]
  /\ pc' = [pc EXCEPT ![t] = "making"]
  /\ UNCHANGED <<rep, inId, parsing, shutdown, history, cookie>>

\* On the guest: create the device, send it to the host and sleep.  If the
\* request half is in use, or something else fails, the slot is given back.
Make(t) ==
  LET n == next["guest"] IN
  /\ pc[t] = "idle" /\ Home[t] = "guest" /\ Free(t)
  /\ ~shutdown["guest"] /\ n <= MaxSlot
  /\ next' = [next EXCEPT !["guest"] = n + 1]
  /\ \/ UNCHANGED <<devs, req, reqInUse, outId, irq, pc, slot>>
     \/ /\ ~reqInUse["guest"]
        /\ devs' = [devs EXCEPT !["guest"][n] = NewDevice("waiting")]
        /\ Send(t, "ADD_REQ", n, 0)
        /\ slot' = [slot EXCEPT ![t] = n]
        /\ pc' = [pc EXCEPT ![t] = "making"]
  /\ UNCHANGED <<rep, inId, parsing, shutdown, history, cookie>>

\* The wait ends: the device stays if the host connected it.
MakeEnds(t) ==
  LET d == devs["guest"][slot[t]] IN
  /\ pc[t] = "making" /\ Free(t) /\ d.state # "freed"
  /\ alone' = IF d.made = "waiting" THEN alone \cup {slot[t]} ELSE alone
  /\ devs' = IF d.made = "ok" THEN devs
             ELSE [devs EXCEPT !["guest"][slot[t]].state = "freed"]
  /\ pc' = [pc EXCEPT ![t] = "idle"]
  /\ slot' = [slot EXCEPT ![t] = 0]
  /\ UNCHANGED <<next, queues, inId, irq, parsing, shutdown, taken, down, gave, cookie>>

-----------------------------------------------------------------------------
(* vxtcom_destroy_dev *)

\* Fault: the host, too, tells its peer before it closes its device.
SignalBeforeClose(t, n, then) ==
  LET s == Home[t] IN
  /\ ~devs[s][n].closing /\ devs[s][n].inst
  /\ alone' = IF s = "guest" /\ reqInUse[s] THEN alone \cup {n} ELSE alone
  /\ devs' = [devs EXCEPT ![s][n].removed = FALSE, ![s][n].closing = (s = "host")]
  /\ Send(t, "REMOVE", n, devs[s][n].remote)
  /\ slot' = [slot EXCEPT ![t] = n]
  /\ pc' = [pc EXCEPT ![t] = then]
  /\ UNCHANGED <<next, rep, inId, parsing, shutdown, taken, down, gave, cookie>>

\* vxtcom_remove_device: the origin tells its peer first, and closes the device
\* when it is woken or a second has passed; the host closes its device first.
SignalRemoteClose(t, n, then) ==
  LET s == Home[t] IN
  /\ ~devs[s][n].closing /\ devs[s][n].inst
  /\ alone' = IF s = "guest" /\ reqInUse[s] THEN alone \cup {n} ELSE alone
  /\ devs' = [devs EXCEPT ![s][n].removed = FALSE, ![s][n].closing = (s = "host"),
                          ![s][n].inst = (s = "guest"),
                          ![s][n].state = IF s = "host" THEN "ERROR" ELSE @]
  /\ Send(t, "REMOVE", n, devs[s][n].remote)
  /\ slot' = [slot EXCEPT ![t] = n]
  /\ pc' = [pc EXCEPT ![t] = then]
  /\ UNCHANGED <<next, rep, inId, parsing, shutdown, taken, down, gave, cookie>>

Remove(t, n) ==
  /\ pc[t] = "idle" /\ Free(t) /\ Live(Home[t], n) /\ outId[Home[t]] <= MaxId[Home[t]]
  /\ SignalRemoteClose(t, n, "removing")

\* A device whose message device is gone already: vxtmsg_dev_remove fails and
\* the device stays, marked as shutting down.
RemoveFails(t, n) ==
  /\ pc[t] = "idle" /\ Home[t] = "guest" /\ Free(t) /\ Live("guest", n)
  /\ ~devs["guest"][n].closing /\ ~devs["guest"][n].inst
  /\ devs' = [devs EXCEPT !["guest"][n].closing = TRUE]
  /\ UNCHANGED <<next, queues, inId, irq, parsing, shutdown, history, threads>>

\* The wait ends: the device is closed, unless someone else is closing it, and
\* freed.
RemoveEnds(t) ==
  LET s == Home[t]
      d == devs[s][slot[t]] IN
  /\ pc[t] \in {"removing", "unplugging"} /\ Free(t) /\ d.state # "freed"
  /\ alone' = IF s = "guest" /\ ~d.removed THEN alone \cup {slot[t]} ELSE alone
  /\ devs' = IF s = "guest" /\ d.closing THEN devs
             ELSE [devs EXCEPT ![s][slot[t]].state = "freed"]
  /\ pc' = [pc EXCEPT ![t] = IF @ = "removing" THEN "idle" ELSE "detach"]
  /\ slot' = [slot EXCEPT ![t] = 0]
  /\ UNCHANGED <<next, queues, inId, irq, parsing, shutdown, taken, down, gave, cookie>>

-----------------------------------------------------------------------------
(* The card driver takes the controller of its side down:                  *)
(* vxtcom_bus_disconnect, on the host vxtcom_bus_signal_closing, and       *)
(* vxtcom_bus_unplug_devices                                               *)

\* Fault: new devices are not refused.
TakeDownOpen(t) ==
  /\ pc[t] = "idle" /\ Free(t) /\ ~taken[Home[t]] /\ outId[Home[t]] <= MaxId[Home[t]]
  /\ taken' = [taken EXCEPT ![Home[t]] = TRUE]
  /\ pc' = [pc EXCEPT ![t] = IF Home[t] = "host" THEN "signal" ELSE "detach"]
  /\ UNCHANGED <<next, devs, queues, inId, irq, parsing, shutdown, down, gave, alone, slot, cookie>>

TakeDown(t) ==
  LET s == Home[t] IN
  /\ pc[t] = "idle" /\ Free(t) /\ ~taken[s] /\ outId[s] <= MaxId[s]
  /\ taken' = [taken EXCEPT ![s] = TRUE]
  /\ shutdown' = [shutdown EXCEPT ![s] = TRUE]
  /\ pc' = [pc EXCEPT ![t] = IF s = "host" THEN "signal" ELSE "detach"]
  /\ UNCHANGED <<next, devs, queues, inId, irq, parsing, down, gave, alone, slot, cookie>>

SignalClosing(t) ==
  /\ pc[t] = "signal" /\ Free(t)
  /\ cookie' = [cookie EXCEPT ![t] = "open"]
  /\ Send(t, "BUS_CLOSING", 0, 0)
  /\ pc' = [pc EXCEPT ![t] = "closing"]
  /\ UNCHANGED <<next, devs, rep, inId, parsing, shutdown, history, slot>>

\* The newest device first.
Head(s) == CHOOSE n \in Slot : Live(s, n) /\ \A m \in Slot : Live(s, m) => m <= n

\* vxtcom_ctrlr_shutdown removes one after the other until the list is empty or
\* a removal fails.
UnplugDone(t) ==
  LET s == Home[t] IN
  /\ pc[t] = "detach" /\ Free(t)
  /\ (\E n \in Slot : Live(s, n)) =>
       s = "guest" /\ (devs[s][Head(s)].closing \/ ~devs[s][Head(s)].inst)
  /\ devs' = [n \in Side |-> [m \in Slot |->
                IF n = s /\ Live(s, m) /\ m = Head(s)
                  THEN [devs[n][m] EXCEPT !.closing = TRUE] ELSE devs[n][m]]]
  /\ down' = [down EXCEPT ![s] = TRUE]
  /\ pc' = [pc EXCEPT ![t] = "idle"]
  /\ UNCHANGED <<next, queues, inId, irq, parsing, shutdown, taken, gave, alone, slot, cookie>>

UnplugNext(t) ==
  /\ pc[t] = "detach" /\ Free(t)
  /\ \E n \in Slot : Live(Home[t], n)
  /\ SignalRemoteClose(t, Head(Home[t]), "unplugging")

\* The host is removing the device already: vxtcom_remove_device returns
\* success, the device stays at the head of the list, and so on for ever.
UnplugSpins(t) ==
  /\ pc[t] = "detach" /\ Free(t) /\ Home[t] = "host"
  /\ \E n \in Slot : Live("host", n)
  /\ devs["host"][Head("host")].closing
  /\ pc' = [pc EXCEPT ![t] = "spin"]
  /\ UNCHANGED <<next, devs, queues, inId, irq, parsing, shutdown, history, slot, cookie>>

-----------------------------------------------------------------------------
(* vxtcom_parse_config_msg, first half: the peer's reply *)

\* Device n of side s after m's reply: ADD_REQ completes it, and takes its
\* message device away if nobody waits for it any more.
Completed(d, m) ==
  [d EXCEPT !.state = IF m.err THEN "ERROR" ELSE "CONNECTED",
            !.made = IF m.err THEN "failed" ELSE "ok",
            !.inst = d.inst /\ ~(m.err /\ d.made # "waiting"),
            !.remote = IF m.err THEN d.remote ELSE m.rcp]

\* The reply to REMOVE is looked up by the number of the peer's slot.
Unplugged(d, m) ==
  [d EXCEPT !.state = IF m.err THEN "ERROR" ELSE d.state, !.removed = TRUE]

\* What a reply changes: the device it names, or the thread's cookie.  An
\* error reply to REQ_ADD sets no request_finished.
ReplyHandler(s, m) ==
  /\ devs' = CASE m.type = "ADD_REQ" /\ Live(s, m.lcp) ->
                    [devs EXCEPT ![s][m.lcp] = Completed(@, m)]
               [] m.type = "REMOVE" /\ Live(s, m.rcp) ->
                    [devs EXCEPT ![s][m.rcp] = Unplugged(@, m)]
               [] OTHER -> devs
  /\ cookie' = IF m.type = "BUS_CLOSING" /\ cookie[m.who] # "none"
                 THEN [cookie EXCEPT ![m.who] = "done"] ELSE cookie
  /\ alone' = IF s = "guest" /\ m.type = "REMOVE" /\ m.err THEN alone \cup {m.lcp} ELSE alone
  /\ irq' = [irq EXCEPT ![s] = FALSE, ![Peer(s)] = @ \/ (m.type = "ADD_REQ" /\ m.err)]

\* Fault: the reply is not marked as read.
ParseReplyAgain(s) ==
  LET m == rep[Peer(s)] IN
  /\ irq[s] /\ ~parsing[s]
  /\ \A t \in Thread : Home[t] = s => ~Holds(t)
  /\ parsing' = [parsing EXCEPT ![s] = TRUE]
  /\ IF m.type = "NULL"
       THEN irq' = [irq EXCEPT ![s] = FALSE] /\ UNCHANGED <<devs, cookie, req, rep, reqInUse, alone>>
       ELSE /\ reqInUse' = [reqInUse EXCEPT ![s] = FALSE]
            /\ req' = [req EXCEPT ![s].type = "NULL"]
            /\ UNCHANGED rep
            /\ ReplyHandler(s, m)
  /\ UNCHANGED <<next, outId, inId, shutdown, taken, down, gave, pc, slot>>

ParseReply(s) ==
  LET m == rep[Peer(s)] IN
  /\ irq[s] /\ ~parsing[s]
  /\ \A t \in Thread : Home[t] = s => ~Holds(t)
  /\ parsing' = [parsing EXCEPT ![s] = TRUE]
  /\ IF m.type = "NULL"
       THEN irq' = [irq EXCEPT ![s] = FALSE] /\ UNCHANGED <<devs, cookie, req, rep, reqInUse, alone>>
       ELSE /\ reqInUse' = [reqInUse EXCEPT ![s] = FALSE]
            /\ req' = [req EXCEPT ![s].type = "NULL"]
            /\ rep' = [rep EXCEPT ![Peer(s)].type = "NULL"]
            /\ ReplyHandler(s, m)
  /\ UNCHANGED <<next, outId, inId, shutdown, taken, down, gave, pc, slot>>

-----------------------------------------------------------------------------
(* vxtcom_parse_config_msg, second half: the peer's request *)

\* REQ_ADD, on the guest: no answer while shutting down; an error, with or
\* without a slot used up; or a new device, a request of the guest's own to
\* connect it, and the reply.
AddDevice(m) ==
  LET n == next["guest"] IN
  \/ /\ shutdown["guest"]
     /\ Done("guest")
     /\ UNCHANGED <<next, devs, rep, reqInUse, outId, irq>>
  \/ /\ ~shutdown["guest"]
     /\ next' \in {next, [next EXCEPT !["guest"] = n + 1]}
     /\ next'["guest"] <= MaxSlot + 1
     /\ \E k \in 1 .. 2 : Answer("guest", m, TRUE, k)
     /\ UNCHANGED devs
  \/ /\ ~shutdown["guest"] /\ n <= MaxSlot /\ ~reqInUse["guest"]
     /\ next' = [next EXCEPT !["guest"] = n + 1]
     /\ devs' = [devs EXCEPT !["guest"][n] = NewDevice("ok")]
     /\ req' = [req EXCEPT !["guest"] = NewRequest("guest", "ADD_REQ", n, 0, m.who),
                           !["host"].type = "NULL"]
     /\ TakeHalf("guest")
     /\ Respond("guest", m, FALSE)

\* The cookie of a host thread, if the request came with one.
Finish(t, how) ==
  cookie' = IF t \in Thread /\ Home[t] = "host" /\ cookie[t] # "none"
              THEN [cookie EXCEPT ![t] = how] ELSE cookie


\* ADD_REQ, on the host: an error, or a device of its own connected to the
\* guest's.
ConnectDevice(m) ==
  LET n == next["host"] IN
  \/ /\ next' \in {next, [next EXCEPT !["host"] = n + 1]}
     /\ next'["host"] <= MaxSlot + 1
     /\ \E k \in 1 .. 2 : Answer("host", m, TRUE, k)
     /\ Finish(m.who, "failed")
     /\ UNCHANGED devs
  \/ /\ next' = [next EXCEPT !["host"] = n + 1]
     /\ devs' = [devs EXCEPT !["host"][n] = [NewDevice("ok") EXCEPT !.remote = m.lcp]]
     /\ Answer("host", [m EXCEPT !.rcp = n], FALSE, 2)
     /\ Finish(m.who, "done")

\* REMOVE: close and free the device; a device the host is removing itself
\* counts as removed.  The device is left alone where there is no memory for
\* the information a user's call sends along.
Unplug(s, m) ==
  LET n == m.rcp
      gone == Live(s, n) /\ devs[s][n].inst /\ ~devs[s][n].closing
      racing == s = "host" /\ Live(s, n) /\ devs[s][n].closing IN
  /\ UNCHANGED next
  /\ \/ /\ devs' = IF gone THEN [devs EXCEPT ![s][n].state = "freed"]
                   ELSE IF Live(s, n) THEN [devs EXCEPT ![s][n].closing = TRUE] ELSE devs
        /\ Answer(s, m, ~gone /\ ~racing, 2)
     \/ /\ m.who \in User /\ Live(s, n)
        /\ Answer(s, m, TRUE, 2)
        /\ UNCHANGED devs

RequestHandler(s, m) ==
  \/ m.type = "REQ_ADD" /\ s = "guest" /\ AddDevice(m) /\ UNCHANGED <<shutdown, cookie>>
  \/ m.type = "ADD_REQ" /\ s = "host" /\ ConnectDevice(m) /\ UNCHANGED shutdown
  \/ m.type = "REMOVE" /\ Unplug(s, m) /\ UNCHANGED <<shutdown, cookie>>
  \/ /\ m.type = "BUS_CLOSING"
     /\ shutdown' = [shutdown EXCEPT ![s] = TRUE]
     /\ Answer(s, m, FALSE, 2)
     /\ UNCHANGED <<next, devs, cookie>>

\* Anything but a message newer than the last one is passed over.
Fresh(s) == inId[s] < req[Peer(s)].id

ParseRequest(s) ==
  LET m == req[Peer(s)] IN
  /\ parsing[s]
  /\ parsing' = [parsing EXCEPT ![s] = FALSE]
  /\ inId' = IF Fresh(s) THEN [inId EXCEPT ![s] = @ + 1] ELSE inId
  /\ IF Fresh(s) /\ m.type # "NULL" THEN RequestHandler(s, m)
     ELSE UNCHANGED <<next, devs, req, rep, reqInUse, outId, irq, shutdown, cookie>>
  /\ UNCHANGED <<history, pc, slot>>

-----------------------------------------------------------------------------

Begin(t) ==
  \/ Ask(t) \/ Make(t)
  \/ \E n \in Slot : Remove(t, n) \/ RemoveFails(t, n)

End(t) ==
  \/ WaitEnds(t) \/ MakeEnds(t) \/ RemoveEnds(t)
  \/ SignalClosing(t) \/ UnplugDone(t) \/ UnplugNext(t) \/ UnplugSpins(t)

Parse(s) == ParseReply(s) \/ ParseRequest(s)

Next ==
  \/ \E t \in User : Begin(t)
  \/ \E t \in Card : TakeDown(t)
  \/ \E t \in Thread : End(t)
  \/ \E s \in Side : Parse(s)

Spec == Init /\ [][Next]_vars

\* A signal is handled, and a sleeper that is woken or whose time is up runs.
FairSpec ==
  /\ Spec
  /\ \A s \in Side : WF_vars(Parse(s))
  /\ \A t \in Thread : WF_vars(End(t))

-----------------------------------------------------------------------------
(* Properties *)

\* The parser's synchronisation point: while a request is in its half, the
\* replies to earlier ones have been handled; a reply answers the request its
\* peer is still waiting for; and no request is taken for an old one.
StrictLink ==
  \A s \in Side :
    /\ req[s].type # "NULL" =>
         reqInUse[s] /\ rep[Peer(s)].type = "NULL" /\ inId[Peer(s)] < req[s].id
    /\ rep[Peer(s)].type # "NULL" => reqInUse[s] /\ rep[Peer(s)].id = req[s].id

\* A message whose handler follows the cookie of the thread that asked
Deref(m, reply) ==
  m.type \in (IF ~reply THEN {"REQ_ADD", "ADD_REQ", "BUS_CLOSING"}
              ELSE {"BUS_CLOSING"} \cup (IF m.err THEN {"REQ_ADD"} ELSE {}))

\* What a message on its way leads to is there: the error reply to ADD_REQ
\* finds its device, unless that device's end was never agreed upon, and no
\* message follows the cookie of a thread that freed it after it was answered.
NothingFreed ==
  /\ \A s \in Side :
       rep[s].type = "ADD_REQ" /\ rep[s].err => Live(Peer(s), rep[s].lcp) \/ rep[s].lcp \in alone
  /\ \A s \in Side, t \in Thread :
       Home[t] = "host" /\ cookie[t] = "none" /\ t \notin gave =>
         /\ ~(req[s].who = t /\ Deref(req[s], FALSE))
         /\ ~(rep[s].who = t /\ Deref(rep[s], TRUE))

\* The party that offers the pages is the last to tear down, also when both
\* sides remove the device at once: when the guest has freed a device, no device
\* of the host is using its pages, unless the guest's request about it was not
\* sent, not waited for or refused.
OriginLast ==
  \A n \in Slot : devs["guest"][n].state = "freed" /\ n \notin alone =>
    \A m \in Slot : devs["host"][m].remote = n /\ devs["host"][m].state # "none" =>
      ~devs["host"][m].inst \/ devs["host"][m].state = "freed"

\* Once the devices are unplugged none is there, unless the unplugging stopped
\* at one whose message device was gone, or the host's card driver did not wait
\* for the guest to know that the bus is closing.
NoLateDevice ==
  \A s \in Side : down[s] =>
    \/ \A n \in Slot : ~Live(s, n)
    \/ \E n \in Slot : Live(s, n) /\ ~devs[s][n].inst
    \/ s = "host" /\ \E t \in Card : Home[t] = s /\ t \in gave

\* t sleeps in a device that was freed meanwhile: what it does next is
\* undefined, and it does nothing in the model.
InFreed(t) ==
  pc[t] \in {"making", "removing", "unplugging"} /\ devs[Home[t]][slot[t]].state = "freed"

\* The host spins, or its request half is taken for good by a request that the
\* guest left unanswered when it shut down.
Stopped ==
  \/ \E t \in Thread : pc[t] = "spin"
  \/ reqInUse["host"] /\ req["host"].type = "NULL" /\ rep["guest"].type = "NULL"

=============================================================================
