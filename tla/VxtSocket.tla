----------------------------- MODULE VxtSocket -----------------------------
(***************************************************************************)
(* The socket layer of lib/vxtlib/common/vxt_socket_dev.c: the threads of  *)
(* one process, the sockets they share and the vxt_msg devices behind      *)
(* them.  vxt_socket_lock covers a lookup, one change of a reference       *)
(* count, and unlinking a socket from live_sockets; the state of a socket, *)
(* and live_connections of vxt_msg.c, are read and written without a lock. *)
(*                                                                         *)
(* Handles are never reused here: socket_wrap needs 2^32 sockets.  New     *)
(* sockets go to the head of live_sockets, so the list is in descending    *)
(* order of its handles.  A freed socket keeps its fields below; what a    *)
(* thread does with a pointer to one is not modelled (it takes no step).   *)
(*                                                                         *)
(* No handle is closed twice.  Breaks lists the other rules the client     *)
(* does not keep:                                                          *)
(*   "late"   no call is begun on a handle once vxt_close was called on it *)
(*   "open"   one thread at a time binds or connects a socket              *)
(*   "force"  VXT_CLOSE_FORCE only when no other thread is in a call       *)
(*   "list"   one thread at a time is inside vxt_msg_add, vxt_msg_connect  *)
(*            or vxt_msg_disconnect where they handle live_connections     *)
(*   "poll"   a handle that names no socket is not polled with others      *)
(***************************************************************************)
EXTENDS Integers, FiniteSets

CONSTANTS
  Thread,     \* threads of the process
  MaxHandle,  \* bound: sockets ever opened
  Dev,        \* vxt_msg devices vxt_msg_add and vxt_msg_connect may return
  None,       \* no device, no thread
  Breaks      \* the rules above that the client breaks

Handle == 1 .. MaxHandle
NoSock == 0

ASSUME SocketAssumption ==
  /\ IsFiniteSet(Thread)
  /\ MaxHandle \in Nat
  /\ None \notin Dev
  /\ Breaks \subseteq {"late", "open", "force", "list", "poll"}

VARIABLES
  handles,  \* socket_handles
  live,     \* the sockets in live_sockets
  ref,      \* ref_cnt
  state,    \* state
  opts,     \* close_options has VXT_CLOSE_REMOTE or VXT_CLOSE_LOCAL
  dev,      \* dev
  head,     \* live_connections
  link,     \* next of each vxt_msg device
  msg,      \* whether each device is attached to its controller
  given,    \* handles the client may use: returned to it and not yet closed
  base,     \* history: sockets whose live reference was not dropped
  keep,     \* history: sockets closed with neither VXT_CLOSE_REMOTE nor _LOCAL
  pc,       \* where each thread is
  kind,     \* the call it is in
  sk,       \* the socket it works on
  arg,      \* the call's options have VXT_CLOSE_REMOTE or VXT_CLOSE_LOCAL
  held,     \* the sockets its call has a reference to
  use,      \* the devices it uses
  todo,     \* the handles its vxt_poll has still to look up
  ret       \* where the subroutine it is in returns to

client == <<given, base, keep>>
table == <<handles, live>>
list == <<head, link, msg>>
socks == <<ref, state, opts, dev>>
locals == <<kind, sk, arg, held, use, todo, ret>>
vars == <<table, socks, list, client, pc, locals>>

Calls == {"none", "open", "accept", "use", "listen", "poll", "shutdown", "close", "force"}

PCs == {"idle", "called", "adding", "push", "setdev", "setstate", "using",
        "pfind", "close2", "deref", "sfind", "ssusp", "sderef",
        "ldisc", "fdisc", "fend", "unlink", "remove", "lfree", "afree"}

TypeOK ==
  /\ handles \in 1 .. MaxHandle + 1
  /\ live \subseteq 1 .. handles - 1
  /\ ref \in [Handle -> Nat]
  /\ state \in [Handle -> {"DISCONNECTED", "CONNECTED", "SUSPENDED"}]
  /\ opts \in [Handle -> BOOLEAN]
  /\ dev \in [Handle -> Dev \cup {None}]
  /\ head \in Dev \cup {None}
  /\ link \in [Dev -> Dev \cup {None}]
  /\ msg \in [Dev -> {"unused", "attached", "gone"}]
  /\ given \subseteq Handle
  /\ base \subseteq Handle
  /\ keep \subseteq Handle
  /\ pc \in [Thread -> PCs]
  /\ kind \in [Thread -> Calls]
  /\ sk \in [Thread -> Handle \cup {NoSock}]
  /\ arg \in [Thread -> BOOLEAN]
  /\ held \in [Thread -> SUBSET Handle]
  /\ use \in [Thread -> SUBSET Dev]
  /\ todo \in [Thread -> SUBSET Handle]
  /\ ret \in [Thread -> PCs]

Init ==
  /\ handles = 1
  /\ live = {}
  /\ ref = [h \in Handle |-> 0]
  /\ state = [h \in Handle |-> "DISCONNECTED"]
  /\ opts = [h \in Handle |-> FALSE]
  /\ dev = [h \in Handle |-> None]
  /\ head = None
  /\ link = [d \in Dev |-> None]
  /\ msg = [d \in Dev |-> "unused"]
  /\ given = {}
  /\ base = {}
  /\ keep = {}
  /\ pc = [t \in Thread |-> "idle"]
  /\ kind = [t \in Thread |-> "none"]
  /\ sk = [t \in Thread |-> NoSock]
  /\ arg = [t \in Thread |-> FALSE]
  /\ held = [t \in Thread |-> {}]
  /\ use = [t \in Thread |-> {}]
  /\ todo = [t \in Thread |-> {}]
  /\ ret = [t \in Thread |-> "idle"]

Goto(t, p) == pc' = [pc EXCEPT ![t] = p]

\* The call returns and its locals are gone.
Return(t) ==
  /\ Goto(t, "idle")
  /\ kind' = [kind EXCEPT ![t] = "none"]
  /\ sk' = [sk EXCEPT ![t] = NoSock]
  /\ arg' = [arg EXCEPT ![t] = FALSE]
  /\ ret' = [ret EXCEPT ![t] = "idle"]

Kept(rule) == rule \notin Breaks
InCall(t, h) == pc[t] # "idle" /\ (h \in held[t] \cup todo[t])

-----------------------------------------------------------------------------
(* vxt_get_socket and vxt_find_socket *)

\* vxt_get_socket; refs counts the lookup that may follow at once.
NewSocket(refs) ==
  /\ handles <= MaxHandle
  /\ handles' = handles + 1
  /\ live' = live \cup {handles}
  /\ ref' = [ref EXCEPT ![handles] = refs]
  /\ state' = [state EXCEPT ![handles] = "DISCONNECTED"]
  /\ opts' = [opts EXCEPT ![handles] = FALSE]
  /\ dev' = [dev EXCEPT ![handles] = None]
  /\ base' = base \cup {handles}

\* vxt_socket: the socket's only reference is the live one.
Socket(t) ==
  /\ pc[t] = "idle"
  /\ NewSocket(1)
  /\ given' = given \cup {handles}
  /\ UNCHANGED <<list, keep, pc, locals>>

\* vxt_accept when the endpoint has a device: a new socket that vxt_connect
\* looks up at once.  Nobody else knows its handle yet.
Accept(t) ==
  /\ pc[t] = "idle"
  /\ NewSocket(2)
  /\ Goto(t, "called")
  /\ kind' = [kind EXCEPT ![t] = "accept"]
  /\ sk' = [sk EXCEPT ![t] = handles]
  /\ held' = [held EXCEPT ![t] = {handles}]
  /\ arg' = [arg EXCEPT ![t] = FALSE]
  /\ UNCHANGED <<list, given, keep, use, todo, ret>>

\* The rules of the client for call k on socket h.
May(t, h, k) ==
  /\ h \in given \/ (/\ ~Kept("late") /\ k \notin {"close", "force"}
                     /\ \A u \in Thread : ~(kind[u] = "accept" /\ sk[u] = h))
  /\ k = "open" /\ Kept("open") =>
       \A u \in Thread : ~(InCall(u, h) /\ kind[u] = "open")
  /\ k = "force" /\ Kept("force") => \A u \in Thread : ~InCall(u, h)
  /\ k \in {"close", "force"} /\ Kept("poll") => \A u \in Thread : h \notin todo[u]

\* Fault: the socket is looked up as a test, without a reference.
CallUncounted(t, h, k, a) ==
  /\ pc[t] = "idle"
  /\ May(t, h, k)
  /\ h \in live
  /\ held' = [held EXCEPT ![t] = {h}]
  /\ sk' = [sk EXCEPT ![t] = h]
  /\ kind' = [kind EXCEPT ![t] = k]
  /\ arg' = [arg EXCEPT ![t] = a]
  /\ given' = IF k \in {"close", "force"} THEN given \ {h} ELSE given
  /\ keep' = IF k \in {"close", "force"} /\ ~a THEN keep \cup {h} ELSE keep
  /\ Goto(t, "called")
  /\ UNCHANGED <<table, socks, list, base, use, todo, ret>>

\* The vxt_find_socket every call starts with; ENOTSOCK changes nothing.
Call(t, h, k, a) ==
  /\ pc[t] = "idle"
  /\ May(t, h, k)
  /\ h \in live
  /\ ref' = [ref EXCEPT ![h] = @ + 1]
  /\ held' = [held EXCEPT ![t] = {h}]
  /\ sk' = [sk EXCEPT ![t] = h]
  /\ kind' = [kind EXCEPT ![t] = k]
  /\ arg' = [arg EXCEPT ![t] = a]
  /\ given' = IF k \in {"close", "force"} THEN given \ {h} ELSE given
  /\ keep' = IF k \in {"close", "force"} /\ ~a THEN keep \cup {h} ELSE keep
  /\ Goto(t, "called")
  /\ UNCHANGED <<table, state, opts, dev, list, base, use, todo, ret>>

-----------------------------------------------------------------------------
(* vxt_bind, vxt_connect, and vxt_accept through vxt_connect *)

\* A socket that is not disconnected any more fails with EISCONN.
OpenTest(t) ==
  /\ pc[t] = "called" /\ kind[t] \in {"open", "accept"}
  /\ Goto(t, IF state[sk[t]] = "DISCONNECTED" THEN "adding" ELSE "deref")
  /\ UNCHANGED <<table, socks, list, client, locals>>

\* The threads where vxt_msg.c handles live_connections.
InList(u) == pc[u] \in {"push", "remove"}
ListFree(t) == Kept("list") => \A u \in Thread \ {t} : ~InList(u)

\* vxt_msg_add or vxt_msg_connect fails, or sets a device up and links it to
\* the head of live_connections.
AddFails(t) ==
  /\ pc[t] = "adding"
  /\ Goto(t, "deref")
  /\ UNCHANGED <<table, socks, list, client, locals>>

AddLinks(t, d) ==
  /\ pc[t] = "adding" /\ msg[d] = "unused"
  /\ ListFree(t)
  /\ msg' = [msg EXCEPT ![d] = "attached"]
  /\ link' = [link EXCEPT ![d] = head]
  /\ use' = [use EXCEPT ![t] = {d}]
  /\ Goto(t, "push")
  /\ UNCHANGED <<table, socks, head, client, kind, sk, arg, held, todo, ret>>

AddPushes(t) ==
  /\ pc[t] = "push"
  /\ \E d \in use[t] : head' = d
  /\ Goto(t, "setdev")
  /\ UNCHANGED <<table, socks, link, msg, client, locals>>

SetDev(t) ==
  /\ pc[t] = "setdev"
  /\ \E d \in use[t] : dev' = [dev EXCEPT ![sk[t]] = d]
  /\ Goto(t, "setstate")
  /\ UNCHANGED <<table, ref, state, opts, list, client, locals>>

SetState(t) ==
  /\ pc[t] = "setstate"
  /\ state' = [state EXCEPT ![sk[t]] = "CONNECTED"]
  /\ use' = [use EXCEPT ![t] = {}]
  /\ arg' = [arg EXCEPT ![t] = TRUE]  \* vxt_accept will return the handle
  /\ Goto(t, "deref")
  /\ UNCHANGED <<table, ref, opts, dev, list, client, kind, sk, held, todo,
                 ret>>

-----------------------------------------------------------------------------
(* Calls that use the device: vxt_send, vxt_recv, vxt_ioctl, vxt_listen,    *)
(* vxt_poll                                                                *)

\* Fault: the state is not looked at.
UseUntested(t) ==
  /\ pc[t] = "called" /\ kind[t] \in {"use", "listen"}
  /\ use' = [use EXCEPT ![t] = {dev[sk[t]]}]
  /\ Goto(t, "using")
  /\ UNCHANGED <<table, socks, list, client, kind, sk, arg, held, todo, ret>>

\* EPIPE or EINVAL unless connected; vxt_listen then waits for any controller.
UseTest(t) ==
  /\ pc[t] = "called" /\ kind[t] \in {"use", "listen"}
  /\ IF state[sk[t]] = "CONNECTED"
       THEN use' = [use EXCEPT ![t] = {dev[sk[t]]}] /\ Goto(t, "using")
       ELSE /\ Goto(t, IF kind[t] = "listen" THEN "using" ELSE "deref")
            /\ UNCHANGED use
  /\ UNCHANGED <<table, socks, list, client, kind, sk, arg, held, todo, ret>>

\* Handles whose socket is gone.
Stale == (1 .. handles - 1) \ live

\* vxt_poll looks its sockets up one by one ...
PollCall(t, hs) ==
  /\ pc[t] = "idle" /\ hs # {}
  /\ hs \subseteq given \cup Stale
  /\ hs \cap Stale = {} \/ (Kept("poll") => Cardinality(hs) = 1)
  /\ todo' = [todo EXCEPT ![t] = hs]
  /\ kind' = [kind EXCEPT ![t] = "poll"]
  /\ Goto(t, "pfind")
  /\ UNCHANGED <<table, socks, list, client, sk, arg, held, use, ret>>

\* ... and takes their devices, whatever their state.
PollFind(t, h) ==
  /\ pc[t] = "pfind" /\ h \in todo[t] /\ h \in live
  /\ ref' = [ref EXCEPT ![h] = @ + 1]
  /\ held' = [held EXCEPT ![t] = @ \cup {h}]
  /\ use' = [use EXCEPT ![t] = @ \cup ({dev[h]} \ {None})]
  /\ todo' = [todo EXCEPT ![t] = @ \ {h}]
  /\ Goto(t, IF todo[t] = {h} THEN "using" ELSE "pfind")
  /\ UNCHANGED <<table, state, opts, dev, list, client, kind, sk, arg, ret>>

\* A handle that is not found ends the call.  Whether the references taken so
\* far are dropped depends on socket[i], which nothing has written.
PollFails(t, h) ==
  /\ pc[t] = "pfind" /\ h \in todo[t] /\ h \notin live
  /\ todo' = [todo EXCEPT ![t] = {}]
  /\ use' = [use EXCEPT ![t] = {}]
  /\ \E written \in BOOLEAN :
       IF written /\ held[t] # {}
         THEN /\ \E g \in held[t] : sk' = [sk EXCEPT ![t] = g]
              /\ Goto(t, "deref")
              /\ UNCHANGED <<kind, arg, held, ret>>
         ELSE /\ held' = [held EXCEPT ![t] = {}]
              /\ Return(t)
  /\ UNCHANGED <<table, socks, list, client>>

\* The call on the device returns: data, an error, a signal.
UseReturn(t) ==
  /\ pc[t] = "using"
  /\ use' = [use EXCEPT ![t] = {}]
  /\ \E g \in held[t] : sk' = [sk EXCEPT ![t] = g]
  /\ Goto(t, "deref")
  /\ UNCHANGED <<table, socks, list, client, kind, arg, held, todo, ret>>

-----------------------------------------------------------------------------
(* vxt_shutdown and vxt_close *)

\* vxt_msg_shutdown succeeds without doing anything.
Suspend(h) ==
  state' = IF state[h] = "CONNECTED" THEN [state EXCEPT ![h] = "SUSPENDED"] ELSE state

Shutdown(t) ==
  /\ pc[t] = "called" /\ kind[t] = "shutdown"
  /\ Suspend(sk[t])
  /\ Goto(t, "deref")
  /\ UNCHANGED <<table, ref, opts, dev, list, client, locals>>

\* Fault: the disconnect is not deferred to the last reference.
CloseAtOnce(t) ==
  /\ pc[t] = "called" /\ kind[t] = "close"
  /\ Goto(t, "sfind")
  /\ ret' = [ret EXCEPT ![t] = "fdisc"]
  /\ UNCHANGED <<table, socks, list, client, kind, sk, arg, held, use, todo>>

\* vxt_close leaves its options for whoever drops the last reference.
CloseOptions(t) ==
  /\ pc[t] = "called" /\ kind[t] = "close"
  /\ opts' = [opts EXCEPT ![sk[t]] = arg[t]]
  /\ Goto(t, "close2")
  /\ UNCHANGED <<table, ref, state, dev, list, client, locals>>

\* VXT_CLOSE_FORCE shuts down and disconnects at once.
CloseForce(t) ==
  /\ pc[t] = "called" /\ kind[t] = "force"
  /\ Goto(t, "sfind")
  /\ ret' = [ret EXCEPT ![t] = "fdisc"]
  /\ UNCHANGED <<table, socks, list, client, kind, sk, arg, held, use, todo>>

ForceDisconnect(t) ==
  /\ pc[t] = "fdisc"
  /\ IF arg[t]
       THEN /\ use' = [use EXCEPT ![t] = {dev[sk[t]]} \ {None}]
            /\ ret' = [ret EXCEPT ![t] = "fend"]
            /\ Goto(t, "unlink")
       ELSE Goto(t, "fend") /\ UNCHANGED <<use, ret>>
  /\ UNCHANGED <<table, socks, list, client, kind, sk, arg, held, todo>>

ForceEnd(t) ==
  /\ pc[t] = "fend"
  /\ opts' = [opts EXCEPT ![sk[t]] = FALSE]
  /\ Goto(t, "close2")
  /\ UNCHANGED <<table, ref, state, dev, list, client, locals>>

\* The vxt_shutdown inside vxt_close and vxt_deref_socket takes a reference of
\* its own.
InnerFind(t) ==
  /\ pc[t] = "sfind" /\ sk[t] \in live
  /\ ref' = [ref EXCEPT ![sk[t]] = @ + 1]
  /\ Goto(t, "ssusp")
  /\ UNCHANGED <<table, state, opts, dev, list, client, locals>>

InnerSuspend(t) ==
  /\ pc[t] = "ssusp"
  /\ Suspend(sk[t])
  /\ Goto(t, "sderef")
  /\ UNCHANGED <<table, ref, opts, dev, list, client, locals>>

InnerDeref(t) ==
  /\ pc[t] = "sderef" /\ ref[sk[t]] > 1
  /\ ref' = [ref EXCEPT ![sk[t]] = @ - 1]
  /\ Goto(t, ret[t])
  /\ UNCHANGED <<table, state, opts, dev, list, client, locals>>

-----------------------------------------------------------------------------
(* vxt_msg_disconnect *)

\* The devices live_connections leads to.
Listed ==
  {d \in Dev : \A S \in SUBSET Dev :
                 ({head} \cup {link[p] : p \in S}) \ {None} \subseteq S => d \in S}

\* Search: a device that is not in the list is left alone, with VXT_PARM.
Unlink(t) ==
  /\ pc[t] = "unlink"
  /\ ListFree(t)
  /\ Goto(t, IF use[t] # {} /\ use[t] \subseteq Listed THEN "remove" ELSE ret[t])
  /\ use' = IF use[t] \subseteq Listed THEN use ELSE [use EXCEPT ![t] = {}]
  /\ UNCHANGED <<table, socks, list, client, kind, sk, arg, held, todo, ret>>

\* Unlink what now is at the place of the device, detach and free the device.
Remove(t) ==
  /\ pc[t] = "remove"
  /\ \E d \in use[t] :
       /\ msg' = [msg EXCEPT ![d] = "gone"]
       /\ IF head = d
            THEN head' = link[d] /\ UNCHANGED link
            ELSE /\ link' = [p \in Dev |-> IF p \in Listed /\ link[p] = d
                                             THEN link[d] ELSE link[p]]
                 /\ UNCHANGED head
  /\ use' = [use EXCEPT ![t] = {}]
  /\ Goto(t, ret[t])
  /\ UNCHANGED <<table, socks, client, kind, sk, arg, held, todo, ret>>

-----------------------------------------------------------------------------
(* vxt_deref_socket and vxt_free_socket *)

\* The call is through with socket h: vxt_poll goes on with its other ones,
\* vxt_accept returns the handle or frees the socket.
Through(t, h) ==
  LET rest == held[t] \ {h} IN
  /\ held' = [held EXCEPT ![t] = rest]
  /\ \/ /\ rest # {}
        /\ \E g \in rest : sk' = [sk EXCEPT ![t] = g]
        /\ Goto(t, "deref")
        /\ UNCHANGED <<given, kind, arg, ret>>
     \/ /\ rest = {} /\ kind[t] = "accept" /\ ~arg[t]
        /\ Goto(t, "afree")
        /\ UNCHANGED <<given, kind, sk, arg, ret>>
     \/ /\ rest = {} /\ ~(kind[t] = "accept" /\ ~arg[t])
        /\ given' = IF kind[t] = "accept" THEN given \cup {h} ELSE given
        /\ Return(t)

\* Fault: only the reference of the lookup is dropped.
DropLiveNot(t) ==
  /\ pc[t] = "close2"
  /\ Goto(t, "deref")
  /\ UNCHANGED <<table, socks, list, client, locals>>

\* vxt_close drops the live reference as well as its own.
DropLive(t) ==
  /\ pc[t] = "close2" /\ ref[sk[t]] > 1
  /\ ref' = [ref EXCEPT ![sk[t]] = @ - 1]
  /\ base' = base \ {sk[t]}
  /\ Goto(t, "deref")
  /\ UNCHANGED <<table, state, opts, dev, list, given, keep, locals>>

Deref(t) ==
  /\ pc[t] = "deref" /\ sk[t] \in live /\ ref[sk[t]] > 1
  /\ ref' = [ref EXCEPT ![sk[t]] = @ - 1]
  /\ Through(t, sk[t])
  /\ UNCHANGED <<table, state, opts, dev, list, base, keep, use, todo>>

\* Fault: one reference too early.
DerefLastEarly(t) ==
  /\ pc[t] = "deref" /\ sk[t] \in live /\ ref[sk[t]] <= 2
  /\ Goto(t, "sfind")
  /\ ret' = [ret EXCEPT ![t] = "ldisc"]
  /\ UNCHANGED <<table, socks, list, client, kind, sk, arg, held, use, todo>>

\* The last reference: the lock is given up and the count left at one while
\* the socket is shut down, disconnected and freed.
DerefLast(t) ==
  /\ pc[t] = "deref" /\ sk[t] \in live /\ ref[sk[t]] = 1
  /\ Goto(t, "sfind")
  /\ ret' = [ret EXCEPT ![t] = "ldisc"]
  /\ UNCHANGED <<table, socks, list, client, kind, sk, arg, held, use, todo>>

\* Fault: the state is tested for what vxt_shutdown has just left.
LastDisconnectNever(t) ==
  /\ pc[t] = "ldisc"
  /\ IF state[sk[t]] = "CONNECTED" /\ opts[sk[t]]
       THEN /\ use' = [use EXCEPT ![t] = {dev[sk[t]]}]
            /\ ret' = [ret EXCEPT ![t] = "lfree"]
            /\ Goto(t, "unlink")
       ELSE Goto(t, "lfree") /\ UNCHANGED <<use, ret>>
  /\ UNCHANGED <<table, socks, list, client, kind, sk, arg, held, todo>>

\* A socket that was connected is disconnected if vxt_close said so.
LastDisconnect(t) ==
  /\ pc[t] = "ldisc"
  /\ IF state[sk[t]] = "SUSPENDED" /\ opts[sk[t]]
       THEN /\ use' = [use EXCEPT ![t] = {dev[sk[t]]}]
            /\ ret' = [ret EXCEPT ![t] = "lfree"]
            /\ Goto(t, "unlink")
       ELSE Goto(t, "lfree") /\ UNCHANGED <<use, ret>>
  /\ UNCHANGED <<table, socks, list, client, kind, sk, arg, held, todo>>

\* vxt_free_socket: EBUSY if the socket is connected and not the first.
Free(h) ==
  live' = IF state[h] = "CONNECTED" /\ \E g \in live : g > h THEN live ELSE live \ {h}

LastFree(t) ==
  /\ pc[t] = "lfree"
  /\ Free(sk[t])
  /\ Through(t, sk[t])
  /\ UNCHANGED <<handles, socks, list, base, keep, use, todo>>

\* vxt_accept whose vxt_connect failed.
AcceptFree(t) ==
  /\ pc[t] = "afree"
  /\ Free(sk[t])
  /\ base' = base \ {sk[t]}
  /\ Return(t)
  /\ UNCHANGED <<handles, socks, list, given, keep, held, use, todo>>

-----------------------------------------------------------------------------

\* Steps a thread takes once it is inside a call, other than coming back from
\* a call that may sleep.
Step(t) ==
  \/ OpenTest(t) \/ AddPushes(t) \/ SetDev(t) \/ SetState(t)
  \/ UseTest(t) \/ (\E h \in Handle : PollFind(t, h) \/ PollFails(t, h))
  \/ Shutdown(t) \/ CloseOptions(t) \/ CloseForce(t) \/ ForceDisconnect(t)
  \/ ForceEnd(t) \/ InnerFind(t) \/ InnerSuspend(t) \/ InnerDeref(t)
  \/ Unlink(t) \/ Remove(t) \/ DropLive(t) \/ Deref(t) \/ DerefLast(t)
  \/ LastDisconnect(t) \/ LastFree(t) \/ AcceptFree(t)

Sleeper(t) ==
  AddFails(t) \/ (\E d \in Dev : AddLinks(t, d)) \/ UseReturn(t)

Begin(t) ==
  \/ Socket(t) \/ Accept(t)
  \/ \E h \in Handle, k \in {"open", "use", "listen", "shutdown"} : Call(t, h, k, FALSE)
  \/ \E h \in Handle, k \in {"close", "force"}, a \in BOOLEAN : Call(t, h, k, a)
  \/ \E hs \in SUBSET Handle : PollCall(t, hs)

Next == \E t \in Thread : Begin(t) \/ Sleeper(t) \/ Step(t)

Spec == Init /\ [][Next]_vars

\* A thread inside the library runs on unless it sleeps in the driver; the
\* mutex of the library is handed out in turn.
FairSpec == Spec /\ \A t \in Thread : WF_vars(Step(t))

-----------------------------------------------------------------------------
(* Properties *)

Holders(h) == {t \in Thread : h \in held[t]}
Inner(h) == {t \in Thread : sk[t] = h /\ pc[t] \in {"ssusp", "sderef"}}

\* A thread never works on a freed socket: as long as one has a reference, the
\* socket is in the list.
NoFreedSocket == \A t \in Thread : held[t] \subseteq live

\* ref_cnt is exactly the live reference, one per call in progress, and one
\* per vxt_shutdown inside another call.
RefsExact ==
  \A h \in live :
    ref[h] = Cardinality(Holders(h)) + Cardinality(Inner(h))
               + (IF h \in base THEN 1 ELSE 0)

\* vxt_close does not take the device away from a thread that is in a call on
\* it.
DeviceUsable ==
  \A t \in Thread : pc[t] = "using" => \A d \in use[t] : msg[d] = "attached"

\* An attached device can still be reached: a thread is about to put it in
\* its socket or to disconnect it, it belongs to a live socket, or its socket
\* was closed with neither VXT_CLOSE_LOCAL nor VXT_CLOSE_REMOTE.
NoDeviceLost ==
  \A d \in Dev : msg[d] = "attached" =>
    \/ \E t \in Thread : d \in use[t] /\ pc[t] \in {"push", "setdev"}
    \/ \E h \in 1 .. handles - 1 : dev[h] = d /\ h \in live \cup keep

Closing(h) == \E t \in Thread : InCall(t, h) /\ kind[t] \in {"close", "force"}
Asleep(h) == \E t \in Thread : h \in held[t] /\ pc[t] \in {"using", "adding"}

\* vxt_close gets the socket freed, unless a thread sleeps for ever in a call
\* on it.
ClosedFreed ==
  \A h \in Handle : <>[]Asleep(h) \/ [](Closing(h) => <>(h \notin live))
=============================================================================
