-------------------------------- MODULE Mxt --------------------------------
(***************************************************************************)
(* The message multiplexer lib/vxtmsg_mux/common/mxt.c: local connections  *)
(* of two domains carried over one VxT connection between their mxt        *)
(* daemons.  The clients are in the guest, the services in the host.  In   *)
(* each domain one thread polls the local sockets (mux_process_local_comm, *)
(* L), one polls the link (mux_process_vxt_comm, V), and a nonblocking     *)
(* socket that does not take its data at once gets a dedicated thread      *)
(* (mux_client_thread, T), which leaves the socket blocking.               *)
(*                                                                         *)
(* A routine is split where it gives up its locks, or waits for room in    *)
(* the link, and another thread may see the difference.  The send mutex of *)
(* the link is left out: its holder waits for room, and so would whoever   *)
(* waits for the mutex.  L's references to an entry are left out: only the *)
(* collection reads the count, and L itself does that.  L uses one         *)
(* recv_buf at a time, which is left out as well.  The link does not fail. *)
(*                                                                         *)
(* All routines take mux_demux_array_mutex before the fd_mutex of an       *)
(* entry, except mux_client_thread at its end, which asks for the former   *)
(* with the latter in its hand.                                            *)
(*                                                                         *)
(* A service neither speaks nor closes before it is spoken to: it is       *)
(* xprtld, which is not in the repository.                                 *)
(***************************************************************************)
EXTENDS Integers, Sequences, FiniteSets, FiniteSetsExt

CONSTANTS
  MaxFd,     \* descriptors of a domain
  MaxConn,   \* bound: connections ever opened
  MaxData,   \* bound: messages a client writes on a connection
  MaxWrites, \* bound: messages all clients write together
  BufCnt,    \* MAX_COMM_BUF_SIZE
  QueueLen,  \* messages the VxT queue takes in one direction
  Writers,   \* client: ends that may write, each a pair of connection and domain
  Closers,   \* client: ends that may close
  NonBlocking, \* domains whose daemon makes its clients' sockets nonblocking
  Recursive  \* a mutex may be locked again by its owner, and an empty place
             \* of mux_threads_array is found as the thread's (Windows, not Linux)

Side == {"guest", "host"}
Peer(s) == IF s = "guest" THEN "host" ELSE "guest"
NoFd == 0
Fd == 1 .. MaxFd
AnyFd == Fd \cup {NoFd}
Conn == 1 .. MaxConn
Index == 0 .. BufCnt - 1
NoIndex == -1

ASSUME MxtAssumption ==
  /\ MaxFd \in Nat /\ MaxConn \in Nat /\ MaxData \in Nat /\ MaxWrites \in Nat
  /\ BufCnt \in Nat \ {0} /\ QueueLen \in Nat \ {0}
  /\ Writers \subseteq Conn \X Side /\ Closers \subseteq Conn \X Side
  /\ NonBlocking \subseteq Side /\ Recursive \in BOOLEAN

VARIABLES
  ent,     \* mux_mappings: what a domain knows of each of its descriptors
  sock,    \* the socket behind the descriptor, and its client
  wrote,   \* messages the client of each end wrote, per connection
  took,    \* and how many of them the daemon has read
  got,     \* what the client of each end was given, per connection
  opened,  \* connections opened so far
  chan,    \* messages on the link, by sender
  win,     \* mux_peer_comm_peer_recv_current_window_size
  asked,   \* mux_peer_comm_window_update_message_sent
  buf,     \* mux_peer_comm_send_buf: the data in each buffer
  alloted, \* mux_comm_buf_alloted: the buffers in use
  lp, vp,  \* the polling threads of each domain
  tp,      \* the dedicated thread of each descriptor
  round,   \* history: domains where the queue of a descriptor has gone round
  late     \* history: domains that collected a descriptor still reached

clients == <<wrote, took, got, opened>>
flow == <<win, asked>>
pool == <<buf, alloted>>
history == <<round, late>>
vars == <<ent, sock, clients, chan, flow, pool, lp, vp, tp, history>>

\* peer, target, cookie, first, inactive, unpolled, ref are the fields
\* peerside_fd, target_fd, conn_cookie, first_msg, is_inactive,
\* removed_from_poll, fd_refcnt; sending and added the flags MUX_FD_SENDING and
\* MUX_NEW_DATA_ADDED; slots, valid, start, end the buffers queued for the
\* dedicated thread; polled says that mux_local_pollfd has the descriptor.
Entry == [used : BOOLEAN, peer : AnyFd, target : BOOLEAN, cookie : 0 .. MaxConn,
          first : BOOLEAN, inactive : BOOLEAN, unpolled : BOOLEAN, polled : BOOLEAN,
          ref : Nat, sending : BOOLEAN, added : BOOLEAN, slots : [Index -> Index],
          valid : [Index -> BOOLEAN], start : Index, end : Index]
NoEntry == [used |-> FALSE, peer |-> NoFd, target |-> FALSE, cookie |-> 0,
            first |-> FALSE, inactive |-> FALSE, unpolled |-> FALSE, polled |-> FALSE,
            ref |-> 0, sending |-> FALSE, added |-> FALSE, slots |-> [i \in Index |-> 0],
            valid |-> [i \in Index |-> FALSE], start |-> 0, end |-> 0]

\* mux_add_local_fd
NewEntry(cookie) == [NoEntry EXCEPT !.used = TRUE, !.polled = TRUE, !.cookie = cookie]

\* ready: mux_connect_response told the client of its connection; gone: the
\* client closed its end; shut: the daemon called SHUTDOWN; block: a send waits
\* for room.
Socket == [conn : 0 .. MaxConn, ready : BOOLEAN, gone : BOOLEAN, shut : BOOLEAN, block : BOOLEAN]
NoSocket == [conn |-> 0, ready |-> FALSE, gone |-> FALSE, shut |-> FALSE, block |-> FALSE]
NewSocket(s, c) == [NoSocket EXCEPT !.conn = c, !.block = s \notin NonBlocking]

Type == {"NONE", "DISCONNECT", "NEW_CONNECTION", "NEW_CONNECTION_ACK", "WINDOW_SIZE_UPDATE",
         "WINDOW_SIZE_UPDATE_ACK", "DATA"}

\* src and dst are mux_msg_send_fd and mux_msg_recv_fd; a NEW_CONNECTION_ACK
\* without src is the one with MUX_CONNECT_GENERIC_ERROR.
Item == [conn : 0 .. MaxConn, item : 0 .. MaxData]
NoItem == [conn |-> 0, item |-> 0]
Msg == [type : Type, src : AnyFd, dst : AnyFd, cookie : 0 .. MaxConn, win : 0 .. BufCnt, data : Item]
NoMsg == [type |-> "NONE", src |-> NoFd, dst |-> NoFd, cookie |-> 0, win |-> 0, data |-> NoItem]

\* Where each thread is: "send" waits for room in the link with out in hand.
LThread == [pc : {"poll", "send", "sent"}, fd : AnyFd, out : Msg]
VThread == [pc : {"idle", "msg", "map", "ack", "check", "write", "send", "abort"}, fd : AnyFd,
            idx : Index \cup {NoIndex}, msg : Msg, out : Msg]
TThread == [pc : {"none", "start", "write", "clear", "fail", "mark", "send", "stuck", "abort"},
            idx : Index \cup {NoIndex}, next : Index, out : Msg]
IdleL == [pc |-> "poll", fd |-> NoFd, out |-> NoMsg]
IdleV == [pc |-> "idle", fd |-> NoFd, idx |-> NoIndex, msg |-> NoMsg, out |-> NoMsg]
IdleT == [pc |-> "none", idx |-> NoIndex, next |-> 0, out |-> NoMsg]

TypeOK ==
  /\ ent \in [Side -> [Fd -> Entry]]
  /\ sock \in [Side -> [Fd -> Socket]]
  /\ wrote \in [Conn -> [Side -> 0 .. MaxData]]
  /\ took \in [Conn -> [Side -> 0 .. MaxData]]
  /\ \A c \in Conn, s \in Side : got[c][s] \in Seq(Item)
  /\ opened \in 0 .. MaxConn
  /\ \A s \in Side : chan[s] \in Seq(Msg) /\ Len(chan[s]) <= QueueLen
  /\ win \in [Side -> Int]
  /\ asked \in [Side -> BOOLEAN]
  /\ buf \in [Side -> [Index -> Item]]
  /\ alloted \in [Side -> SUBSET Index]
  /\ lp \in [Side -> LThread]
  /\ vp \in [Side -> VThread]
  /\ tp \in [Side -> [Fd -> TThread]]
  /\ round \subseteq Side /\ late \subseteq Side

Both(v) == [s \in Side |-> v]

Init ==
  /\ ent = Both([f \in Fd |-> NoEntry])
  /\ sock = Both([f \in Fd |-> NoSocket])
  /\ wrote = [c \in Conn |-> Both(0)]
  /\ took = [c \in Conn |-> Both(0)]
  /\ got = [c \in Conn |-> Both(<<>>)]
  /\ opened = 0
  /\ chan = Both(<<>>)
  /\ win = Both(BufCnt)
  /\ asked = Both(FALSE)
  /\ buf = Both([i \in Index |-> NoItem])
  /\ alloted = Both({})
  /\ lp = Both(IdleL)
  /\ vp = Both(IdleV)
  /\ tp = Both([f \in Fd |-> IdleT])
  /\ round = {} /\ late = {}

\* mux_demux_array_mutex is never given back: its holder waits for the fd_mutex
\* of a dedicated thread, and that thread for the holder, or for itself.
Frozen(s) == \E f \in Fd : tp[s][f].pc = "stuck"

\* A dedicated thread is about to take mux_demux_array_mutex with its fd_mutex.
Held(s, f) == f \in Fd /\ tp[s][f].pc \in {"clear", "fail"}

\* Both mutexes can be taken.
Enter(s, f) == ~Frozen(s) /\ ~Held(s, f)

\* No assertion has ended the daemon.
Up(s) == vp[s].pc # "abort" /\ \A f \in Fd : tp[s][f].pc # "abort"

----------------------------------------------------------------------------
(* mux_getbuf, mux_reclaimbuf, mux_get_buf_freespace (mxt_bufops.c).        *)
(* mux_comm_buf_inuse is their number until one is given back twice.        *)

FreeSpace(s) == BufCnt - Cardinality(alloted[s])

GetBuf(s) == Min(Index \ alloted[s])

Reclaim(s, i) ==
  /\ alloted' = [alloted EXCEPT ![s] = @ \ {i}]
  /\ buf' = [buf EXCEPT ![s][i] = NoItem]

(* mux_mark_fd_inactive: e is the entry before, rm and disc the arguments   *)

Tells(e, disc) == ~e.sending /\ e.target /\ e.peer # NoFd /\ disc

Marked(e, rm, disc) ==
  IF e.sending
    THEN [e EXCEPT !.inactive = TRUE]
    ELSE [e EXCEPT !.inactive = TRUE, !.unpolled = @ \/ rm,
                   !.peer = IF rm /\ Tells(e, disc) THEN NoFd ELSE @]

Farewell(e) == [NoMsg EXCEPT !.type = "DISCONNECT", !.dst = e.peer, !.cookie = e.cookie]

Shut(s, f, e) == sock' = IF e.sending THEN sock ELSE [sock EXCEPT ![s][f].shut = TRUE]

\* is_fd_active
Active(s, f, cookie) ==
  /\ f \in Fd
  /\ ent[s][f].used /\ ~ent[s][f].inactive
  /\ cookie = 0 \/ cookie = ent[s][f].cookie

\* mux_clear_fd_flags
Cleared(e) == [e EXCEPT !.sending = FALSE, !.added = FALSE]

Released(e) == [e EXCEPT !.ref = @ - 1]

\* mux_send_msg_over_mxt waits until the link has room.
Room(s) == Len(chan[s]) < QueueLen
Put(s, m) == chan' = [chan EXCEPT ![s] = Append(@, m)]

----------------------------------------------------------------------------
(* The clients and the services                                             *)

FreeFds(s) == {f \in Fd : sock[s][f].conn = 0}

\* mux_listener: the kernel gives the lowest free descriptor.
Open ==
  /\ opened < MaxConn /\ FreeFds("guest") # {} /\ ~Frozen("guest")
  /\ LET f == Min(FreeFds("guest"))
         c == opened + 1
     IN  /\ sock' = [sock EXCEPT !["guest"][f] = NewSocket("guest", c)]
         /\ ent' = [ent EXCEPT !["guest"][f] = NewEntry(c)]
         /\ opened' = c
  /\ UNCHANGED <<wrote, took, got, chan, flow, pool, lp, vp, tp>>

Spoken(s, f) == IF s = "guest" THEN sock[s][f].ready ELSE got[sock[s][f].conn][s] # <<>>

Write(s, f) ==
  LET k == sock[s][f] IN
  /\ <<k.conn, s>> \in Writers /\ ~k.gone /\ ~k.shut
  /\ Spoken(s, f)
  /\ wrote[k.conn][s] < MaxData
  /\ MapThenSumSet(LAMBDA c : wrote[c]["guest"] + wrote[c]["host"], Conn) < MaxWrites
  /\ wrote' = [wrote EXCEPT ![k.conn][s] = @ + 1]
  /\ UNCHANGED <<ent, sock, took, got, opened, chan, flow, pool, lp, vp, tp>>

Close(s, f) ==
  LET k == sock[s][f] IN
  /\ <<k.conn, s>> \in Closers /\ ~k.gone
  /\ s = "host" => Spoken(s, f)
  /\ sock' = [sock EXCEPT ![s][f].gone = TRUE]
  /\ UNCHANGED <<ent, clients, chan, flow, pool, lp, vp, tp>>

----------------------------------------------------------------------------
(* L: mux_local_comm_poll, transport_poll_local and mux_process_local_comm  *)

Unread(s, f) == LET c == sock[s][f].conn IN c # 0 /\ took[c][s] < wrote[c][s]
Hello(s, f) == s = "guest" /\ ~ent[s][f].first

\* poll reports the descriptor, and L has nothing else in hand.
Event(s, f) ==
  /\ lp[s].pc = "poll" /\ ~Frozen(s)
  /\ ent[s][f].polled
  /\ sock[s][f].gone \/ sock[s][f].shut \/ Unread(s, f) \/ Hello(s, f)

LMark(s, f, disc) ==
  LET e == ent[s][f] IN
  /\ Enter(s, f)
  /\ ent' = [ent EXCEPT ![s][f] = [Marked(e, TRUE, disc) EXCEPT !.polled = FALSE]]
  /\ Shut(s, f, e)
  /\ lp' = IF Tells(e, disc)
             THEN [lp EXCEPT ![s] = [pc |-> "send", fd |-> f, out |-> Farewell(e)]]
             ELSE lp
  /\ UNCHANGED <<clients, chan, flow, pool, vp, tp>>

LInactive(s, f) == Event(s, f) /\ ent[s][f].inactive /\ LMark(s, f, FALSE)

LClosed(s, f) ==
  /\ Event(s, f) /\ ~ent[s][f].inactive
  /\ ~Unread(s, f) /\ ~Hello(s, f)
  /\ LMark(s, f, TRUE)

\* The link to the destination exists.
LHandshake(s, f) ==
  /\ Event(s, f) /\ Enter(s, f) /\ ~ent[s][f].inactive /\ Hello(s, f)
  /\ lp' = [lp EXCEPT ![s] = [pc |-> "send", fd |-> f,
              out |-> [NoMsg EXCEPT !.type = "NEW_CONNECTION", !.src = f, !.cookie = ent[s][f].cookie]]]
  /\ UNCHANGED <<ent, sock, clients, chan, flow, pool, vp, tp>>

\* There is a message to read and a peer to send it to.
Readable(s, f) ==
  /\ Event(s, f) /\ Enter(s, f) /\ ~ent[s][f].inactive /\ Unread(s, f)
  /\ ent[s][f].first /\ ent[s][f].peer # NoFd

LAsk(s, f) ==
  /\ Readable(s, f) /\ win[s] = 0 /\ ~asked[s]
  /\ asked' = [asked EXCEPT ![s] = TRUE]
  /\ lp' = [lp EXCEPT ![s] = [pc |-> "send", fd |-> f,
              out |-> [NoMsg EXCEPT !.type = "WINDOW_SIZE_UPDATE", !.win = FreeSpace(s)]]]
  /\ UNCHANGED <<ent, sock, clients, chan, win, pool, vp, tp>>

LRead(s, f) ==
  LET c == sock[s][f].conn IN
  /\ Readable(s, f) /\ win[s] # 0
  /\ took' = [took EXCEPT ![c][s] = @ + 1]
  /\ lp' = [lp EXCEPT ![s] = [pc |-> "send", fd |-> f,
              out |-> [NoMsg EXCEPT !.type = "DATA", !.src = f, !.dst = ent[s][f].peer,
                                    !.data = [conn |-> c, item |-> took[c][s] + 1]]]]
  /\ UNCHANGED <<ent, sock, wrote, got, opened, chan, flow, pool, vp, tp>>

LSent(s) ==
  /\ lp[s].pc = "send" /\ Room(s)
  /\ Put(s, lp[s].out)
  /\ lp' = [lp EXCEPT ![s].pc = "sent"]
  /\ UNCHANGED <<ent, sock, clients, flow, pool, vp, tp>>

\* After the send first_msg and target_fd are set, or the window is counted
\* down, and release_local_fd_refcnt ends the routine.
LReturn(s) ==
  LET l == lp[s] IN
  /\ l.pc = "sent" /\ Enter(s, l.fd)
  /\ lp' = [lp EXCEPT ![s] = IdleL]
  /\ ent' = IF l.out.type = "NEW_CONNECTION"
              THEN [ent EXCEPT ![s][l.fd].first = TRUE, ![s][l.fd].target = TRUE] ELSE ent
  /\ win' = IF l.out.type = "DATA" THEN [win EXCEPT ![s] = @ - 1] ELSE win
  /\ UNCHANGED <<sock, clients, chan, asked, pool, vp, tp>>

\* Fault: the reference count is not looked at.
CollectableReferenced(s) == {f \in Fd : ent[s][f].used /\ ent[s][f].inactive /\ ent[s][f].unpolled}

Collectable(s) == {f \in Fd : ent[s][f].used /\ ent[s][f].inactive /\ ent[s][f].unpolled /\ ent[s][f].ref = 0}

\* Something may still be sent to the descriptor.
Reached(s, f) ==
  \/ \E g \in Fd : /\ sock[Peer(s)][g].conn = sock[s][f].conn
                   /\ ent[Peer(s)][g].used /\ ~ent[Peer(s)][g].inactive
  \/ \E i \in DOMAIN chan[Peer(s)] : chan[Peer(s)][i].type = "DATA" /\ chan[Peer(s)][i].dst = f
  \/ lp[Peer(s)].out.type = "DATA" /\ lp[Peer(s)].out.dst = f
  \/ vp[s].msg.type = "DATA" /\ vp[s].msg.dst = f

\* The buffers the collection gives back
Queued(e) == {e.slots[j] : j \in {k \in Index : e.start <= k /\ k < e.end /\ e.valid[k]}}

\* mux_remove_local_fds, on every hundredth round of the poll loop
LCollect(s) ==
  /\ lp[s].pc = "poll" /\ ~Frozen(s)
  /\ Collectable(s) # {}
  /\ late' = IF \E f \in Collectable(s) : Reached(s, f) THEN late \cup {s} ELSE late
  /\ ent' = [ent EXCEPT ![s] = [f \in Fd |-> IF f \in Collectable(s) THEN NoEntry ELSE @[f]]]
  /\ sock' = [sock EXCEPT ![s] = [f \in Fd |-> IF f \in Collectable(s) THEN NoSocket ELSE @[f]]]
  /\ LET q == UNION {Queued(ent[s][f]) : f \in Collectable(s)}
     IN  /\ alloted' = [alloted EXCEPT ![s] = @ \ q]
         /\ buf' = [buf EXCEPT ![s] = [i \in Index |-> IF i \in q THEN NoItem ELSE @[i]]]
  /\ UNCHANGED <<clients, chan, flow, lp, vp, tp>>

----------------------------------------------------------------------------
(* V: transport_poll and mux_process_vxt_comm                               *)

\* Without a free buffer V sleeps and the message stays on the link.
VTake(s) ==
  /\ vp[s].pc = "idle" /\ chan[Peer(s)] # <<>> /\ FreeSpace(s) > 0
  /\ LET i == GetBuf(s)
         m == Head(chan[Peer(s)])
     IN  /\ vp' = [vp EXCEPT ![s] = [pc |-> "msg", fd |-> m.dst, idx |-> i, msg |-> m, out |-> NoMsg]]
         /\ alloted' = [alloted EXCEPT ![s] = @ \cup {i}]
         /\ buf' = [buf EXCEPT ![s][i] = m.data]
  /\ chan' = [chan EXCEPT ![Peer(s)] = Tail(@)]
  /\ UNCHANGED <<ent, sock, clients, flow, lp, tp>>

VHas(s, type) == vp[s].pc = "msg" /\ vp[s].msg.type = type

\* The routine returns, with its buffer reclaimed.
VDone(s) == vp' = [vp EXCEPT ![s] = IdleV] /\ Reclaim(s, vp[s].idx)

\* It sends m first and keeps its buffer until then.
VSays(s, m) == vp' = [vp EXCEPT ![s].pc = "send", ![s].out = m] /\ UNCHANGED pool

VDisconnect(s) ==
  LET f == vp[s].fd IN
  /\ VHas(s, "DISCONNECT") /\ Enter(s, f)
  /\ VDone(s)
  /\ IF Active(s, f, vp[s].msg.cookie)
       THEN ent' = [ent EXCEPT ![s][f] = Marked(@, FALSE, FALSE)] /\ Shut(s, f, ent[s][f])
       ELSE UNCHANGED <<ent, sock>>
  /\ UNCHANGED <<clients, chan, flow, lp, tp>>

\* mux_create_connection_to_xprtld: mux_connect and mux_add_local_fd
VNew(s) ==
  /\ VHas(s, "NEW_CONNECTION") /\ ~Frozen(s) /\ FreeFds(s) # {}
  /\ LET f == Min(FreeFds(s))
     IN  /\ sock' = [sock EXCEPT ![s][f] = NewSocket(s, vp[s].msg.cookie)]
         /\ ent' = [ent EXCEPT ![s][f] = NewEntry(0)]
         /\ vp' = [vp EXCEPT ![s].pc = "map", ![s].fd = f]
  /\ UNCHANGED <<clients, chan, flow, pool, lp, tp>>

ConnectAck(s, f) ==
  [NoMsg EXCEPT !.type = "NEW_CONNECTION_ACK", !.src = f, !.dst = vp[s].msg.src, !.cookie = vp[s].msg.cookie]

VNewFails(s) ==
  /\ VHas(s, "NEW_CONNECTION")
  /\ VSays(s, ConnectAck(s, NoFd))
  /\ UNCHANGED <<ent, sock, clients, chan, flow, lp, tp>>

\* The entry gets its target, cookie and peer.
VMap(s) ==
  LET f == vp[s].fd IN
  /\ vp[s].pc = "map" /\ ~Frozen(s)
  /\ ent' = [ent EXCEPT ![s][f].target = TRUE, ![s][f].cookie = vp[s].msg.cookie,
                        ![s][f].peer = vp[s].msg.src, ![s][f].first = TRUE]
  /\ VSays(s, ConnectAck(s, f))
  /\ UNCHANGED <<sock, clients, chan, flow, lp, tp>>

\* is_fd_active takes a reference.
VAck(s) ==
  LET f == vp[s].fd
      m == vp[s].msg
  IN
  /\ VHas(s, "NEW_CONNECTION_ACK") /\ Enter(s, f)
  /\ \/ /\ ~Active(s, f, m.cookie)
        /\ VSays(s, [NoMsg EXCEPT !.type = "DISCONNECT", !.dst = m.src, !.cookie = m.cookie])
        /\ UNCHANGED ent
     \/ /\ Active(s, f, m.cookie)
        /\ ent' = [ent EXCEPT ![s][f].ref = @ + 1]
        /\ vp' = [vp EXCEPT ![s].pc = "ack"]
        /\ UNCHANGED pool
  /\ UNCHANGED <<sock, clients, chan, flow, lp, tp>>

\* mux_mark_fd_inactive, or mux_update_mapping and mux_connect_response
VAcked(s) ==
  LET f == vp[s].fd
      m == vp[s].msg
      e == ent[s][f]
  IN
  /\ vp[s].pc = "ack" /\ Enter(s, f)
  /\ VDone(s)
  /\ \/ /\ m.src = NoFd
        /\ ent' = [ent EXCEPT ![s][f] = Released(Marked(e, FALSE, FALSE))]
        /\ Shut(s, f, e)
     \/ /\ m.src # NoFd
        /\ ent' = [ent EXCEPT ![s][f] = [Released(e) EXCEPT !.peer = m.src]]
        /\ sock' = [sock EXCEPT ![s][f].ready = TRUE]
  /\ UNCHANGED <<clients, chan, flow, lp, tp>>

VUpdate(s) ==
  /\ VHas(s, "WINDOW_SIZE_UPDATE")
  /\ win' = [win EXCEPT ![s] = vp[s].msg.win]
  /\ VSays(s, [NoMsg EXCEPT !.type = "WINDOW_SIZE_UPDATE_ACK", !.win = FreeSpace(s)])
  /\ UNCHANGED <<ent, sock, clients, chan, asked, lp, tp>>

VUpdateAck(s) ==
  /\ VHas(s, "WINDOW_SIZE_UPDATE_ACK")
  /\ win' = [win EXCEPT ![s] = vp[s].msg.win]
  /\ asked' = [asked EXCEPT ![s] = FALSE]
  /\ VDone(s)
  /\ UNCHANGED <<ent, sock, clients, chan, lp, tp>>

\* Fault: no reference is taken.
VDataUnreferenced(s) ==
  /\ VHas(s, "DATA") /\ Enter(s, vp[s].fd)
  /\ \/ ~Active(s, vp[s].fd, 0) /\ VDone(s) /\ UNCHANGED ent
     \/ /\ Active(s, vp[s].fd, 0) /\ UNCHANGED <<ent, pool>>
        /\ vp' = [vp EXCEPT ![s].pc = "check"]
  /\ UNCHANGED <<sock, clients, chan, flow, lp, tp>>

\* assert(get_recv_fd(sendfd)) fails.
VAssert(s) ==
  /\ vp[s].pc = "check" /\ ~Frozen(s) /\ ent[s][vp[s].fd].peer = NoFd
  /\ vp' = [vp EXCEPT ![s].pc = "abort"]
  /\ UNCHANGED <<ent, sock, clients, chan, flow, pool, lp, tp>>

VData(s) ==
  LET f == vp[s].fd IN
  /\ VHas(s, "DATA") /\ Enter(s, f)
  /\ \/ ~Active(s, f, 0) /\ VDone(s) /\ UNCHANGED ent
     \/ /\ Active(s, f, 0) /\ UNCHANGED pool
        /\ ent' = [ent EXCEPT ![s][f].ref = @ + 1]
        /\ vp' = [vp EXCEPT ![s].pc = "check"]
  /\ UNCHANGED <<sock, clients, chan, flow, lp, tp>>

\* mux_check_client: the dedicated thread at work gets the buffer, and the
\* reference with it, or V sets out to write itself.
Queue(e, i) ==
  [e EXCEPT !.slots[e.end] = i, !.valid[e.end] = TRUE,
            !.start = IF e.added THEN @ ELSE e.end, !.added = TRUE,
            !.end = (@ + 1) % BufCnt]

\* Fault: V writes past the dedicated thread.
VCheckOvertakes(s) ==
  /\ vp[s].pc = "check" /\ Enter(s, vp[s].fd) /\ ent[s][vp[s].fd].peer # NoFd
  /\ ent' = [ent EXCEPT ![s][vp[s].fd].sending = TRUE]
  /\ vp' = [vp EXCEPT ![s].pc = "write"]
  /\ UNCHANGED <<sock, clients, chan, flow, pool, lp, tp, round>>

VCheck(s) ==
  LET f == vp[s].fd
      e == ent[s][f]
  IN
  /\ vp[s].pc = "check" /\ Enter(s, f) /\ e.peer # NoFd
  /\ ent' = [ent EXCEPT ![s][f] = IF e.sending THEN Queue(e, vp[s].idx)
                                  ELSE [e EXCEPT !.sending = TRUE, !.added = FALSE]]
  /\ vp' = [vp EXCEPT ![s] = IF e.sending THEN IdleV ELSE [@ EXCEPT !.pc = "write"]]
  /\ round' = IF e.sending /\ e.end + 1 = BufCnt THEN round \cup {s} ELSE round
  /\ UNCHANGED <<sock, clients, chan, flow, pool, lp, tp>>

Writable(k) == ~k.shut
Fails(k) == k.gone \/ k.shut

\* What the client of descriptor f is given; got has room for one message more
\* than a client writes.
Given(s, f, i) ==
  LET c == sock[s][f].conn IN
  IF sock[s][f].gone \/ Len(got[c][s]) > MaxData THEN got
  ELSE [got EXCEPT ![c][s] = Append(@, buf[s][i])]

VWrite(s) ==
  LET f == vp[s].fd IN
  /\ vp[s].pc = "write" /\ ~Frozen(s) /\ Writable(sock[s][f])
  /\ got' = Given(s, f, vp[s].idx)
  /\ ent' = [ent EXCEPT ![s][f] = Released(Cleared(@))]
  /\ VDone(s)
  /\ UNCHANGED <<sock, wrote, took, opened, chan, flow, lp, tp>>

\* Fault: a thread that could not be created is not noticed.
VSlowAlone(s) ==
  /\ vp[s].pc = "write" /\ Writable(sock[s][vp[s].fd]) /\ ~sock[s][vp[s].fd].block
  /\ vp' = [vp EXCEPT ![s] = IdleV]
  /\ UNCHANGED <<ent, sock, clients, chan, flow, pool, lp, tp>>

\* The socket does not block and is full: a dedicated thread takes the buffer, the flag and the
\* reference over.
VSlow(s) ==
  LET f == vp[s].fd IN
  /\ vp[s].pc = "write" /\ Writable(sock[s][f]) /\ ~sock[s][f].block
  /\ tp' = [tp EXCEPT ![s][f] = [IdleT EXCEPT !.pc = "start", !.idx = vp[s].idx]]
  /\ vp' = [vp EXCEPT ![s] = IdleV]
  /\ UNCHANGED <<ent, sock, clients, chan, flow, pool, lp>>

VBroken(s) ==
  LET f == vp[s].fd
      e == Cleared(ent[s][f])
  IN
  /\ vp[s].pc = "write" /\ ~Frozen(s) /\ Fails(sock[s][f])
  /\ Shut(s, f, e)
  /\ IF Tells(e, TRUE)
       THEN ent' = [ent EXCEPT ![s][f] = Marked(e, FALSE, TRUE)] /\ VSays(s, Farewell(e))
       ELSE ent' = [ent EXCEPT ![s][f] = Released(Marked(e, FALSE, TRUE))] /\ VDone(s)
  /\ UNCHANGED <<clients, chan, flow, lp, tp>>

VSent(s) ==
  LET v == vp[s] IN
  /\ v.pc = "send" /\ Room(s)
  /\ v.msg.type = "DATA" => ~Frozen(s)
  /\ Put(s, v.out)
  /\ VDone(s)
  /\ ent' = IF v.msg.type = "DATA" THEN [ent EXCEPT ![s][v.fd] = Released(@)] ELSE ent
  /\ UNCHANGED <<sock, clients, flow, lp, tp>>

----------------------------------------------------------------------------
(* T: mux_client_thread                                                     *)

\* mux_sock_blocking: nothing makes the socket nonblocking again.
TStart(s, f) ==
  /\ tp[s][f].pc = "start"
  /\ tp' = [tp EXCEPT ![s][f].pc = "write", ![s][f].next = ent[s][f].start]
  /\ sock' = [sock EXCEPT ![s][f].block = TRUE]
  /\ UNCHANGED <<ent, clients, chan, flow, pool, lp, vp>>

\* The records between start and end are cleaned when nothing was added.
Cleaned(e) ==
  [Cleared(e) EXCEPT
     !.valid = [j \in Index |-> @[j] /\ ~(e.start <= j /\ j < e.end)],
     !.slots = [j \in Index |-> IF e.start <= j /\ j < e.end THEN 0 ELSE @[j]]]

\* See if anything got added while the data was sent.  If not, the thread
\* leaves mux_threads_array, where no dedicated thread was ever entered.
TNext(s, f) ==
  LET e == ent[s][f]
      n == tp[s][f].next
      m == (n + 1) % BufCnt
  IN
  IF e.added /\ e.valid[n]
    THEN /\ tp' = [tp EXCEPT ![s][f].idx = e.slots[n], ![s][f].next = m]
         /\ ent' = [ent EXCEPT ![s][f].start = m]
    ELSE /\ tp' = [tp EXCEPT ![s][f] = [IdleT EXCEPT !.pc = IF Recursive THEN "clear" ELSE "abort"]]
         /\ ent' = [ent EXCEPT ![s][f] = Cleaned(e)]

\* Both end with the fd_mutex in hand.
TWrite(s, f) ==
  /\ tp[s][f].pc = "write" /\ Writable(sock[s][f])
  /\ got' = Given(s, f, tp[s][f].idx)
  /\ Reclaim(s, tp[s][f].idx)
  /\ TNext(s, f)
  /\ UNCHANGED <<sock, wrote, took, opened, chan, flow, lp, vp>>

TFails(s, f) ==
  /\ tp[s][f].pc = "write" /\ Fails(sock[s][f])
  /\ Reclaim(s, tp[s][f].idx)
  /\ tp' = [tp EXCEPT ![s][f] = [IdleT EXCEPT !.pc = "fail"]]
  /\ UNCHANGED <<ent, sock, clients, chan, flow, lp, vp>>

\* mux_clear_fd_flags locks the fd_mutex again.  Then the thread gives it up, and
\* its reference, unless mux_mark_fd_inactive is to be called first.
TClear(s, f) ==
  LET e == Cleared(ent[s][f]) IN
  /\ Held(s, f) /\ ~Frozen(s)
  /\ IF Recursive
       THEN IF tp[s][f].pc = "fail" \/ e.inactive
              THEN /\ tp' = [tp EXCEPT ![s][f].pc = "mark"]
                   /\ ent' = [ent EXCEPT ![s][f] = e]
              ELSE /\ tp' = [tp EXCEPT ![s][f] = IdleT]
                   /\ ent' = [ent EXCEPT ![s][f] = Released(e)]
       ELSE tp' = [tp EXCEPT ![s][f].pc = "stuck"] /\ UNCHANGED ent
  /\ UNCHANGED <<sock, clients, chan, flow, pool, lp, vp>>

\* A routine of L or V has mux_demux_array_mutex and asks for the fd_mutex first:
\* is_fd_active, mux_mark_fd_inactive, mux_check_client, release_local_fd_refcnt.
Clash(s, f) ==
  /\ Held(s, f) /\ ~Frozen(s)
  /\ \/ Event(s, f)
     \/ lp[s].pc = "sent" /\ lp[s].fd = f
     \/ /\ vp[s].pc = "msg" /\ vp[s].fd = f /\ Active(s, f, vp[s].msg.cookie)
        /\ vp[s].msg.type \in {"DISCONNECT", "NEW_CONNECTION_ACK", "DATA"}
     \/ vp[s].pc = "check" /\ vp[s].fd = f
  /\ tp' = [tp EXCEPT ![s][f].pc = "stuck"]
  /\ UNCHANGED <<ent, sock, clients, chan, flow, pool, lp, vp>>

TMark(s, f) ==
  LET e == ent[s][f] IN
  /\ tp[s][f].pc = "mark" /\ ~Frozen(s)
  /\ Shut(s, f, e)
  /\ IF Tells(e, TRUE)
       THEN /\ ent' = [ent EXCEPT ![s][f] = Marked(e, FALSE, TRUE)]
            /\ tp' = [tp EXCEPT ![s][f] = [IdleT EXCEPT !.pc = "send", !.out = Farewell(e)]]
       ELSE /\ ent' = [ent EXCEPT ![s][f] = Released(Marked(e, FALSE, TRUE))]
            /\ tp' = [tp EXCEPT ![s][f] = IdleT]
  /\ UNCHANGED <<clients, chan, flow, pool, lp, vp>>

TSent(s, f) ==
  /\ tp[s][f].pc = "send" /\ Room(s) /\ ~Frozen(s)
  /\ Put(s, tp[s][f].out)
  /\ ent' = [ent EXCEPT ![s][f] = Released(@)]
  /\ tp' = [tp EXCEPT ![s][f] = IdleT]
  /\ UNCHANGED <<sock, clients, flow, pool, lp, vp>>

----------------------------------------------------------------------------
LScan(s, f) == LInactive(s, f) \/ LClosed(s, f) \/ LHandshake(s, f) \/ LAsk(s, f) \/ LRead(s, f)
LRest(s) == LSent(s) \/ LReturn(s)
VRun(s) ==
  \/ VTake(s) \/ VDisconnect(s) \/ VNew(s) \/ VNewFails(s) \/ VMap(s) \/ VAck(s) \/ VAcked(s)
  \/ VUpdate(s) \/ VUpdateAck(s) \/ VData(s) \/ VAssert(s) \/ VWrite(s) \/ VSlow(s) \/ VBroken(s)
  \/ VSent(s)
TRun(s, f) ==
  \/ TStart(s, f) \/ TWrite(s, f) \/ TFails(s, f) \/ TClear(s, f) \/ TMark(s, f) \/ TSent(s, f)

LScans(s, f) == Up(s) /\ LScan(s, f) /\ UNCHANGED history
LRests(s) == Up(s) /\ LRest(s) /\ UNCHANGED history
VRuns(s) == Up(s) /\ ((VRun(s) /\ UNCHANGED history) \/ (VCheck(s) /\ UNCHANGED late))
TRuns(s, f) == Up(s) /\ TRun(s, f) /\ UNCHANGED history

Clients ==
  \/ Open
  \/ \E s \in Side, f \in Fd : Write(s, f) \/ Close(s, f)

Next ==
  \/ (Clients /\ UNCHANGED history)
  \/ \E s \in Side : (Up(s) /\ LCollect(s) /\ UNCHANGED round) \/ LRests(s) \/ VRuns(s)
  \/ \E s \in Side, f \in Fd : LScans(s, f) \/ TRuns(s, f)
  \/ \E s \in Side, f \in Fd : Up(s) /\ Clash(s, f) /\ UNCHANGED history

Spec == Init /\ [][Next]_vars

\* Every thread runs; L looks at all descriptors poll reports in every round,
\* so one that reports again and again is looked at.  A client that is open
\* reads in the end.
Fairness ==
  /\ \A s \in Side : WF_vars(LRests(s)) /\ WF_vars(VRuns(s))
  /\ \A s \in Side, f \in Fd : SF_vars(LScans(s, f))
  /\ \A s \in NonBlocking : WF_vars(\E f \in Fd : TRuns(s, f))

FairSpec == Spec /\ Fairness

----------------------------------------------------------------------------
(* Properties                                                               *)

\* Each end of a connection is given what the other end wrote, in the order it
\* was written, without a gap, and nothing of another connection, through V, the
\* queue of a descriptor and its dedicated thread.  Two things can break it: the
\* queue of a descriptor went round (mxt.c:1614-1644 leaves the marks of the
\* places it has emptied), or a descriptor was collected that data was still to
\* come for (mux_remove_local_fds, data carries no cookie).
InOrder ==
  \A c \in Conn, s \in Side :
    \/ s \in round \cup late
    \/ /\ Len(got[c][s]) <= took[c][Peer(s)]
       /\ \A n \in DOMAIN got[c][s] : got[c][s][n] = [conn |-> c, item |-> n]

\* The buffers queued for the dedicated thread of f, still to be written
Waiting(s, f) ==
  LET e == ent[s][f] IN
  {j \in Index : IF e.start <= e.end THEN e.start <= j /\ j < e.end ELSE e.start <= j \/ j < e.end}

\* The users of buffer i
Users(s, i) ==
  (IF vp[s].idx = i THEN {<<"V">>} ELSE {})
  \cup {<<"T", f>> : f \in {g \in Fd : tp[s][g].idx = i}}
  \cup UNION {{<<"Q", f, j>> : j \in {k \in Waiting(s, f) : ent[s][f].slots[k] = i}} : f \in Fd}

\* A buffer in use has one user, and one that was given back has none.
OneUser ==
  \A s \in Side, i \in Index :
    s \in round \/ Cardinality(Users(s, i)) = (IF i \in alloted[s] THEN 1 ELSE 0)

\* An entry that V or a dedicated thread works on is there and referenced.
Referenced ==
  \A s \in Side, f \in Fd :
    (vp[s].pc \in {"ack", "check", "write"} /\ vp[s].fd = f) \/ tp[s][f].pc # "none"
      => ent[s][f].used /\ ent[s][f].ref > 0

\* assert(get_recv_fd(sendfd)) after data has found its descriptor active.
PeerKnown ==
  \A s \in Side :
    vp[s].pc = "abort" => s \in late \/ (ent[s][vp[s].fd].used /\ ent[s][vp[s].fd].inactive)

\* Each buffer in use is held by V, by one dedicated thread or by one place of
\* one queue, and no buffer that was given back is held, until a queue goes
\* round: mux_reclaimbuf clears the buffer and hands it to the next message.  The
\* entry behind a descriptor that V or a dedicated thread works on is not
\* collected.  V's assertion fails for nothing but a descriptor that L marked
\* after is_fd_active, or collected while data was still to come for it.
Owned == OneUser /\ Referenced /\ PeerKnown

\* mxt.c:1608-1618: the dedicated thread goes on to what "got added while we were
\* sending the data", and logs that it is "Processing the newly added data".  The
\* buffer it goes on to is then one that is in use.
NewlyAdded == \A s \in Side, f \in Fd : tp[s][f].idx # NoIndex => tp[s][f].idx \in alloted[s]

Ended(c) ==
  \E s \in Side : ~\E f \in Fd : sock[s][f].conn = c /\ ~sock[s][f].gone /\ ~sock[s][f].shut

\* A dedicated thread failed and left buffers in the queue of its descriptor.
Leaking(s) == \E f \in Fd : tp[s][f].pc = "none" /\ Waiting(s, f) # {}

\* What a domain does not recover from: buffers lost for good, the two mutexes
\* taken in opposite orders (Clash), a failed assertion (VAssert), and what
\* InOrder excepts.
Lost(s) == Leaking(s) \/ Frozen(s) \/ ~Up(s) \/ s \in round \cup late

\* Once the window on the peer opens up the data is read and sent: what either
\* client wrote reaches the other, unless one end of the connection is closed or
\* a domain is lost.
DataMoves ==
  []<>(\/ \E s \in Side : Lost(s)
       \/ \A c \in Conn, s \in Side : Len(got[c][s]) = wrote[c][Peer(s)] \/ Ended(c))
=============================================================================
