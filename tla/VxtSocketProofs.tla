-------------------------- MODULE VxtSocketProofs --------------------------
(***************************************************************************)
(* Reference counts of VxtSocket for any number of threads, sockets and    *)
(* devices, and a client that keeps the rules "late" and "poll"; the       *)
(* devices of a client that keeps "force" too.                             *)
(***************************************************************************)
EXTENDS VxtSocket, FiniteSetTheorems, TLAPS

\* vxt_shutdown or vxt_msg_disconnect on behalf of a forced vxt_close, and on
\* behalf of the thread that drops the last reference.
Forcing(t) ==
  \/ pc[t] \in {"fdisc", "fend"}
  \/ pc[t] \in {"sfind", "ssusp", "sderef"} /\ ret[t] = "fdisc"
  \/ pc[t] \in {"unlink", "remove"} /\ ret[t] = "fend"
Last(t) ==
  \/ pc[t] \in {"ldisc", "lfree"}
  \/ pc[t] \in {"sfind", "ssusp", "sderef"} /\ ret[t] = "ldisc"
  \/ pc[t] \in {"unlink", "remove"} /\ ret[t] = "lfree"

\* The call that will drop the live reference, or return the socket.
Owning(t) ==
  \/ kind[t] = "accept"
  \/ kind[t] \in {"close", "force"} /\ (pc[t] \in {"called", "close2"} \/ Forcing(t))

\* Where a call can be, and which references it has there.
Shape(t) ==
  /\ pc[t] = "idle" => kind[t] = "none" /\ sk[t] = NoSock /\ held[t] = {}
  /\ pc[t] # "idle" => kind[t] # "none"
  /\ pc[t] = "pfind" => kind[t] = "poll" /\ sk[t] = NoSock
  /\ pc[t] # "pfind" => todo[t] = {}
  /\ pc[t] \notin {"idle", "pfind", "using", "afree"} => sk[t] \in held[t]
  /\ pc[t] = "using" => held[t] # {} /\ (IF kind[t] = "poll" THEN sk[t] = NoSock ELSE sk[t] \in held[t])
  /\ pc[t] = "afree" => held[t] = {} /\ kind[t] = "accept" /\ ~arg[t]
  /\ pc[t] \in {"adding", "push", "setdev", "setstate"} => kind[t] \in {"open", "accept"}
  /\ pc[t] = "close2" \/ Forcing(t) => kind[t] \in {"close", "force"}
  /\ pc[t] \in {"sfind", "ssusp", "sderef", "unlink", "remove"} => Forcing(t) \/ Last(t)
  /\ kind[t] = "accept" =>
       pc[t] \in {"called", "adding", "push", "setdev", "setstate", "deref", "afree"}
  /\ kind[t] # "poll" => held[t] \subseteq {sk[t]}
  /\ pc[t] = "called" => kind[t] # "poll"

\* A socket whose live reference a call is about to drop is not the client's
\* any more, and no other call is about to do the same.
Owned(t) ==
  Owning(t) =>
    /\ sk[t] \in base \ given
    /\ \A u \in Thread : Owning(u) /\ sk[u] = sk[t] => u = t

\* Nobody knows the socket that vxt_accept has just made.
Private(t) ==
  kind[t] = "accept" =>
    /\ \A u \in Thread \ {t} : sk[t] \notin held[u]
    /\ ~arg[t] => state[sk[t]] = "DISCONNECTED"

\* The last reference is the last: no one else has one, or gets one.
Alone(t) ==
  Last(t) =>
    /\ \A u \in Thread \ {t} : sk[t] \notin held[u]
    /\ sk[t] \notin base
    /\ pc[t] \notin {"sfind", "ssusp"} => state[sk[t]] # "CONNECTED"

\* What vxt_poll has still to look up is the client's, or the one handle of
\* the call is stale.
Polls(t) ==
  pc[t] = "pfind" =>
    /\ todo[t] # {} /\ todo[t] \cap held[t] = {}
    /\ \/ todo[t] \subseteq given
       \/ held[t] = {} /\ \E h \in Stale : todo[t] = {h}

\* A socket that was ever connected has a device.
HasDev ==
  /\ \A h \in Handle : state[h] # "DISCONNECTED" => dev[h] # None
  /\ \A t \in Thread : pc[t] = "setstate" => dev[sk[t]] # None

Calling(t) == Shape(t) /\ Owned(t) /\ Private(t) /\ Alone(t) /\ Polls(t)

SocketInv ==
  /\ TypeOK /\ HasDev
  /\ NoFreedSocket /\ RefsExact
  /\ given \subseteq base /\ base \subseteq live
  /\ \A t \in Thread : Calling(t)

LEMMA SocketInit == Init => SocketInv
<1>. SUFFICES ASSUME Init PROVE SocketInv
  OBVIOUS
<1>. USE SocketAssumption
<1>1. TypeOK
  BY DEF Init, TypeOK, Handle, NoSock, PCs, Calls
<1>2. HasDev /\ NoFreedSocket /\ RefsExact /\ given \subseteq base /\ base \subseteq live
  BY DEF Init, HasDev, NoFreedSocket, RefsExact
<1>3. ASSUME NEW t \in Thread PROVE Calling(t)
  BY DEF Init, Calling, Shape, Owned, Owning, Private, Alone, Polls, Forcing, Last
<1>. QED
  BY <1>1, <1>2, <1>3 DEF SocketInv

-----------------------------------------------------------------------------
(* What a step of thread t does to the others *)

\* Only thread t moves.
Moves(t) ==
  \A u \in Thread \ {t} :
    /\ pc'[u] = pc[u] /\ kind'[u] = kind[u] /\ sk'[u] = sk[u] /\ arg'[u] = arg[u]
    /\ ret'[u] = ret[u] /\ held'[u] = held[u] /\ todo'[u] = todo[u]

\* The others keep what they have: their live references, their privacy and
\* the handles they poll.
Spares(t) ==
  \A u \in Thread \ {t} :
    /\ Owning(u) => sk[u] \in base' \ given' /\ ~(Owning(t)' /\ sk'[t] = sk[u])
    /\ kind[u] = "accept" \/ Last(u) =>
         sk[u] \notin held'[t] /\ state'[sk[u]] = state[sk[u]]
    /\ Last(u) => sk[u] \notin base'
    /\ pc[u] = "pfind" /\ todo[u] \subseteq given => todo[u] \subseteq given'

LEMMA OthersKept ==
  ASSUME SocketInv, NEW t \in Thread, Moves(t), Spares(t), Stale \subseteq Stale'
  PROVE  \A u \in Thread \ {t} : Calling(u)'
<1>. SUFFICES ASSUME NEW u \in Thread \ {t} PROVE Calling(u)'
  OBVIOUS
<1>1. Calling(u)
  BY DEF SocketInv
<1>2. ASSUME NEW v \in Thread \ {t}
      PROVE  /\ Owning(v)' <=> Owning(v)
             /\ Forcing(v)' <=> Forcing(v)
             /\ Last(v)' <=> Last(v)
  BY DEF Moves, Owning, Forcing, Last
<1>3. Shape(u)'
  BY <1>1, <1>2 DEF Calling, Shape, Moves
<1>4. Owned(u)'
  BY <1>1, <1>2 DEF Calling, Owned, Moves, Spares
<1>5. Private(u)'
  BY <1>1 DEF Calling, Private, Moves, Spares
<1>6. Alone(u)'
  BY <1>1, <1>2 DEF Calling, Alone, Moves, Spares
<1>7. Polls(u)'
  BY <1>1 DEF Calling, Polls, Moves, Spares
<1>. QED
  BY <1>3, <1>4, <1>5, <1>6, <1>7 DEF Calling

LEMMA RefsSame ==
  ASSUME SocketInv, UNCHANGED <<table, ref, base, held>>,
         \A h \in Handle : Inner(h)' = Inner(h)
  PROVE  RefsExact'
<1>1. \A h \in live : h \in Handle
  BY SocketAssumption DEF SocketInv, TypeOK, Handle
<1>2. \A h : Holders(h)' = Holders(h)
  BY DEF Holders
<1>. QED
  BY <1>1, <1>2 DEF SocketInv, RefsExact, table

\* A step of a call that neither begins nor ends anything.
LEMMA LocalStep ==
  ASSUME SocketInv, NEW t \in Thread, TypeOK', HasDev', Moves(t),
         UNCHANGED <<table, given, base, kind, held, todo>>, RefsExact',
         \A h \in Handle \ held[t] : state'[h] = state[h],
         Shape(t)', Alone(t)', pc'[t] # "pfind",
         Owning(t)' => Owning(t) /\ sk'[t] = sk[t],
         kind[t] = "accept" /\ ~arg'[t] => state'[sk'[t]] = "DISCONNECTED"
  PROVE  SocketInv'
<1>1. NoFreedSocket' /\ (given \subseteq base)' /\ (base \subseteq live)'
  BY DEF SocketInv, NoFreedSocket, table
<1>3. Spares(t)
  <2>. SUFFICES ASSUME NEW u \in Thread \ {t}
                PROVE  /\ Owning(u) => sk[u] \in base' \ given' /\ ~(Owning(t)' /\ sk'[t] = sk[u])
                       /\ kind[u] = "accept" \/ Last(u) =>
                            sk[u] \notin held'[t] /\ state'[sk[u]] = state[sk[u]]
                       /\ Last(u) => sk[u] \notin base'
                       /\ pc[u] = "pfind" /\ todo[u] \subseteq given => todo[u] \subseteq given'
    BY DEF Spares
  <2>1. Calling(u) /\ Calling(t)
    BY DEF SocketInv
  <2>2. kind[u] = "accept" \/ Last(u) => sk[u] \in Handle /\ sk[u] \notin held[t]
    BY <2>1 DEF SocketInv, TypeOK, Calling, Private, Alone, Owned, Owning, Shape, Last
  <2>. QED
    BY <2>1, <2>2 DEF Calling, Owned, Alone
<1>4. Stale' = Stale
  BY DEF Stale, table
<1>5. \A u \in Thread \ {t} : Calling(u)'
  BY <1>3, <1>4, OthersKept
<1>6. Calling(t)'
  <2>1. Calling(t)
    BY DEF SocketInv
  <2>2. Owned(t)'
    <3>1. \A u \in Thread \ {t} : Owning(u)' <=> Owning(u)
      BY DEF Moves, Owning, Forcing
    <3>. QED
      BY <2>1, <3>1 DEF Calling, Owned, Moves
  <2>3. Private(t)'
    BY <2>1 DEF Calling, Private, Moves, Owning
  <2>4. Polls(t)'
    BY DEF Polls
  <2>. QED
    BY <2>2, <2>3, <2>4 DEF Calling
<1>. QED
  BY <1>1, <1>5, <1>6 DEF SocketInv

-----------------------------------------------------------------------------
(* Steps without a reference *)

\* Thread t goes on with its socket, with the references it has.
GoesOn(t) ==
  /\ Moves(t)
  /\ UNCHANGED <<table, ref, given, base, kind, held, todo>>
  /\ sk'[t] = sk[t] /\ sk[t] \in held[t]
  /\ pc[t] \in {"ssusp", "sderef"} <=> pc'[t] \in {"ssusp", "sderef"}
  /\ pc'[t] \notin {"idle", "pfind", "afree"}
  /\ \A h \in Handle \ {sk[t]} : state'[h] = state[h]

LEMMA GoOn ==
  ASSUME SocketInv, NEW t \in Thread, TypeOK', HasDev', GoesOn(t),
         Shape(t)', Alone(t)', Owning(t)' => Owning(t),
         kind[t] = "accept" /\ ~arg'[t] => state'[sk[t]] = "DISCONNECTED"
  PROVE  SocketInv'
<1>1. ASSUME NEW h \in Handle PROVE Inner(h)' = Inner(h)
  BY DEF GoesOn, Moves, Inner
<1>. QED
  BY <1>1, RefsSame, LocalStep DEF GoesOn

\* The steps of vxt_bind, vxt_connect and vxt_accept.
LEMMA OpenGoesOn ==
  ASSUME SocketInv, NEW t \in Thread, TypeOK', HasDev', GoesOn(t), kind[t] \in {"open", "accept"},
         pc'[t] \in {"adding", "push", "setdev", "setstate", "deref"},
         ~arg'[t] => ~arg[t] /\ state'[sk[t]] = state[sk[t]]
  PROVE  SocketInv'
<1>1. Calling(t) /\ kind'[t] = kind[t]
  BY DEF SocketInv, GoesOn
<1>2. ~Forcing(t)' /\ ~Last(t)'
  BY DEF Forcing, Last
<1>3. Shape(t)'
  BY <1>1, <1>2 DEF Calling, Shape, GoesOn
<1>4. Alone(t)' /\ (Owning(t)' => Owning(t))
  BY <1>1, <1>2 DEF Alone, Owning
<1>5. kind[t] = "accept" /\ ~arg'[t] => state'[sk[t]] = "DISCONNECTED"
  BY <1>1 DEF Calling, Private
<1>. QED
  BY <1>3, <1>4, <1>5, GoOn

LEMMA OpenTestStep ==
  ASSUME SocketInv, NEW t \in Thread, OpenTest(t) \/ AddFails(t)
  PROVE  SocketInv'
<1>1. TypeOK /\ HasDev /\ Shape(t)
  BY DEF SocketInv, Calling
<1>2. /\ UNCHANGED <<table, socks, list, client, locals>>
      /\ pc[t] \in {"called", "adding"} /\ pc'[t] \in {"adding", "deref"}
      /\ pc' \in [Thread -> PCs] /\ \A u \in Thread \ {t} : pc'[u] = pc[u]
  BY <1>1 DEF OpenTest, AddFails, Goto, TypeOK, PCs
<1>3. kind[t] \in {"open", "accept"} /\ sk[t] \in held[t]
  BY <1>1, <1>2 DEF OpenTest, AddFails, Shape
<1>4. TypeOK'
  BY <1>1, <1>2 DEF TypeOK, table, socks, list, client, locals
<1>5. HasDev'
  BY <1>1, <1>2 DEF HasDev, socks, locals
<1>6. GoesOn(t)
  BY <1>2, <1>3 DEF GoesOn, Moves, socks, client, locals
<1>. QED
  BY <1>2, <1>3, <1>4, <1>5, <1>6, OpenGoesOn DEF socks, locals

LEMMA AddLinksStep ==
  ASSUME SocketInv, NEW t \in Thread, NEW d \in Dev, AddLinks(t, d)
  PROVE  SocketInv'
<1>1. TypeOK /\ HasDev /\ Shape(t)
  BY DEF SocketInv, Calling
<1>2. /\ UNCHANGED <<table, socks, head, client, kind, sk, arg, held, todo, ret>>
      /\ pc[t] = "adding" /\ pc'[t] = "push"
      /\ pc' \in [Thread -> PCs] /\ \A u \in Thread \ {t} : pc'[u] = pc[u]
  BY <1>1 DEF AddLinks, Goto, TypeOK, PCs
<1>3. kind[t] \in {"open", "accept"} /\ sk[t] \in held[t]
  BY <1>1, <1>2 DEF Shape
<1>4. TypeOK'
  <2>1. /\ link' \in [Dev -> Dev \cup {None}] /\ use' \in [Thread -> SUBSET Dev]
        /\ msg' \in [Dev -> {"unused", "attached", "gone"}]
    BY <1>1 DEF AddLinks, TypeOK
  <2>. QED
    BY <1>1, <1>2, <2>1 DEF TypeOK, table, socks, client
<1>5. HasDev'
  BY <1>1, <1>2 DEF HasDev, socks
<1>6. GoesOn(t)
  BY <1>2, <1>3 DEF GoesOn, Moves, socks, client
<1>. QED
  BY <1>2, <1>3, <1>4, <1>5, <1>6, OpenGoesOn DEF socks

LEMMA AddPushesStep ==
  ASSUME SocketInv, NEW t \in Thread, AddPushes(t)
  PROVE  SocketInv'
<1>1. TypeOK /\ HasDev /\ Shape(t)
  BY DEF SocketInv, Calling
<1>2. /\ UNCHANGED <<table, socks, link, msg, client, locals>>
      /\ pc[t] = "push" /\ pc'[t] = "setdev"
      /\ pc' \in [Thread -> PCs] /\ \A u \in Thread \ {t} : pc'[u] = pc[u]
  BY <1>1 DEF AddPushes, Goto, TypeOK, PCs
<1>3. kind[t] \in {"open", "accept"} /\ sk[t] \in held[t]
  BY <1>1, <1>2 DEF Shape
<1>4. TypeOK'
  <2>1. head' \in Dev \cup {None}
    BY <1>1 DEF AddPushes, TypeOK
  <2>. QED
    BY <1>1, <1>2, <2>1 DEF TypeOK, table, socks, client, locals
<1>5. HasDev'
  BY <1>1, <1>2 DEF HasDev, socks, locals
<1>6. GoesOn(t)
  BY <1>2, <1>3 DEF GoesOn, Moves, socks, client, locals
<1>. QED
  BY <1>2, <1>3, <1>4, <1>5, <1>6, OpenGoesOn DEF socks, locals

LEMMA SetDevStep ==
  ASSUME SocketInv, NEW t \in Thread, SetDev(t)
  PROVE  SocketInv'
<1>1. TypeOK /\ HasDev /\ Shape(t)
  BY DEF SocketInv, Calling
<1>2. /\ UNCHANGED <<table, ref, state, opts, list, client, locals>>
      /\ pc[t] = "setdev" /\ pc'[t] = "setstate"
      /\ pc' \in [Thread -> PCs] /\ \A u \in Thread \ {t} : pc'[u] = pc[u]
  BY <1>1 DEF SetDev, Goto, TypeOK, PCs
<1>3. kind[t] \in {"open", "accept"} /\ sk[t] \in held[t] /\ sk[t] \in Handle
  BY <1>1, <1>2 DEF Shape, TypeOK
<1>4. PICK d \in use[t] : dev' = [dev EXCEPT ![sk[t]] = d]
  BY DEF SetDev
<1>5. d \in Dev /\ d # None
  BY <1>1, SocketAssumption DEF TypeOK
<1>6. TypeOK'
  <2>1. dev' \in [Handle -> Dev \cup {None}]
    BY <1>1, <1>4, <1>5 DEF TypeOK
  <2>. QED
    BY <1>1, <1>2, <2>1 DEF TypeOK, table, list, client, locals
<1>7. (\A h \in Handle : dev[h] # None => dev'[h] # None) /\ dev'[sk[t]] # None
  BY <1>1, <1>3, <1>4, <1>5 DEF TypeOK
<1>8. HasDev'
  <2>1. \A u \in Thread : pc[u] = "setstate" => sk[u] \in Handle
    BY DEF SocketInv, Calling, Shape, TypeOK
  <2>. QED
    BY <1>1, <1>2, <1>7, <2>1 DEF HasDev, locals
<1>9. GoesOn(t)
  BY <1>2, <1>3 DEF GoesOn, Moves, client, locals
<1>. QED
  BY <1>2, <1>3, <1>6, <1>8, <1>9, OpenGoesOn DEF locals

LEMMA SetStateStep ==
  ASSUME SocketInv, NEW t \in Thread, SetState(t)
  PROVE  SocketInv'
<1>1. TypeOK /\ HasDev /\ Shape(t)
  BY DEF SocketInv, Calling
<1>2. /\ UNCHANGED <<table, ref, opts, dev, list, client, kind, sk, held, todo, ret>>
      /\ pc[t] = "setstate" /\ pc'[t] = "deref"
      /\ pc' \in [Thread -> PCs] /\ \A u \in Thread \ {t} : pc'[u] = pc[u] /\ arg'[u] = arg[u]
      /\ arg' \in [Thread -> BOOLEAN] /\ arg'[t] /\ use' \in [Thread -> SUBSET Dev]
      /\ state' = [state EXCEPT ![sk[t]] = "CONNECTED"]
  BY <1>1 DEF SetState, Goto, TypeOK, PCs
<1>3. kind[t] \in {"open", "accept"} /\ sk[t] \in held[t] /\ sk[t] \in Handle
  BY <1>1, <1>2 DEF Shape, TypeOK
<1>4. TypeOK'
  BY <1>1, <1>2 DEF TypeOK, table, list, client
<1>5. HasDev'
  BY <1>1, <1>2, <1>3 DEF HasDev, TypeOK
<1>6. GoesOn(t)
  BY <1>1, <1>2, <1>3 DEF GoesOn, Moves, client, TypeOK
<1>. QED
  BY <1>2, <1>3, <1>4, <1>5, <1>6, OpenGoesOn

\* A step that leaves the socket and its state alone.
LEMMA Proceed ==
  ASSUME SocketInv, NEW t \in Thread, TypeOK', GoesOn(t), UNCHANGED <<state, dev, arg>>,
         pc'[t] # "setstate", Shape(t)', Alone(t)', Owning(t)' => Owning(t)
  PROVE  SocketInv'
<1>1. HasDev'
  BY DEF SocketInv, HasDev, GoesOn, Moves
<1>2. kind[t] = "accept" /\ ~arg'[t] => state'[sk[t]] = "DISCONNECTED"
  BY DEF SocketInv, Calling, Private
<1>. QED
  BY <1>1, <1>2, GoOn

LEMMA UseTestStep ==
  ASSUME SocketInv, NEW t \in Thread, UseTest(t)
  PROVE  SocketInv'
<1>1. TypeOK /\ HasDev /\ Shape(t)
  BY DEF SocketInv, Calling
<1>2. /\ UNCHANGED <<table, socks, list, client, kind, sk, arg, held, todo, ret>>
      /\ pc[t] = "called" /\ pc'[t] \in {"using", "deref"} /\ kind[t] \in {"use", "listen"}
      /\ pc' \in [Thread -> PCs] /\ \A u \in Thread \ {t} : pc'[u] = pc[u]
  BY <1>1 DEF UseTest, Goto, TypeOK, PCs
<1>3. sk[t] \in held[t] /\ sk[t] \in Handle
  BY <1>1, <1>2 DEF Shape, TypeOK
<1>4. use' \in [Thread -> SUBSET Dev]
  BY <1>1, <1>3 DEF UseTest, TypeOK, HasDev
<1>5. TypeOK'
  BY <1>1, <1>2, <1>4 DEF TypeOK, table, socks, list, client
<1>6. GoesOn(t)
  BY <1>2, <1>3 DEF GoesOn, Moves, socks, client
<1>7. ~Forcing(t)' /\ ~Last(t)' /\ ~Owning(t)'
  BY <1>2 DEF Forcing, Last, Owning
<1>8. Shape(t)' /\ Alone(t)'
  BY <1>1, <1>2, <1>3, <1>7 DEF Shape, Alone
<1>. QED
  BY <1>2, <1>5, <1>6, <1>7, <1>8, Proceed DEF socks

LEMMA UseReturnStep ==
  ASSUME SocketInv, NEW t \in Thread, UseReturn(t)
  PROVE  SocketInv'
<1>1. TypeOK /\ HasDev /\ Shape(t)
  BY DEF SocketInv, Calling
<1>2. /\ UNCHANGED <<table, socks, list, client, kind, arg, held, todo, ret>>
      /\ pc[t] = "using" /\ pc'[t] = "deref"
      /\ pc' \in [Thread -> PCs] /\ \A u \in Thread \ {t} : pc'[u] = pc[u]
      /\ use' \in [Thread -> SUBSET Dev]
  BY <1>1 DEF UseReturn, Goto, TypeOK, PCs
<1>3. /\ sk' \in [Thread -> Handle \cup {NoSock}] /\ sk'[t] \in held[t]
      /\ \A u \in Thread \ {t} : sk'[u] = sk[u]
  BY <1>1 DEF UseReturn, TypeOK
<1>4. TypeOK'
  BY <1>1, <1>2, <1>3 DEF TypeOK, table, socks, list, client
<1>5. HasDev'
  BY <1>1, <1>2, <1>3 DEF HasDev, socks
<1>6. Moves(t)
  BY <1>2, <1>3 DEF Moves
<1>7. kind[t] # "accept" /\ ~Forcing(t)' /\ ~Last(t)' /\ ~Owning(t)'
  BY <1>1, <1>2 DEF Shape, Forcing, Last, Owning
<1>8. Shape(t)' /\ Alone(t)'
  BY <1>1, <1>2, <1>3, <1>7 DEF Shape, Alone
<1>9. ASSUME NEW h \in Handle PROVE Inner(h)' = Inner(h)
  BY <1>2, <1>3 DEF Inner
<1>. QED
  BY <1>2, <1>4, <1>5, <1>6, <1>7, <1>8, <1>9, RefsSame, LocalStep DEF socks, client

\* vxt_shutdown, called by itself or inside another call.
LEMMA SuspendStep ==
  ASSUME SocketInv, NEW t \in Thread, Shutdown(t) \/ InnerSuspend(t)
  PROVE  SocketInv'
<1>1. TypeOK /\ HasDev /\ Calling(t)
  BY DEF SocketInv
<1>2. /\ UNCHANGED <<table, ref, opts, dev, list, client, locals>> /\ Suspend(sk[t])
      /\ \/ pc[t] = "called" /\ pc'[t] = "deref" /\ kind[t] = "shutdown"
         \/ pc[t] = "ssusp" /\ pc'[t] = "sderef"
      /\ pc' \in [Thread -> PCs] /\ \A u \in Thread \ {t} : pc'[u] = pc[u]
  BY <1>1 DEF Shutdown, InnerSuspend, Goto, TypeOK, PCs
<1>3. sk[t] \in held[t] /\ sk[t] \in Handle /\ kind[t] # "accept"
  BY <1>1, <1>2 DEF Calling, Shape, TypeOK
<1>4. /\ state' \in [Handle -> {"DISCONNECTED", "CONNECTED", "SUSPENDED"}]
      /\ \A h \in Handle : state'[h] # "DISCONNECTED" => state[h] # "DISCONNECTED"
      /\ state'[sk[t]] # "CONNECTED" /\ \A h \in Handle \ {sk[t]} : state'[h] = state[h]
  BY <1>1, <1>2, <1>3 DEF Suspend, TypeOK
<1>5. TypeOK'
  BY <1>1, <1>2, <1>4 DEF TypeOK, table, list, client, locals
<1>6. HasDev'
  BY <1>1, <1>2, <1>4 DEF HasDev, locals
<1>7. GoesOn(t)
  BY <1>2, <1>3, <1>4 DEF GoesOn, Moves, client, locals
<1>8. /\ Forcing(t)' <=> Forcing(t) /\ pc[t] = "ssusp"
      /\ Last(t)' <=> Last(t) /\ pc[t] = "ssusp"
      /\ Owning(t)' => Owning(t)
  BY <1>2, <1>3 DEF Forcing, Last, Owning, locals
<1>9. Shape(t)'
  BY <1>1, <1>2, <1>3, <1>8 DEF Calling, Shape, locals
<1>10. Alone(t)'
  BY <1>1, <1>2, <1>4, <1>8 DEF Calling, Alone, locals, client
<1>. QED
  BY <1>3, <1>5, <1>6, <1>7, <1>8, <1>9, <1>10, GoOn

\* vxt_close up to where it drops the live reference.
LEMMA CloseStep ==
  ASSUME SocketInv, NEW t \in Thread,
         CloseOptions(t) \/ CloseForce(t) \/ ForceDisconnect(t) \/ ForceEnd(t)
  PROVE  SocketInv'
<1>1. TypeOK /\ HasDev /\ Calling(t)
  BY DEF SocketInv
<1>2. /\ UNCHANGED <<table, ref, state, dev, list, client, kind, sk, arg, held, todo>>
      /\ pc[t] \in {"called", "fdisc", "fend"}
      /\ pc[t] = "called" => kind[t] \in {"close", "force"}
  BY DEF CloseOptions, CloseForce, ForceDisconnect, ForceEnd, socks, locals
<1>3. sk[t] \in held[t] /\ sk[t] \in Handle /\ kind[t] \in {"close", "force"}
  BY <1>1, <1>2 DEF Calling, Shape, TypeOK, Forcing
<1>4. /\ pc'[t] \in {"close2", "sfind", "unlink", "fend"}
      /\ pc'[t] = "sfind" => ret'[t] = "fdisc"
      /\ pc'[t] = "unlink" => ret'[t] = "fend"
      /\ pc' \in [Thread -> PCs] /\ ret' \in [Thread -> PCs]
      /\ \A u \in Thread \ {t} : pc'[u] = pc[u] /\ ret'[u] = ret[u]
  <2>1. CASE CloseOptions(t) \/ ForceEnd(t)
    BY <1>1, <2>1 DEF CloseOptions, ForceEnd, Goto, TypeOK, PCs, locals
  <2>2. CASE CloseForce(t)
    BY <1>1, <2>2 DEF CloseForce, Goto, TypeOK, PCs
  <2>3. CASE ForceDisconnect(t)
    BY <1>1, <2>3 DEF ForceDisconnect, Goto, TypeOK, PCs
  <2>. QED
    BY <2>1, <2>2, <2>3
<1>5. opts' \in [Handle -> BOOLEAN]
  BY <1>1 DEF CloseOptions, CloseForce, ForceDisconnect, ForceEnd, socks, TypeOK
<1>6. use' \in [Thread -> SUBSET Dev]
  <2>1. {dev[sk[t]]} \ {None} \in SUBSET Dev
    BY <1>1, <1>3 DEF TypeOK
  <2>. QED
    BY <1>1, <2>1 DEF CloseOptions, CloseForce, ForceDisconnect, ForceEnd, locals, TypeOK
<1>7. TypeOK'
  BY <1>1, <1>2, <1>4, <1>5, <1>6 DEF TypeOK, table, list, client
<1>8. GoesOn(t)
  BY <1>2, <1>3, <1>4 DEF GoesOn, Moves, client
<1>9. ~Last(t)' /\ (pc'[t] \in {"sfind", "unlink", "fend"} => Forcing(t)')
  BY <1>4 DEF Last, Forcing
<1>10. Owning(t)
  BY <1>2, <1>3 DEF Owning, Forcing
<1>11. Shape(t)' /\ Alone(t)'
  BY <1>1, <1>2, <1>3, <1>4, <1>9 DEF Calling, Shape, Alone
<1>. QED
  BY <1>2, <1>4, <1>7, <1>8, <1>10, <1>11, Proceed

\* vxt_msg_disconnect.
LEMMA DisconnectStep ==
  ASSUME SocketInv, NEW t \in Thread, Unlink(t) \/ Remove(t)
  PROVE  SocketInv'
<1>1. TypeOK /\ HasDev /\ Calling(t)
  BY DEF SocketInv
<1>2. /\ UNCHANGED <<table, socks, client, kind, sk, arg, held, todo, ret>>
      /\ pc[t] \in {"unlink", "remove"} /\ pc'[t] \in {"remove", ret[t]}
      /\ \A u \in Thread \ {t} : pc'[u] = pc[u]
      /\ pc' \in [Thread -> PCs]
  BY <1>1 DEF Unlink, Remove, Goto, TypeOK, PCs
<1>3. sk[t] \in held[t] /\ sk[t] \in Handle /\ ret[t] \in {"fend", "lfree"}
      /\ (Forcing(t) <=> ret[t] = "fend") /\ (Last(t) <=> ret[t] = "lfree")
  BY <1>1, <1>2 DEF Calling, Shape, TypeOK, Forcing, Last
<1>4. use' \in [Thread -> SUBSET Dev]
  BY <1>1 DEF Unlink, Remove, TypeOK
<1>5. /\ head' \in Dev \cup {None} /\ link' \in [Dev -> Dev \cup {None}]
      /\ msg' \in [Dev -> {"unused", "attached", "gone"}]
  <2>1. CASE Unlink(t)
    BY <1>1, <2>1 DEF Unlink, list, TypeOK
  <2>2. CASE Remove(t)
    <3>1. PICK d \in use[t] :
               /\ msg' = [msg EXCEPT ![d] = "gone"]
               /\ IF head = d
                    THEN head' = link[d] /\ UNCHANGED link
                    ELSE /\ link' = [p \in Dev |-> IF p \in Listed /\ link[p] = d
                                                     THEN link[d] ELSE link[p]]
                         /\ UNCHANGED head
      BY <2>2 DEF Remove
    <3>2. d \in Dev /\ link[d] \in Dev \cup {None}
      BY <1>1 DEF TypeOK
    <3>. QED
      BY <1>1, <3>1, <3>2 DEF TypeOK
  <2>. QED
    BY <2>1, <2>2
<1>6. TypeOK'
  BY <1>1, <1>2, <1>4, <1>5 DEF TypeOK, table, socks, client
<1>7. GoesOn(t)
  BY <1>2, <1>3 DEF GoesOn, Moves, socks, client
<1>8. /\ Forcing(t)' <=> Forcing(t)
      /\ Last(t)' <=> Last(t)
      /\ Owning(t)' => Owning(t)
  BY <1>2, <1>3 DEF Forcing, Last, Owning
<1>9. Shape(t)'
  BY <1>1, <1>2, <1>3, <1>8 DEF Calling, Shape
<1>10. Alone(t)'
  BY <1>1, <1>2, <1>8 DEF Calling, Alone, socks, client
<1>. QED
  BY <1>2, <1>3, <1>6, <1>7, <1>8, <1>9, <1>10, Proceed DEF socks

\* A count of one leaves no room for anyone else, nor for the live reference.
LEMMA LastReference ==
  ASSUME SocketInv, NEW t \in Thread, NEW h \in live, h \in held[t], ref[h] = 1
  PROVE  h \notin base /\ \A u \in Thread \ {t} : h \notin held[u]
<1>1. IsFiniteSet(Holders(h)) /\ IsFiniteSet(Inner(h))
  BY SocketAssumption, FS_Subset DEF Holders, Inner
<1>2. Cardinality(Holders(h)) \in Nat /\ Cardinality(Inner(h)) \in Nat
  BY <1>1, FS_CardinalityType
<1>3. t \in Holders(h)
  BY DEF Holders
<1>4. Cardinality(Holders(h)) # 0
  BY <1>1, <1>3, FS_EmptySet
<1>5. ref[h] = Cardinality(Holders(h)) + Cardinality(Inner(h)) + (IF h \in base THEN 1 ELSE 0)
  BY DEF SocketInv, RefsExact
<1>6. Cardinality(Holders(h)) = 1 /\ h \notin base
  BY <1>2, <1>4, <1>5
<1>7. PICK x : Holders(h) = {x}
  BY <1>1, <1>6, FS_Singleton
<1>. QED
  BY <1>3, <1>6, <1>7 DEF Holders

LEMMA DerefLastStep ==
  ASSUME SocketInv, NEW t \in Thread, DerefLast(t)
  PROVE  SocketInv'
<1>1. TypeOK /\ HasDev /\ Calling(t)
  BY DEF SocketInv
<1>2. /\ UNCHANGED <<table, socks, list, client, kind, sk, arg, held, use, todo>>
      /\ pc[t] = "deref" /\ sk[t] \in live /\ ref[sk[t]] = 1
      /\ pc'[t] = "sfind" /\ ret'[t] = "ldisc"
      /\ pc' \in [Thread -> PCs] /\ ret' \in [Thread -> PCs]
      /\ \A u \in Thread \ {t} : pc'[u] = pc[u] /\ ret'[u] = ret[u]
  BY <1>1 DEF DerefLast, Goto, TypeOK, PCs
<1>3. sk[t] \in held[t]
  BY <1>1, <1>2 DEF Calling, Shape
<1>4. sk[t] \notin base /\ \A u \in Thread \ {t} : sk[t] \notin held[u]
  BY <1>2, <1>3, LastReference
<1>5. kind[t] # "accept"
  BY <1>1, <1>4 DEF Calling, Owned, Owning
<1>6. TypeOK'
  BY <1>1, <1>2 DEF TypeOK, table, socks, list, client
<1>7. GoesOn(t)
  BY <1>2, <1>3 DEF GoesOn, Moves, socks, client
<1>8. Last(t)' /\ ~Forcing(t)' /\ ~Owning(t)'
  BY <1>2, <1>5 DEF Last, Forcing, Owning
<1>9. Shape(t)'
  BY <1>1, <1>2, <1>3, <1>5, <1>8 DEF Calling, Shape
<1>10. Alone(t)'
  BY <1>2, <1>4 DEF Alone, client
<1>. QED
  BY <1>2, <1>6, <1>7, <1>8, <1>9, <1>10, Proceed DEF socks

LEMMA LastDisconnectStep ==
  ASSUME SocketInv, NEW t \in Thread, LastDisconnect(t)
  PROVE  SocketInv'
<1>1. TypeOK /\ HasDev /\ Calling(t)
  BY DEF SocketInv
<1>2. UNCHANGED <<table, socks, list, client, kind, sk, arg, held, todo>> /\ pc[t] = "ldisc"
  BY DEF LastDisconnect
<1>3. sk[t] \in held[t] /\ sk[t] \in Handle /\ Last(t)
  BY <1>1, <1>2 DEF Calling, Shape, TypeOK, Last
<1>4. /\ pc'[t] \in {"unlink", "lfree"} /\ (pc'[t] = "unlink" => ret'[t] = "lfree")
      /\ pc' \in [Thread -> PCs] /\ ret' \in [Thread -> PCs]
      /\ \A u \in Thread \ {t} : pc'[u] = pc[u] /\ ret'[u] = ret[u]
  BY <1>1 DEF LastDisconnect, Goto, TypeOK, PCs
<1>5. use' \in [Thread -> SUBSET Dev]
  BY <1>1, <1>3 DEF LastDisconnect, TypeOK, HasDev
<1>6. TypeOK'
  BY <1>1, <1>2, <1>4, <1>5 DEF TypeOK, table, socks, list, client
<1>7. GoesOn(t)
  BY <1>2, <1>3, <1>4 DEF GoesOn, Moves, socks, client
<1>8. Last(t)' /\ ~Forcing(t)' /\ kind[t] # "accept" /\ ~Owning(t)'
  BY <1>1, <1>2, <1>4 DEF Calling, Shape, Last, Forcing, Owning
<1>9. Shape(t)'
  BY <1>1, <1>2, <1>3, <1>4, <1>8 DEF Calling, Shape
<1>10. Alone(t)'
  BY <1>1, <1>2, <1>3 DEF Calling, Alone, socks, client
<1>. QED
  BY <1>2, <1>4, <1>6, <1>7, <1>8, <1>9, <1>10, Proceed DEF socks

-----------------------------------------------------------------------------
(* Steps that take or drop a reference *)

LEMMA CountFacts ==
  ASSUME NEW S, NEW x, IsFiniteSet(S)
  PROVE  /\ Cardinality(S) \in Nat
         /\ x \notin S => Cardinality(S \cup {x}) = Cardinality(S) + 1
         /\ x \in S => Cardinality(S \ {x}) = Cardinality(S) - 1
         /\ Cardinality({}) = 0 /\ Cardinality({x}) = 1
BY FS_CardinalityType, FS_AddElement, FS_RemoveElement, FS_EmptySet, FS_Singleton

LEMMA CountedSets ==
  ASSUME NEW h
  PROVE  /\ IsFiniteSet(Holders(h)) /\ Cardinality(Holders(h)) \in Nat
         /\ IsFiniteSet(Inner(h)) /\ Cardinality(Inner(h)) \in Nat
<1>1. IsFiniteSet(Holders(h)) /\ IsFiniteSet(Inner(h))
  BY SocketAssumption, FS_Subset DEF Holders, Inner
<1>. QED
  BY <1>1, FS_CardinalityType

\* The socket a working thread has is in the table, and every handle handed
\* out is older than the next one.
LEMMA KnownHandles ==
  ASSUME SocketInv
  PROVE  /\ handles \notin live /\ handles \notin base /\ handles \notin given
         /\ live \subseteq Handle
         /\ \A u \in Thread : handles \notin held[u] /\ sk[u] # handles /\ handles \notin todo[u]
<1>1. TypeOK /\ given \subseteq base /\ base \subseteq live
  BY DEF SocketInv
<1>2. handles \notin live /\ live \subseteq Handle /\ handles # NoSock /\ handles \notin Stale
  BY <1>1, SocketAssumption DEF TypeOK, Handle, NoSock, Stale
<1>3. ASSUME NEW u \in Thread
      PROVE  handles \notin held[u] /\ sk[u] # handles /\ handles \notin todo[u]
  <2>1. Calling(u) /\ held[u] \subseteq live
    BY DEF SocketInv, NoFreedSocket
  <2>2. sk[u] \in held[u] \cup base \cup {NoSock}
    BY <2>1 DEF Calling, Shape, Owned, Owning
  <2>. QED
    BY <1>1, <1>2, <2>1, <2>2 DEF Calling, Polls, Shape
<1>. QED
  BY <1>1, <1>2, <1>3

LEMMA SocketStep ==
  ASSUME SocketInv, NEW t \in Thread, Socket(t)
  PROVE  SocketInv'
<1>1. TypeOK /\ HasDev /\ Calling(t) /\ given \subseteq base /\ base \subseteq live
  BY DEF SocketInv
<1>2. /\ UNCHANGED <<list, keep, pc, locals>> /\ pc[t] = "idle"
      /\ handles \in Handle /\ handles' = handles + 1 /\ live' = live \cup {handles}
      /\ ref' = [ref EXCEPT ![handles] = 1] /\ state' = [state EXCEPT ![handles] = "DISCONNECTED"]
      /\ opts' = [opts EXCEPT ![handles] = FALSE] /\ dev' = [dev EXCEPT ![handles] = None]
      /\ base' = base \cup {handles} /\ given' = given \cup {handles}
  BY <1>1, SocketAssumption DEF Socket, NewSocket, TypeOK, Handle
<1>3. handles' \in 1 .. MaxHandle + 1 /\ live' \subseteq 1 .. handles' - 1 /\ Stale \subseteq Stale'
  BY <1>1, <1>2, SocketAssumption DEF TypeOK, Handle, Stale
<1>4. TypeOK'
  BY <1>1, <1>2, <1>3 DEF TypeOK, list, locals
<1>5. /\ handles \notin live /\ handles \notin base /\ handles \notin given
      /\ \A u \in Thread : handles \notin held[u] /\ sk[u] # handles /\ handles \notin todo[u]
  BY KnownHandles
<1>6. HasDev'
  BY <1>1, <1>2, <1>5 DEF HasDev, TypeOK, locals
<1>7. NoFreedSocket' /\ (given \subseteq base)' /\ (base \subseteq live)'
  BY <1>1, <1>2 DEF SocketInv, NoFreedSocket, locals
<1>8. RefsExact'
  <2>1. \A h : Holders(h)' = Holders(h) /\ Inner(h)' = Inner(h)
    BY <1>2 DEF Holders, Inner, locals
  <2>. PICK n : n = handles
    OBVIOUS
  <2>2. Holders(n) = {} /\ Inner(n) = {}
    BY <1>5 DEF Holders, Inner
  <2>3. \A h \in live : h \in Handle /\ h # handles
    BY <1>5, KnownHandles
  <2>4. \A h \in live : ref'[h] = ref[h] /\ (h \in base' <=> h \in base)
    BY <1>1, <1>2, <2>3 DEF TypeOK
  <2>5. ref'[n] = 1 /\ Cardinality({}) = 0
    BY <1>1, <1>2, FS_EmptySet DEF TypeOK
  <2>6. ASSUME NEW h \in live'
        PROVE  ref'[h] = Cardinality(Holders(h)') + Cardinality(Inner(h)')
                           + (IF h \in base' THEN 1 ELSE 0)
    <3>1. CASE h \in live
      BY <2>1, <2>4, <3>1 DEF SocketInv, RefsExact
    <3>2. CASE h = n
      BY <1>2, <2>1, <2>2, <2>5, <3>2
    <3>. QED
      BY <1>2, <3>1, <3>2
  <2>. QED
    BY <2>6 DEF RefsExact
<1>9. Moves(t)
  BY <1>2 DEF Moves, locals
<1>10. kind[t] = "none" /\ held[t] = {} /\ todo[t] = {}
  BY <1>1, <1>2 DEF Calling, Shape
<1>11. ~Owning(t)' /\ ~Last(t)' /\ ~Forcing(t)'
  BY <1>2, <1>10 DEF Owning, Last, Forcing, locals
<1>12. Spares(t)
  <2>. SUFFICES ASSUME NEW u \in Thread \ {t}
                PROVE  /\ Owning(u) => sk[u] \in base' \ given' /\ ~(Owning(t)' /\ sk'[t] = sk[u])
                       /\ kind[u] = "accept" \/ Last(u) =>
                            sk[u] \notin held'[t] /\ state'[sk[u]] = state[sk[u]]
                       /\ Last(u) => sk[u] \notin base'
                       /\ pc[u] = "pfind" /\ todo[u] \subseteq given => todo[u] \subseteq given'
    BY DEF Spares
  <2>1. Calling(u)
    BY DEF SocketInv
  <2>2. Owning(u) => sk[u] \in base' \ given'
    BY <1>2, <1>5, <2>1 DEF Calling, Owned
  <2>3. kind[u] = "accept" \/ Last(u) => sk[u] \in Handle
    BY <1>1, <2>1, KnownHandles DEF Calling, Owned, Owning, Shape, Last, TypeOK
  <2>4. kind[u] = "accept" \/ Last(u) => state'[sk[u]] = state[sk[u]]
    BY <1>1, <1>2, <1>5, <2>3 DEF TypeOK
  <2>5. Last(u) => sk[u] \notin base'
    BY <1>2, <1>5, <2>1 DEF Calling, Alone
  <2>. QED
    BY <1>2, <1>10, <1>11, <2>2, <2>4, <2>5 DEF locals
<1>13. Calling(t)'
  <2>1. Shape(t)'
    BY <1>1, <1>2, <1>10, <1>11 DEF Calling, Shape, locals
  <2>. QED
    BY <1>2, <1>10, <1>11, <2>1 DEF Calling, Owned, Private, Alone, Polls, locals
<1>. QED
  BY <1>3, <1>4, <1>6, <1>7, <1>8, <1>9, <1>12, <1>13, OthersKept DEF SocketInv

LEMMA AcceptStep ==
  ASSUME SocketInv, NEW t \in Thread, Accept(t)
  PROVE  SocketInv'
<1>1. TypeOK /\ HasDev /\ Calling(t) /\ given \subseteq base /\ base \subseteq live
  BY DEF SocketInv
<1>2. /\ UNCHANGED <<list, given, keep, use, todo, ret>> /\ pc[t] = "idle"
      /\ handles \in Handle /\ handles' = handles + 1 /\ live' = live \cup {handles}
      /\ ref' = [ref EXCEPT ![handles] = 2] /\ state' = [state EXCEPT ![handles] = "DISCONNECTED"]
      /\ opts' = [opts EXCEPT ![handles] = FALSE] /\ dev' = [dev EXCEPT ![handles] = None]
      /\ base' = base \cup {handles}
  BY <1>1, SocketAssumption DEF Accept, NewSocket, TypeOK, Handle
<1>3. handles' \in 1 .. MaxHandle + 1 /\ live' \subseteq 1 .. handles' - 1 /\ Stale \subseteq Stale'
  BY <1>1, <1>2, SocketAssumption DEF TypeOK, Handle, Stale
<1>4. /\ pc' \in [Thread -> PCs] /\ kind' \in [Thread -> Calls]
      /\ sk' \in [Thread -> Handle \cup {NoSock}] /\ arg' \in [Thread -> BOOLEAN]
      /\ held' \in [Thread -> SUBSET Handle]
      /\ pc'[t] = "called" /\ kind'[t] = "accept" /\ sk'[t] = handles /\ ~arg'[t]
      /\ held'[t] = {handles}
      /\ \A u \in Thread \ {t} : /\ pc'[u] = pc[u] /\ kind'[u] = kind[u] /\ sk'[u] = sk[u]
                                 /\ arg'[u] = arg[u] /\ held'[u] = held[u]
  BY <1>1, <1>2 DEF Accept, Goto, TypeOK, PCs, Calls
<1>5. TypeOK'
  BY <1>1, <1>2, <1>3, <1>4 DEF TypeOK, list
<1>6. /\ handles \notin live /\ handles \notin base /\ handles \notin given
      /\ \A u \in Thread : handles \notin held[u] /\ sk[u] # handles /\ handles \notin todo[u]
  BY KnownHandles
<1>7. HasDev'
  <2>1. \A h \in Handle \ {handles} : state'[h] = state[h] /\ dev'[h] = dev[h]
    BY <1>1, <1>2 DEF TypeOK
  <2>2. state'[handles] = "DISCONNECTED"
    BY <1>1, <1>2 DEF TypeOK
  <2>3. \A u \in Thread : pc[u] = "setstate" => sk[u] \in Handle \ {handles}
    BY <1>6 DEF SocketInv, Calling, Shape, TypeOK
  <2>. QED
    BY <1>1, <1>4, <2>1, <2>2, <2>3 DEF HasDev
<1>8. NoFreedSocket' /\ (given \subseteq base)' /\ (base \subseteq live)'
  BY <1>1, <1>2, <1>4 DEF SocketInv, NoFreedSocket
<1>9. kind[t] = "none" /\ held[t] = {} /\ todo[t] = {}
  BY <1>1, <1>2 DEF Calling, Shape
<1>10. RefsExact'
  <2>1. \A h \in live : Holders(h)' = Holders(h) /\ Inner(h)' = Inner(h)
    BY <1>2, <1>4, <1>6, <1>9 DEF Holders, Inner
  <2>. PICK n : n = handles
    OBVIOUS
  <2>2. Holders(n)' = {t} /\ Inner(n)' = {}
    BY <1>2, <1>4, <1>6 DEF Holders, Inner
  <2>3. \A h \in live : h \in Handle /\ h # handles
    BY <1>6, KnownHandles
  <2>4. \A h \in live : ref'[h] = ref[h] /\ (h \in base' <=> h \in base)
    BY <1>1, <1>2, <2>3 DEF TypeOK
  <2>5. ref'[n] = 2 /\ Cardinality({}) = 0 /\ Cardinality({t}) = 1
    BY <1>1, <1>2, FS_EmptySet, FS_Singleton DEF TypeOK
  <2>6. ASSUME NEW h \in live'
        PROVE  ref'[h] = Cardinality(Holders(h)') + Cardinality(Inner(h)')
                           + (IF h \in base' THEN 1 ELSE 0)
    <3>1. CASE h \in live
      BY <2>1, <2>4, <3>1 DEF SocketInv, RefsExact
    <3>2. CASE h = n
      <4>1. Holders(h)' = {t} /\ Inner(h)' = {}
        BY <2>2, <3>2
      <4>2. h \in base' /\ ref'[h] = 2
        BY <1>2, <2>5, <3>2
      <4>. QED
        BY <2>5, <4>1, <4>2
    <3>. QED
      BY <1>2, <3>1, <3>2
  <2>. QED
    BY <2>6 DEF RefsExact
<1>11. Moves(t)
  BY <1>2, <1>4 DEF Moves
<1>12. Spares(t)
  <2>. SUFFICES ASSUME NEW u \in Thread \ {t}
                PROVE  /\ Owning(u) => sk[u] \in base' \ given' /\ ~(Owning(t)' /\ sk'[t] = sk[u])
                       /\ kind[u] = "accept" \/ Last(u) =>
                            sk[u] \notin held'[t] /\ state'[sk[u]] = state[sk[u]]
                       /\ Last(u) => sk[u] \notin base'
                       /\ pc[u] = "pfind" /\ todo[u] \subseteq given => todo[u] \subseteq given'
    BY DEF Spares
  <2>1. Calling(u)
    BY DEF SocketInv
  <2>2. Owning(u) => sk[u] \in base' \ given'
    BY <1>2, <1>6, <2>1 DEF Calling, Owned
  <2>3. kind[u] = "accept" \/ Last(u) => sk[u] \in Handle
    BY <1>1, <2>1, KnownHandles DEF Calling, Owned, Owning, Shape, Last, TypeOK
  <2>4. kind[u] = "accept" \/ Last(u) => state'[sk[u]] = state[sk[u]]
    BY <1>1, <1>2, <1>6, <2>3 DEF TypeOK
  <2>5. Last(u) => sk[u] \notin base'
    BY <1>2, <1>6, <2>1 DEF Calling, Alone
  <2>. QED
    BY <1>2, <1>4, <1>6, <2>2, <2>4, <2>5
<1>13. Calling(t)'
  <2>1. ~Last(t)' /\ ~Forcing(t)'
    BY <1>4 DEF Last, Forcing
  <2>2. Shape(t)'
    BY <1>2, <1>4, <1>9, <2>1 DEF Shape
  <2>3. Owned(t)' /\ Private(t)'
    BY <1>1, <1>2, <1>4, <1>6 DEF Owned, Private, TypeOK
  <2>. QED
    BY <1>4, <2>1, <2>2, <2>3 DEF Calling, Alone, Polls
<1>. QED
  BY <1>3, <1>5, <1>7, <1>8, <1>10, <1>11, <1>12, <1>13, OthersKept DEF SocketInv

\* A call takes one reference for thread t to socket h.
LEMMA TakeOne ==
  ASSUME SocketInv, NEW t \in Thread, NEW h \in live, UNCHANGED <<table, base>>, Moves(t),
         h \notin held[t], held'[t] = held[t] \cup {h},
         ref' = [ref EXCEPT ![h] = @ + 1],
         pc[t] \notin {"ssusp", "sderef"}, pc'[t] \notin {"ssusp", "sderef"}
  PROVE  RefsExact' /\ NoFreedSocket' /\ ref' \in [Handle -> Nat]
<1>1. ref \in [Handle -> Nat] /\ h \in Handle /\ live \subseteq Handle
  BY KnownHandles DEF SocketInv, TypeOK
<1>2. \A g \in Handle : Inner(g)' = Inner(g)
  BY DEF Inner, Moves
<1>3. Holders(h)' = Holders(h) \cup {t} /\ t \notin Holders(h)
  BY DEF Holders, Moves
<1>4. \A g \in Handle \ {h} : Holders(g)' = Holders(g)
  BY DEF Holders, Moves
<1>5. Cardinality(Holders(h)') = Cardinality(Holders(h)) + 1
  BY <1>3, CountedSets, CountFacts
<1>6. ASSUME NEW g \in live'
      PROVE  ref'[g] = Cardinality(Holders(g)') + Cardinality(Inner(g)')
                         + (IF g \in base' THEN 1 ELSE 0)
  <2>1. g \in live /\ g \in Handle /\ (g \in base' <=> g \in base)
    BY <1>1 DEF table
  <2>2. ref[g] = Cardinality(Holders(g)) + Cardinality(Inner(g)) + (IF g \in base THEN 1 ELSE 0)
    BY <2>1 DEF SocketInv, RefsExact
  <2>3. CASE g # h
    BY <1>1, <1>2, <1>4, <2>1, <2>2, <2>3
  <2>4. CASE g = h
    <3>1. ref'[g] = ref[g] + 1 /\ Cardinality(Holders(g)') = Cardinality(Holders(g)) + 1
      BY <1>1, <1>5, <2>4
    <3>2. Cardinality(Inner(g)') = Cardinality(Inner(g))
      BY <1>2, <2>1
    <3>3. Cardinality(Holders(g)) \in Nat /\ Cardinality(Inner(g)) \in Nat
      BY CountedSets
    <3>. QED
      BY <2>1, <2>2, <3>1, <3>2, <3>3
  <2>. QED
    BY <2>3, <2>4
<1>7. NoFreedSocket'
  BY DEF SocketInv, NoFreedSocket, Moves, table
<1>. QED
  BY <1>1, <1>6, <1>7 DEF RefsExact

\* What is the client's belongs to no vxt_accept and is not being freed.
LEMMA GivenShared ==
  ASSUME SocketInv, NEW h \in given, NEW u \in Thread,
         kind[u] = "accept" \/ Last(u) \/ Owning(u)
  PROVE  sk[u] # h
<1>1. Calling(u) /\ given \subseteq base
  BY DEF SocketInv
<1>. QED
  BY <1>1 DEF Calling, Owned, Owning, Alone

LEMMA CallStep ==
  ASSUME SocketInv, Kept("late"), Kept("poll"), NEW t \in Thread, NEW h \in Handle,
         NEW k \in {"open", "use", "listen", "shutdown", "close", "force"}, NEW a \in BOOLEAN,
         Call(t, h, k, a)
  PROVE  SocketInv'
<1>1. TypeOK /\ HasDev /\ Calling(t) /\ given \subseteq base /\ base \subseteq live
  BY DEF SocketInv
<1>2. /\ UNCHANGED <<table, state, opts, dev, list, base, use, todo, ret>>
      /\ pc[t] = "idle" /\ h \in live /\ h \in given
      /\ ref' = [ref EXCEPT ![h] = @ + 1]
      /\ given' = IF k \in {"close", "force"} THEN given \ {h} ELSE given
      /\ k \in {"close", "force"} => \A u \in Thread : h \notin todo[u]
  BY DEF Call, May
<1>3. /\ pc' \in [Thread -> PCs] /\ kind' \in [Thread -> Calls]
      /\ sk' \in [Thread -> Handle \cup {NoSock}] /\ arg' \in [Thread -> BOOLEAN]
      /\ held' \in [Thread -> SUBSET Handle]
      /\ pc'[t] = "called" /\ kind'[t] = k /\ sk'[t] = h /\ held'[t] = {h}
      /\ \A u \in Thread \ {t} : /\ pc'[u] = pc[u] /\ kind'[u] = kind[u] /\ sk'[u] = sk[u]
                                 /\ arg'[u] = arg[u] /\ held'[u] = held[u]
  BY <1>1 DEF Call, Goto, TypeOK, PCs, Calls
<1>4. keep' \in SUBSET Handle /\ given' \in SUBSET Handle
  BY <1>1, <1>2 DEF Call, TypeOK
<1>5. Moves(t)
  BY <1>2, <1>3 DEF Moves
<1>6. held[t] = {} /\ todo[t] = {}
  BY <1>1, <1>2 DEF Calling, Shape
<1>7. RefsExact' /\ NoFreedSocket' /\ ref' \in [Handle -> Nat]
  <2>1. h \notin held[t] /\ held'[t] = held[t] \cup {h}
    BY <1>3, <1>6
  <2>. QED
    BY <1>2, <1>3, <1>5, <2>1, TakeOne
<1>8. TypeOK'
  BY <1>1, <1>2, <1>3, <1>4, <1>7 DEF TypeOK, table, list
<1>9. HasDev'
  BY <1>1, <1>2, <1>3 DEF HasDev
<1>10. (given \subseteq base)' /\ (base \subseteq live)'
  BY <1>1, <1>2 DEF table
<1>11. Spares(t)
  <2>. SUFFICES ASSUME NEW u \in Thread \ {t}
                PROVE  /\ Owning(u) => sk[u] \in base' \ given' /\ ~(Owning(t)' /\ sk'[t] = sk[u])
                       /\ kind[u] = "accept" \/ Last(u) =>
                            sk[u] \notin held'[t] /\ state'[sk[u]] = state[sk[u]]
                       /\ Last(u) => sk[u] \notin base'
                       /\ pc[u] = "pfind" /\ todo[u] \subseteq given => todo[u] \subseteq given'
    BY DEF Spares
  <2>1. Calling(u) /\ (kind[u] = "accept" \/ Last(u) \/ Owning(u) => sk[u] # h)
    BY <1>2, GivenShared DEF SocketInv
  <2>. QED
    BY <1>2, <1>3, <2>1 DEF Calling, Owned, Alone
<1>12. Calling(t)'
  <2>1. ~Last(t)' /\ ~Forcing(t)'
    BY <1>3 DEF Last, Forcing
  <2>2. Shape(t)'
    BY <1>2, <1>3, <1>6, <2>1 DEF Shape
  <2>3. Owned(t)'
    <3>1. \A u \in Thread \ {t} : Owning(u)' => sk'[u] # h
      <4>. SUFFICES ASSUME NEW u \in Thread \ {t}, Owning(u)' PROVE sk[u] # h
        BY <1>3
      <4>1. Owning(u)
        BY <1>2, <1>3 DEF Owning, Forcing
      <4>. QED
        BY <1>2, <4>1, GivenShared
    <3>2. Owning(t)' => k \in {"close", "force"}
      BY <1>3 DEF Owning
    <3>. QED
      BY <1>1, <1>2, <1>3, <3>1, <3>2 DEF Owned
  <2>. QED
    BY <1>3, <2>1, <2>2, <2>3 DEF Calling, Private, Alone, Polls
<1>13. Stale' = Stale
  BY <1>2 DEF Stale, table
<1>. QED
  BY <1>5, <1>7, <1>8, <1>9, <1>10, <1>11, <1>12, <1>13, OthersKept DEF SocketInv

LEMMA PollCallStep ==
  ASSUME SocketInv, Kept("poll"), NEW t \in Thread, NEW hs \in SUBSET Handle, PollCall(t, hs)
  PROVE  SocketInv'
<1>1. TypeOK /\ HasDev /\ Calling(t) /\ given \subseteq base /\ base \subseteq live
  BY DEF SocketInv
<1>2. /\ UNCHANGED <<table, socks, list, client, sk, arg, held, use, ret>> /\ pc[t] = "idle"
      /\ pc' \in [Thread -> PCs] /\ kind' \in [Thread -> Calls] /\ todo' \in [Thread -> SUBSET Handle]
      /\ pc'[t] = "pfind" /\ kind'[t] = "poll" /\ todo'[t] = hs
      /\ \A u \in Thread \ {t} : pc'[u] = pc[u] /\ kind'[u] = kind[u] /\ todo'[u] = todo[u]
  BY <1>1 DEF PollCall, Goto, TypeOK, PCs, Calls
<1>3. hs # {} /\ (hs \subseteq given \/ \E h \in Stale : hs = {h})
  <2>1. CASE hs \cap Stale = {}
    BY <2>1 DEF PollCall
  <2>2. CASE hs \cap Stale # {}
    <3>1. IsFiniteSet(Handle)
      <4>1. 1 \in Int /\ MaxHandle \in Int
        BY SocketAssumption
      <4>. QED
        BY <4>1, FS_Interval DEF Handle
    <3>2. IsFiniteSet(hs)
      BY <3>1, FS_Subset
    <3>3. Cardinality(hs) = 1
      BY <2>2 DEF PollCall
    <3>4. PICK x : hs = {x}
      BY <3>2, <3>3, FS_Singleton
    <3>. QED
      BY <2>2, <3>4
  <2>. QED
    BY <2>1, <2>2 DEF PollCall
<1>4. TypeOK'
  BY <1>1, <1>2 DEF TypeOK, table, socks, list, client
<1>5. HasDev'
  BY <1>1, <1>2 DEF HasDev, socks
<1>6. RefsExact'
  <2>1. \A h \in Handle : Inner(h)' = Inner(h)
    BY <1>2 DEF Inner
  <2>. QED
    BY <1>2, <2>1, RefsSame DEF socks, client
<1>7. NoFreedSocket' /\ (given \subseteq base)' /\ (base \subseteq live)' /\ Stale' = Stale
  BY <1>1, <1>2 DEF SocketInv, NoFreedSocket, table, client, Stale
<1>8. Moves(t)
  BY <1>2 DEF Moves
<1>9. held[t] = {} /\ sk[t] = NoSock
  BY <1>1, <1>2 DEF Calling, Shape
<1>10. ~Owning(t)' /\ ~Last(t)' /\ ~Forcing(t)'
  BY <1>2 DEF Owning, Last, Forcing
<1>11. Spares(t)
  <2>1. \A u \in Thread : Calling(u)
    BY DEF SocketInv
  <2>. QED
    BY <1>2, <1>9, <1>10, <2>1 DEF Spares, Calling, Owned, Alone, client, socks
<1>12. Calling(t)'
  BY <1>2, <1>3, <1>7, <1>9, <1>10 DEF Calling, Shape, Owned, Private, Alone, Polls, client
<1>. QED
  BY <1>4, <1>5, <1>6, <1>7, <1>8, <1>11, <1>12, OthersKept DEF SocketInv

LEMMA PollFindStep ==
  ASSUME SocketInv, NEW t \in Thread, NEW h \in Handle, PollFind(t, h)
  PROVE  SocketInv'
<1>1. TypeOK /\ HasDev /\ Calling(t) /\ given \subseteq base /\ base \subseteq live
  BY DEF SocketInv
<1>2. /\ UNCHANGED <<table, state, opts, dev, list, client, kind, sk, arg, ret>>
      /\ pc[t] = "pfind" /\ h \in live /\ h \in todo[t]
      /\ ref' = [ref EXCEPT ![h] = @ + 1]
      /\ pc'[t] = IF todo[t] = {h} THEN "using" ELSE "pfind"
      /\ held'[t] = held[t] \cup {h} /\ todo'[t] = todo[t] \ {h}
      /\ pc' \in [Thread -> PCs] /\ held' \in [Thread -> SUBSET Handle]
      /\ todo' \in [Thread -> SUBSET Handle]
      /\ \A u \in Thread \ {t} : pc'[u] = pc[u] /\ held'[u] = held[u] /\ todo'[u] = todo[u]
  BY <1>1 DEF PollFind, Goto, TypeOK, PCs
<1>3. use' \in [Thread -> SUBSET Dev]
  <2>1. {dev[h]} \ {None} \in SUBSET Dev
    BY <1>1 DEF TypeOK
  <2>. QED
    BY <1>1, <2>1 DEF PollFind, TypeOK
<1>4. /\ todo[t] \subseteq given /\ h \in given /\ h \notin held[t] /\ todo[t] \cap held[t] = {}
      /\ kind[t] = "poll" /\ sk[t] = NoSock
  BY <1>1, <1>2 DEF Calling, Shape, Polls, Stale
<1>5. Moves(t)
  BY <1>2 DEF Moves
<1>6. RefsExact' /\ NoFreedSocket' /\ ref' \in [Handle -> Nat]
  BY <1>2, <1>4, <1>5, TakeOne DEF client
<1>7. TypeOK'
  BY <1>1, <1>2, <1>3, <1>6 DEF TypeOK, table, list, client
<1>8. HasDev'
  BY <1>1, <1>2 DEF HasDev
<1>9. (given \subseteq base)' /\ (base \subseteq live)' /\ Stale' = Stale
  BY <1>1, <1>2 DEF table, client, Stale
<1>10. ~Owning(t)' /\ ~Last(t)' /\ ~Forcing(t)'
  BY <1>2, <1>4 DEF Owning, Last, Forcing
<1>11. Spares(t)
  <2>. SUFFICES ASSUME NEW u \in Thread \ {t}
                PROVE  /\ Owning(u) => sk[u] \in base' \ given' /\ ~(Owning(t)' /\ sk'[t] = sk[u])
                       /\ kind[u] = "accept" \/ Last(u) =>
                            sk[u] \notin held'[t] /\ state'[sk[u]] = state[sk[u]]
                       /\ Last(u) => sk[u] \notin base'
                       /\ pc[u] = "pfind" /\ todo[u] \subseteq given => todo[u] \subseteq given'
    BY DEF Spares
  <2>1. Calling(u) /\ (kind[u] = "accept" \/ Last(u) => sk[u] # h)
    BY <1>4, GivenShared DEF SocketInv
  <2>2. kind[u] = "accept" \/ Last(u) => sk[u] \notin held[t]
    BY <2>1 DEF Calling, Private, Alone
  <2>. QED
    BY <1>2, <1>10, <2>1, <2>2 DEF Calling, Owned, Alone, client
<1>12. Calling(t)'
  <2>1. Shape(t)'
    BY <1>2, <1>4, <1>10 DEF Shape
  <2>2. Polls(t)'
    BY <1>2, <1>4 DEF Polls, client
  <2>. QED
    BY <1>2, <1>4, <1>10, <2>1, <2>2 DEF Calling, Owned, Private, Alone
<1>. QED
  BY <1>5, <1>6, <1>7, <1>8, <1>9, <1>11, <1>12, OthersKept DEF SocketInv

\* With the rules kept only the one handle of a call can be stale, so vxt_poll
\* ends without a reference and socket[i] does not matter.
LEMMA PollFailsStep ==
  ASSUME SocketInv, NEW t \in Thread, NEW h \in Handle, PollFails(t, h)
  PROVE  SocketInv'
<1>1. TypeOK /\ HasDev /\ Calling(t) /\ given \subseteq base /\ base \subseteq live
  BY DEF SocketInv
<1>2. pc[t] = "pfind" /\ h \in todo[t] /\ h \notin live
  BY DEF PollFails
<1>3. held[t] = {}
  BY <1>1, <1>2 DEF Calling, Polls
<1>4. /\ UNCHANGED <<table, socks, list, client>> /\ Return(t)
      /\ todo' = [todo EXCEPT ![t] = {}] /\ use' = [use EXCEPT ![t] = {}]
      /\ held' = [held EXCEPT ![t] = {}]
  BY <1>3 DEF PollFails
<1>5. /\ pc' \in [Thread -> PCs] /\ kind' \in [Thread -> Calls]
      /\ sk' \in [Thread -> Handle \cup {NoSock}] /\ arg' \in [Thread -> BOOLEAN]
      /\ held' \in [Thread -> SUBSET Handle] /\ todo' \in [Thread -> SUBSET Handle]
      /\ use' \in [Thread -> SUBSET Dev] /\ ret' \in [Thread -> PCs]
      /\ pc'[t] = "idle" /\ kind'[t] = "none" /\ sk'[t] = NoSock /\ held'[t] = {} /\ todo'[t] = {}
      /\ \A u \in Thread \ {t} : /\ pc'[u] = pc[u] /\ kind'[u] = kind[u] /\ sk'[u] = sk[u]
                                 /\ arg'[u] = arg[u] /\ held'[u] = held[u] /\ todo'[u] = todo[u]
                                 /\ ret'[u] = ret[u]
  BY <1>1, <1>4 DEF Return, Goto, TypeOK, PCs, Calls
<1>6. TypeOK'
  BY <1>1, <1>4, <1>5 DEF TypeOK, table, socks, list, client
<1>7. HasDev'
  BY <1>1, <1>4, <1>5 DEF HasDev, socks
<1>8. RefsExact'
  <2>1. \A g \in Handle : Inner(g)' = Inner(g)
    BY <1>2, <1>5 DEF Inner
  <2>2. held' = held
    BY <1>1, <1>3, <1>4 DEF TypeOK
  <2>. QED
    BY <1>4, <2>1, <2>2, RefsSame DEF socks, client
<1>9. NoFreedSocket' /\ (given \subseteq base)' /\ (base \subseteq live)' /\ Stale' = Stale
  BY <1>1, <1>4, <1>5 DEF SocketInv, NoFreedSocket, table, client, Stale
<1>10. Moves(t)
  BY <1>5 DEF Moves
<1>11. ~Owning(t)' /\ ~Last(t)' /\ ~Forcing(t)'
  BY <1>5 DEF Owning, Last, Forcing
<1>12. Spares(t)
  <2>1. \A u \in Thread : Calling(u)
    BY DEF SocketInv
  <2>. QED
    BY <1>4, <1>5, <1>11, <2>1 DEF Spares, Calling, Owned, Alone, client, socks
<1>13. Calling(t)'
  BY <1>5, <1>11 DEF Calling, Shape, Owned, Private, Alone, Polls
<1>. QED
  BY <1>6, <1>7, <1>8, <1>9, <1>10, <1>12, <1>13, OthersKept DEF SocketInv

\* The vxt_shutdown inside another call takes and drops a reference of its own.
LEMMA InnerStep ==
  ASSUME SocketInv, NEW t \in Thread, InnerFind(t) \/ InnerDeref(t)
  PROVE  SocketInv'
<1>1. TypeOK /\ HasDev /\ Calling(t)
  BY DEF SocketInv
<1>2. /\ UNCHANGED <<table, state, opts, dev, list, client, locals>>
      /\ \/ pc[t] = "sfind" /\ pc'[t] = "ssusp" /\ ref' = [ref EXCEPT ![sk[t]] = @ + 1]
         \/ pc[t] = "sderef" /\ pc'[t] = ret[t] /\ ref' = [ref EXCEPT ![sk[t]] = @ - 1]
      /\ pc' \in [Thread -> PCs] /\ \A u \in Thread \ {t} : pc'[u] = pc[u]
  BY <1>1 DEF InnerFind, InnerDeref, Goto, TypeOK, PCs
<1>3. /\ sk[t] \in held[t] /\ sk[t] \in Handle /\ ret[t] \in {"fdisc", "ldisc"}
      /\ (Forcing(t) <=> ret[t] = "fdisc") /\ (Last(t) <=> ret[t] = "ldisc")
  BY <1>1, <1>2 DEF Calling, Shape, TypeOK, Forcing, Last
<1>4. /\ Forcing(t)' <=> Forcing(t)
      /\ Last(t)' <=> Last(t)
      /\ Owning(t)' => Owning(t)
  BY <1>2, <1>3 DEF Forcing, Last, Owning, locals
<1>5. Shape(t)'
  BY <1>1, <1>2, <1>3, <1>4 DEF Calling, Shape, locals
<1>6. Alone(t)'
  BY <1>1, <1>2, <1>4 DEF Calling, Alone, locals, client
<1>7. \A h : Holders(h)' = Holders(h)
  BY <1>2 DEF Holders, locals
<1>8. \A h \in Handle \ {sk[t]} : Inner(h)' = Inner(h)
  BY <1>2, <1>3 DEF Inner, locals
<1>9. PICK s \in Handle : s = sk[t]
  BY <1>3
<1>10. ref'[s] \in Nat /\ ref'[s] = Cardinality(Holders(s)') + Cardinality(Inner(s)')
                                      + (IF s \in base THEN 1 ELSE 0)
  <2>1. s \in live /\ ref[s] \in Nat
    BY <1>1, <1>3, <1>9 DEF SocketInv, NoFreedSocket, TypeOK
  <2>2. ref[s] = Cardinality(Holders(s)) + Cardinality(Inner(s)) + (IF s \in base THEN 1 ELSE 0)
    BY <2>1 DEF SocketInv, RefsExact
  <2>3. /\ Cardinality(Holders(s)) \in Nat /\ Cardinality(Inner(s)) \in Nat
        /\ Cardinality(Holders(s)') = Cardinality(Holders(s)) /\ IsFiniteSet(Inner(s))
    BY <1>7, CountedSets
  <2>4. CASE pc[t] = "sfind"
    <3>1. Inner(s)' = Inner(s) \cup {t} /\ t \notin Inner(s)
      BY <1>2, <1>9, <2>4 DEF Inner, locals
    <3>2. Cardinality(Inner(s)') = Cardinality(Inner(s)) + 1
      BY <2>3, <3>1, CountFacts
    <3>3. ref'[s] = ref[s] + 1
      BY <1>1, <1>2, <1>9, <2>4 DEF TypeOK
    <3>. QED
      BY <2>1, <2>2, <2>3, <3>2, <3>3
  <2>5. CASE pc[t] = "sderef"
    <3>1. Inner(s)' = Inner(s) \ {t} /\ t \in Inner(s)
      BY <1>2, <1>3, <1>9, <2>5 DEF Inner, locals
    <3>2. Cardinality(Inner(s)') = Cardinality(Inner(s)) - 1
      BY <2>3, <3>1, CountFacts
    <3>3. ref'[s] = ref[s] - 1
      BY <1>1, <1>2, <1>9, <2>5 DEF TypeOK
    <3>4. ref[s] > 1
      BY <1>9, <2>5 DEF InnerFind, InnerDeref
    <3>. QED
      BY <2>1, <2>2, <2>3, <3>2, <3>3, <3>4
  <2>. QED
    BY <1>2, <2>4, <2>5
<1>11. RefsExact'
  <2>. SUFFICES ASSUME NEW g \in live'
                PROVE  ref'[g] = Cardinality(Holders(g)') + Cardinality(Inner(g)')
                                   + (IF g \in base' THEN 1 ELSE 0)
    BY DEF RefsExact
  <2>1. g \in live /\ g \in Handle /\ (g \in base' <=> g \in base)
    BY <1>2, KnownHandles DEF table, client
  <2>2. CASE g = s
    BY <1>10, <2>1, <2>2
  <2>3. CASE g # s
    <3>1. ref'[g] = ref[g]
      BY <1>1, <1>2, <1>9, <2>1, <2>3 DEF TypeOK
    <3>2. Holders(g)' = Holders(g) /\ Inner(g)' = Inner(g)
      BY <1>7, <1>8, <1>9, <2>1, <2>3
    <3>. QED
      BY <2>1, <3>1, <3>2 DEF SocketInv, RefsExact
  <2>. QED
    BY <2>2, <2>3
<1>12. ref' \in [Handle -> Nat]
  BY <1>1, <1>2, <1>9, <1>10 DEF TypeOK
<1>13. TypeOK'
  BY <1>1, <1>2, <1>12 DEF TypeOK, table, list, client, locals
<1>14. HasDev' /\ Moves(t)
  BY <1>1, <1>2, <1>3 DEF HasDev, Moves, locals
<1>15. pc'[t] # "pfind" /\ kind[t] # "accept"
  BY <1>1, <1>2, <1>3 DEF Calling, Shape
<1>. QED
  BY <1>2, <1>4, <1>5, <1>6, <1>11, <1>13, <1>14, <1>15, LocalStep DEF client, locals

\* vxt_close drops the live reference: it was there, and no other call drops it.
LEMMA DropLiveStep ==
  ASSUME SocketInv, NEW t \in Thread, DropLive(t)
  PROVE  SocketInv'
<1>1. TypeOK /\ HasDev /\ Calling(t) /\ given \subseteq base /\ base \subseteq live
  BY DEF SocketInv
<1>2. /\ UNCHANGED <<table, state, opts, dev, list, given, keep, locals>>
      /\ pc[t] = "close2" /\ pc'[t] = "deref"
      /\ ref' = [ref EXCEPT ![sk[t]] = @ - 1] /\ ref[sk[t]] > 1 /\ base' = base \ {sk[t]}
      /\ pc' \in [Thread -> PCs] /\ \A u \in Thread \ {t} : pc'[u] = pc[u]
  BY <1>1 DEF DropLive, Goto, TypeOK, PCs
<1>3. sk[t] \in held[t] /\ sk[t] \in Handle /\ kind[t] \in {"close", "force"} /\ Owning(t)
  BY <1>1, <1>2 DEF Calling, Shape, Owning, TypeOK
<1>4. sk[t] \in base \ given /\ \A u \in Thread : Owning(u) /\ sk[u] = sk[t] => u = t
  BY <1>1, <1>3 DEF Calling, Owned
<1>5. ~Owning(t)' /\ ~Last(t)' /\ ~Forcing(t)'
  BY <1>2, <1>3 DEF Owning, Last, Forcing, locals
<1>6. \A h : Holders(h)' = Holders(h) /\ Inner(h)' = Inner(h)
  BY <1>2 DEF Holders, Inner, locals
<1>7. ref' \in [Handle -> Nat]
  <2>1. ref[sk[t]] \in Nat
    BY <1>1, <1>3 DEF TypeOK
  <2>2. ref[sk[t]] - 1 \in Nat
    BY <1>2, <2>1
  <2>. QED
    BY <1>1, <1>2, <1>3, <2>2 DEF TypeOK
<1>8. RefsExact'
  <2>. SUFFICES ASSUME NEW g \in live'
                PROVE  ref'[g] = Cardinality(Holders(g)') + Cardinality(Inner(g)')
                                   + (IF g \in base' THEN 1 ELSE 0)
    BY DEF RefsExact
  <2>1. g \in live /\ g \in Handle
    BY <1>2, KnownHandles DEF table
  <2>2. ref[g] = Cardinality(Holders(g)) + Cardinality(Inner(g)) + (IF g \in base THEN 1 ELSE 0)
    BY <2>1 DEF SocketInv, RefsExact
  <2>3. Holders(g)' = Holders(g) /\ Inner(g)' = Inner(g)
    BY <1>6
  <2>4. Cardinality(Holders(g)) \in Nat /\ Cardinality(Inner(g)) \in Nat
    BY CountedSets
  <2>5. CASE g = sk[t]
    <3>1. ref'[g] = ref[g] - 1 /\ g \in base /\ g \notin base'
      BY <1>1, <1>2, <1>3, <1>4, <2>5 DEF TypeOK
    <3>. QED
      BY <2>2, <2>3, <2>4, <3>1
  <2>6. CASE g # sk[t]
    <3>1. ref'[g] = ref[g] /\ (g \in base' <=> g \in base)
      BY <1>1, <1>2, <1>3, <2>1, <2>6 DEF TypeOK
    <3>. QED
      BY <2>2, <2>3, <3>1
  <2>. QED
    BY <2>5, <2>6
<1>9. TypeOK'
  BY <1>1, <1>2, <1>7 DEF TypeOK, table, list, locals
<1>10. HasDev' /\ Moves(t)
  BY <1>1, <1>2 DEF HasDev, Moves, locals
<1>11. NoFreedSocket' /\ (given \subseteq base)' /\ (base \subseteq live)' /\ Stale' = Stale
  BY <1>1, <1>2, <1>4 DEF SocketInv, NoFreedSocket, table, locals, Stale
<1>12. Spares(t)
  <2>. SUFFICES ASSUME NEW u \in Thread \ {t}
                PROVE  /\ Owning(u) => sk[u] \in base' \ given' /\ ~(Owning(t)' /\ sk'[t] = sk[u])
                       /\ kind[u] = "accept" \/ Last(u) =>
                            sk[u] \notin held'[t] /\ state'[sk[u]] = state[sk[u]]
                       /\ Last(u) => sk[u] \notin base'
                       /\ pc[u] = "pfind" /\ todo[u] \subseteq given => todo[u] \subseteq given'
    BY DEF Spares
  <2>1. Calling(u)
    BY DEF SocketInv
  <2>2. kind[u] = "accept" \/ Last(u) => sk[u] \notin held[t]
    BY <2>1 DEF Calling, Private, Alone
  <2>. QED
    BY <1>2, <1>4, <1>5, <2>1, <2>2 DEF Calling, Owned, Alone, locals
<1>13. Calling(t)'
  <2>1. Shape(t)'
    BY <1>1, <1>2, <1>3, <1>5 DEF Calling, Shape, locals
  <2>. QED
    BY <1>2, <1>3, <1>5, <2>1 DEF Calling, Owned, Private, Alone, Polls, locals
<1>. QED
  BY <1>8, <1>9, <1>10, <1>11, <1>12, <1>13, OthersKept DEF SocketInv

\* The end of a call on one socket.
LEMMA ThroughStep ==
  ASSUME SocketInv, NEW t \in Thread, pc[t] \in {"deref", "lfree"}, Through(t, sk[t]),
         UNCHANGED <<handles, state, opts, dev, list, base, keep, use, todo>>,
         live' \subseteq live, base \subseteq live', ref' \in [Handle -> Nat]
  PROVE  /\ TypeOK' /\ HasDev' /\ given' \subseteq base
         /\ held'[t] = held[t] \ {sk[t]} /\ \A u \in Thread \ {t} : held'[u] = held[u]
         /\ \A h : Inner(h)' = Inner(h)
         /\ \A u \in Thread : Calling(u)'
<1>1. TypeOK /\ HasDev /\ Calling(t) /\ given \subseteq base /\ base \subseteq live
  BY DEF SocketInv
<1>2. sk[t] \in held[t] /\ sk[t] \in Handle /\ todo[t] = {}
  BY <1>1 DEF Calling, Shape, TypeOK
<1>3. /\ held' = [held EXCEPT ![t] = held[t] \ {sk[t]}]
      /\ \/ /\ held[t] \ {sk[t]} # {} /\ \E g \in held[t] \ {sk[t]} : sk' = [sk EXCEPT ![t] = g]
            /\ Goto(t, "deref") /\ UNCHANGED <<given, kind, arg, ret>>
         \/ /\ held[t] \ {sk[t]} = {} /\ kind[t] = "accept" /\ ~arg[t]
            /\ Goto(t, "afree") /\ UNCHANGED <<given, kind, sk, arg, ret>>
         \/ /\ held[t] \ {sk[t]} = {}
            /\ given' = IF kind[t] = "accept" THEN given \cup {sk[t]} ELSE given
            /\ Return(t)
  BY DEF Through
<1>4. /\ held'[t] = held[t] \ {sk[t]} /\ \A u \in Thread \ {t} : held'[u] = held[u]
      /\ held' \in [Thread -> SUBSET Handle]
  BY <1>1, <1>3 DEF TypeOK
<1>5. /\ pc' \in [Thread -> PCs] /\ kind' \in [Thread -> Calls] /\ arg' \in [Thread -> BOOLEAN]
      /\ sk' \in [Thread -> Handle \cup {NoSock}] /\ ret' \in [Thread -> PCs]
      /\ \A u \in Thread \ {t} : /\ pc'[u] = pc[u] /\ kind'[u] = kind[u] /\ sk'[u] = sk[u]
                                 /\ arg'[u] = arg[u] /\ ret'[u] = ret[u]
      /\ \/ /\ pc'[t] = "deref" /\ kind'[t] = "poll" /\ kind[t] = "poll" /\ sk'[t] \in held'[t]
            /\ given' = given
         \/ /\ pc'[t] = "afree" /\ kind'[t] = "accept" /\ kind[t] = "accept" /\ ~arg[t] /\ ~arg'[t]
            /\ sk'[t] = sk[t] /\ held'[t] = {} /\ given' = given
         \/ /\ pc'[t] = "idle" /\ kind'[t] = "none" /\ sk'[t] = NoSock /\ held'[t] = {}
            /\ given' = IF kind[t] = "accept" THEN given \cup {sk[t]} ELSE given
  <2>1. CASE /\ held[t] \ {sk[t]} # {} /\ \E g \in held[t] \ {sk[t]} : sk' = [sk EXCEPT ![t] = g]
             /\ Goto(t, "deref") /\ UNCHANGED <<given, kind, arg, ret>>
    <3>1. kind[t] = "poll"
      BY <1>1, <2>1 DEF Calling, Shape
    <3>2. PICK g \in held[t] \ {sk[t]} : sk' = [sk EXCEPT ![t] = g]
      BY <2>1
    <3>3. g \in Handle
      BY <1>1 DEF TypeOK
    <3>. QED
      BY <1>1, <1>4, <2>1, <3>1, <3>2, <3>3 DEF TypeOK, Goto, PCs
  <2>2. CASE /\ held[t] \ {sk[t]} = {} /\ kind[t] = "accept" /\ ~arg[t]
             /\ Goto(t, "afree") /\ UNCHANGED <<given, kind, sk, arg, ret>>
    BY <1>1, <1>4, <2>2 DEF TypeOK, Goto, PCs
  <2>3. CASE /\ held[t] \ {sk[t]} = {}
             /\ given' = IF kind[t] = "accept" THEN given \cup {sk[t]} ELSE given
             /\ Return(t)
    BY <1>1, <1>4, <2>3 DEF TypeOK, Return, Goto, PCs, Calls
  <2>. QED
    BY <1>3, <2>1, <2>2, <2>3
<1>6. kind[t] = "accept" =>
        /\ sk[t] \in base \ given /\ Owning(t)
        /\ \A u \in Thread : Owning(u) /\ sk[u] = sk[t] => u = t
        /\ \A u \in Thread \ {t} : sk[t] \notin held[u]
        /\ ~arg[t] => state[sk[t]] = "DISCONNECTED"
  BY <1>1 DEF Calling, Owned, Private, Owning
<1>7. given \subseteq given' /\ given' \subseteq base /\ given' \in SUBSET Handle
  BY <1>1, <1>5, <1>6 DEF TypeOK
<1>8. TypeOK'
  BY <1>1, <1>4, <1>5, <1>7 DEF TypeOK, list
<1>9. HasDev'
  BY <1>1, <1>5 DEF HasDev
<1>10. \A h : Inner(h)' = Inner(h)
  BY <1>5 DEF Inner
<1>11. Moves(t)
  BY <1>4, <1>5 DEF Moves
<1>12. Stale \subseteq Stale'
  BY DEF Stale
<1>13. ~Last(t)' /\ ~Forcing(t)' /\ (Owning(t)' => kind[t] = "accept" /\ sk'[t] = sk[t] /\ given' = given)
  BY <1>5 DEF Last, Forcing, Owning
<1>14. Spares(t)
  <2>. SUFFICES ASSUME NEW u \in Thread \ {t}
                PROVE  /\ Owning(u) => sk[u] \in base' \ given' /\ ~(Owning(t)' /\ sk'[t] = sk[u])
                       /\ kind[u] = "accept" \/ Last(u) =>
                            sk[u] \notin held'[t] /\ state'[sk[u]] = state[sk[u]]
                       /\ Last(u) => sk[u] \notin base'
                       /\ pc[u] = "pfind" /\ todo[u] \subseteq given => todo[u] \subseteq given'
    BY DEF Spares
  <2>1. Calling(u)
    BY DEF SocketInv
  <2>2. kind[u] = "accept" \/ Last(u) => sk[u] \notin held[t]
    BY <2>1 DEF Calling, Private, Alone
  <2>3. Owning(u) => sk[u] \in base \ given'
    BY <1>5, <1>6, <2>1 DEF Calling, Owned
  <2>4. Owning(u) => ~(Owning(t)' /\ sk'[t] = sk[u])
    BY <1>6, <1>13
  <2>. QED
    BY <1>4, <1>7, <2>1, <2>2, <2>3, <2>4 DEF Calling, Alone
<1>15. Calling(t)'
  <2>1. Shape(t)'
    BY <1>2, <1>5, <1>13 DEF Shape
  <2>2. Owned(t)'
    <3>1. \A u \in Thread \ {t} : Owning(u)' <=> Owning(u)
      BY <1>5 DEF Owning, Forcing
    <3>. QED
      BY <1>5, <1>6, <1>13, <3>1 DEF Owned
  <2>3. Private(t)'
    BY <1>4, <1>5, <1>6 DEF Private
  <2>. QED
    BY <1>5, <1>13, <2>1, <2>2, <2>3 DEF Calling, Alone, Polls
<1>. QED
  BY <1>4, <1>7, <1>8, <1>9, <1>10, <1>11, <1>12, <1>14, <1>15, OthersKept

LEMMA DerefStep ==
  ASSUME SocketInv, NEW t \in Thread, Deref(t)
  PROVE  SocketInv'
<1>1. TypeOK /\ Calling(t) /\ given \subseteq base /\ base \subseteq live
  BY DEF SocketInv
<1>2. /\ pc[t] = "deref" /\ sk[t] \in live /\ ref[sk[t]] > 1 /\ Through(t, sk[t])
      /\ ref' = [ref EXCEPT ![sk[t]] = @ - 1]
      /\ UNCHANGED <<table, state, opts, dev, list, base, keep, use, todo>>
  BY DEF Deref
<1>3. sk[t] \in held[t] /\ sk[t] \in Handle
  BY <1>1, <1>2 DEF Calling, Shape, TypeOK
<1>4. PICK s \in Handle : s = sk[t]
  BY <1>3
<1>5. ref[s] \in Nat /\ ref[s] - 1 \in Nat /\ ref'[s] = ref[s] - 1
      /\ \A g \in Handle \ {s} : ref'[g] = ref[g]
  BY <1>1, <1>2, <1>4 DEF TypeOK
<1>6. ref' \in [Handle -> Nat]
  BY <1>1, <1>2, <1>4, <1>5 DEF TypeOK
<1>7. /\ TypeOK' /\ HasDev' /\ given' \subseteq base
      /\ held'[t] = held[t] \ {sk[t]} /\ \A u \in Thread \ {t} : held'[u] = held[u]
      /\ \A h : Inner(h)' = Inner(h)
      /\ \A u \in Thread : Calling(u)'
  BY <1>1, <1>2, <1>6, ThroughStep DEF table
<1>8. Holders(s)' = Holders(s) \ {t} /\ t \in Holders(s)
  BY <1>3, <1>4, <1>7 DEF Holders
<1>9. \A g \in Handle \ {s} : Holders(g)' = Holders(g)
  BY <1>4, <1>7 DEF Holders
<1>10. RefsExact'
  <2>. SUFFICES ASSUME NEW g \in live'
                PROVE  ref'[g] = Cardinality(Holders(g)') + Cardinality(Inner(g)')
                                   + (IF g \in base' THEN 1 ELSE 0)
    BY DEF RefsExact
  <2>1. g \in live /\ g \in Handle /\ (g \in base' <=> g \in base)
    BY <1>2, KnownHandles DEF table
  <2>2. ref[g] = Cardinality(Holders(g)) + Cardinality(Inner(g)) + (IF g \in base THEN 1 ELSE 0)
    BY <2>1 DEF SocketInv, RefsExact
  <2>3. Cardinality(Inner(g)') = Cardinality(Inner(g))
    BY <1>7
  <2>4. Cardinality(Holders(g)) \in Nat /\ Cardinality(Inner(g)) \in Nat
    BY CountedSets
  <2>5. CASE g = s
    <3>1. Cardinality(Holders(g)') = Cardinality(Holders(g)) - 1
      BY <1>8, <2>5, CountedSets, CountFacts
    <3>2. ref'[g] = ref[g] - 1
      BY <1>5, <2>5
    <3>. QED
      BY <2>1, <2>2, <2>3, <2>4, <3>1, <3>2
  <2>6. CASE g # s
    <3>1. ref'[g] = ref[g] /\ Holders(g)' = Holders(g)
      BY <1>5, <1>9, <2>1, <2>6
    <3>. QED
      BY <2>1, <2>2, <2>3, <3>1
  <2>. QED
    BY <2>5, <2>6
<1>11. NoFreedSocket'
  BY <1>2, <1>7 DEF SocketInv, NoFreedSocket, table
<1>. QED
  BY <1>1, <1>2, <1>7, <1>10, <1>11 DEF SocketInv, table

\* The thread with the last reference frees a socket that nobody else has.
LEMMA LastFreeStep ==
  ASSUME SocketInv, NEW t \in Thread, LastFree(t)
  PROVE  SocketInv'
<1>1. TypeOK /\ Calling(t) /\ given \subseteq base /\ base \subseteq live
  BY DEF SocketInv
<1>2. /\ pc[t] = "lfree" /\ Through(t, sk[t])
      /\ UNCHANGED <<handles, socks, list, base, keep, use, todo>>
  BY DEF LastFree
<1>3. /\ sk[t] \notin base /\ state[sk[t]] # "CONNECTED"
      /\ \A u \in Thread \ {t} : sk[t] \notin held[u]
  BY <1>1, <1>2 DEF Calling, Alone, Last
<1>4. live' = live \ {sk[t]}
  BY <1>3 DEF LastFree, Free
<1>5. /\ TypeOK' /\ HasDev' /\ given' \subseteq base
      /\ held'[t] = held[t] \ {sk[t]} /\ \A u \in Thread \ {t} : held'[u] = held[u]
      /\ \A h : Inner(h)' = Inner(h)
      /\ \A u \in Thread : Calling(u)'
  <2>1. live' \subseteq live /\ base \subseteq live' /\ ref' \in [Handle -> Nat]
    BY <1>1, <1>2, <1>3, <1>4 DEF socks, TypeOK
  <2>. QED
    BY <1>2, <2>1, ThroughStep DEF socks
<1>6. \A g \in live' : Holders(g)' = Holders(g)
  BY <1>4, <1>5 DEF Holders
<1>7. RefsExact'
  BY <1>2, <1>4, <1>5, <1>6 DEF SocketInv, RefsExact, socks
<1>8. NoFreedSocket'
  BY <1>3, <1>4, <1>5 DEF SocketInv, NoFreedSocket
<1>. QED
  BY <1>1, <1>2, <1>3, <1>4, <1>5, <1>7, <1>8 DEF SocketInv

\* vxt_accept frees the socket nobody has heard of.
LEMMA AcceptFreeStep ==
  ASSUME SocketInv, NEW t \in Thread, AcceptFree(t)
  PROVE  SocketInv'
<1>1. TypeOK /\ HasDev /\ Calling(t) /\ given \subseteq base /\ base \subseteq live
  BY DEF SocketInv
<1>2. /\ pc[t] = "afree" /\ base' = base \ {sk[t]} /\ Return(t)
      /\ UNCHANGED <<handles, socks, list, given, keep, held, use, todo>>
  BY DEF AcceptFree
<1>3. kind[t] = "accept" /\ ~arg[t] /\ held[t] = {} /\ todo[t] = {} /\ Owning(t)
  BY <1>1, <1>2 DEF Calling, Shape, Owning
<1>4. /\ sk[t] \in base \ given /\ state[sk[t]] = "DISCONNECTED"
      /\ \A u \in Thread : Owning(u) /\ sk[u] = sk[t] => u = t
      /\ \A u \in Thread \ {t} : sk[t] \notin held[u]
  BY <1>1, <1>3 DEF Calling, Owned, Private
<1>5. live' = live \ {sk[t]}
  BY <1>4 DEF AcceptFree, Free
<1>6. /\ pc' \in [Thread -> PCs] /\ kind' \in [Thread -> Calls] /\ arg' \in [Thread -> BOOLEAN]
      /\ sk' \in [Thread -> Handle \cup {NoSock}] /\ ret' \in [Thread -> PCs]
      /\ pc'[t] = "idle" /\ kind'[t] = "none" /\ sk'[t] = NoSock
      /\ \A u \in Thread \ {t} : /\ pc'[u] = pc[u] /\ kind'[u] = kind[u] /\ sk'[u] = sk[u]
                                 /\ arg'[u] = arg[u] /\ ret'[u] = ret[u]
  BY <1>1, <1>2 DEF Return, Goto, TypeOK, PCs, Calls
<1>7. TypeOK'
  BY <1>1, <1>2, <1>5, <1>6 DEF TypeOK, socks, list
<1>8. HasDev'
  BY <1>1, <1>2, <1>6 DEF HasDev, socks
<1>9. NoFreedSocket' /\ (given \subseteq base)' /\ (base \subseteq live)'
  BY <1>1, <1>2, <1>3, <1>4, <1>5 DEF SocketInv, NoFreedSocket
<1>10. RefsExact'
  <2>1. \A h : Holders(h)' = Holders(h) /\ Inner(h)' = Inner(h)
    BY <1>2, <1>6 DEF Holders, Inner
  <2>. QED
    BY <1>2, <1>5, <2>1 DEF SocketInv, RefsExact, socks
<1>11. Moves(t) /\ Stale \subseteq Stale'
  BY <1>2, <1>5, <1>6 DEF Moves, Stale
<1>12. ~Last(t)' /\ ~Forcing(t)' /\ ~Owning(t)'
  BY <1>6 DEF Last, Forcing, Owning
<1>13. Spares(t)
  <2>. SUFFICES ASSUME NEW u \in Thread \ {t}
                PROVE  /\ Owning(u) => sk[u] \in base' \ given' /\ ~(Owning(t)' /\ sk'[t] = sk[u])
                       /\ kind[u] = "accept" \/ Last(u) =>
                            sk[u] \notin held'[t] /\ state'[sk[u]] = state[sk[u]]
                       /\ Last(u) => sk[u] \notin base'
                       /\ pc[u] = "pfind" /\ todo[u] \subseteq given => todo[u] \subseteq given'
    BY DEF Spares
  <2>1. Calling(u)
    BY DEF SocketInv
  <2>. QED
    BY <1>2, <1>3, <1>4, <1>12, <2>1 DEF Calling, Owned, Alone, socks
<1>14. Calling(t)'
  BY <1>2, <1>3, <1>6, <1>12 DEF Calling, Shape, Owned, Private, Alone, Polls
<1>. QED
  BY <1>7, <1>8, <1>9, <1>10, <1>11, <1>13, <1>14, OthersKept DEF SocketInv

-----------------------------------------------------------------------------
(* Every step, and the theorems *)

LEMMA SocketIdle ==
  ASSUME SocketInv, UNCHANGED vars
  PROVE  SocketInv'
<1>. USE DEF vars, table, socks, list, client, locals
<1>1. TypeOK' /\ HasDev' /\ NoFreedSocket' /\ (given \subseteq base)' /\ (base \subseteq live)'
  BY DEF SocketInv, TypeOK, HasDev, NoFreedSocket
<1>2. RefsExact'
  BY DEF SocketInv, RefsExact, Holders, Inner
<1>3. ASSUME NEW t \in Thread PROVE Calling(t)'
  BY DEF SocketInv, Calling, Shape, Owned, Owning, Forcing, Last, Private, Alone, Polls, Stale
<1>. QED
  BY <1>1, <1>2, <1>3 DEF SocketInv

LEMMA SocketNext ==
  ASSUME SocketInv, [Next]_vars, Kept("late"), Kept("poll")
  PROVE  SocketInv'
<1>1. CASE UNCHANGED vars
  BY <1>1, SocketIdle
<1>2. CASE Next
  <2>1. PICK t \in Thread : Begin(t) \/ Sleeper(t) \/ Step(t)
    BY <1>2 DEF Next
  <2>2. CASE Begin(t)
    <3>1. CASE Socket(t) \/ Accept(t)
      BY <3>1, SocketStep, AcceptStep
    <3>2. CASE \E h \in Handle, k \in {"open", "use", "listen", "shutdown"} : Call(t, h, k, FALSE)
      <4>1. PICK h \in Handle, k \in {"open", "use", "listen", "shutdown"} : Call(t, h, k, FALSE)
        BY <3>2
      <4>. QED
        BY <4>1, CallStep
    <3>3. CASE \E h \in Handle, k \in {"close", "force"}, a \in BOOLEAN : Call(t, h, k, a)
      <4>1. PICK h \in Handle, k \in {"close", "force"}, a \in BOOLEAN : Call(t, h, k, a)
        BY <3>3
      <4>. QED
        BY <4>1, CallStep
    <3>4. CASE \E hs \in SUBSET Handle : PollCall(t, hs)
      BY <3>4, PollCallStep
    <3>. QED
      BY <2>2, <3>1, <3>2, <3>3, <3>4 DEF Begin
  <2>3. CASE Sleeper(t)
    <3>1. CASE \E d \in Dev : AddLinks(t, d)
      BY <3>1, AddLinksStep
    <3>2. CASE AddFails(t) \/ UseReturn(t)
      BY <3>2, OpenTestStep, UseReturnStep
    <3>. QED
      BY <2>3, <3>1, <3>2 DEF Sleeper
  <2>4. CASE Step(t)
    <3>1. CASE OpenTest(t) \/ AddPushes(t) \/ SetDev(t) \/ SetState(t) \/ UseTest(t)
      BY <3>1, OpenTestStep, AddPushesStep, SetDevStep, SetStateStep, UseTestStep
    <3>2. CASE \E h \in Handle : PollFind(t, h) \/ PollFails(t, h)
      BY <3>2, PollFindStep, PollFailsStep
    <3>3. CASE \/ Shutdown(t) \/ InnerSuspend(t) \/ CloseOptions(t) \/ CloseForce(t)
               \/ ForceDisconnect(t) \/ ForceEnd(t) \/ Unlink(t) \/ Remove(t)
      BY <3>3, SuspendStep, CloseStep, DisconnectStep
    <3>4. CASE InnerFind(t) \/ InnerDeref(t) \/ DropLive(t) \/ Deref(t)
      BY <3>4, InnerStep, DropLiveStep, DerefStep
    <3>5. CASE DerefLast(t) \/ LastDisconnect(t) \/ LastFree(t) \/ AcceptFree(t)
      BY <3>5, DerefLastStep, LastDisconnectStep, LastFreeStep, AcceptFreeStep
    <3>. QED
      BY <2>4, <3>1, <3>2, <3>3, <3>4, <3>5 DEF Step
  <2>. QED
    BY <2>1, <2>2, <2>3, <2>4
<1>. QED
  BY <1>1, <1>2

LEMMA SocketInvariant ==
  ASSUME Kept("late"), Kept("poll")
  PROVE  Spec => []SocketInv
<1>1. SocketInv /\ [Next]_vars => SocketInv'
  BY SocketNext
<1>. QED
  BY <1>1, SocketInit, PTL DEF Spec

\* The threads, the sockets and the devices keep their types: a reference
\* count never goes below zero, and vxt_send, vxt_recv and vxt_msg_disconnect
\* are never called with a null device, whatever other rules the client breaks.
THEOREM SocketTypes ==
  ASSUME Kept("late"), Kept("poll")
  PROVE  Spec => []TypeOK
<1>1. SocketInv => TypeOK
  BY DEF SocketInv
<1>. QED
  BY <1>1, SocketInvariant, PTL

\* vxt_find_socket and vxt_deref_socket keep ref_cnt exact: the live
\* reference, one for each call in progress and one for each inner
\* vxt_shutdown.
THEOREM RefsExactAlways ==
  ASSUME Kept("late"), Kept("poll")
  PROVE  Spec => []RefsExact
<1>1. SocketInv => RefsExact
  BY DEF SocketInv
<1>. QED
  BY <1>1, SocketInvariant, PTL

-----------------------------------------------------------------------------
(* The devices of a client that keeps "force" as well *)

\* vxt_msg_disconnect has taken the device of socket h away.
Dead(h) == dev[h] # None /\ msg[dev[h]] # "attached"

\* A call that does not look at the device of its sockets any more.
Leaving(t) == pc[t] \in {"fend", "close2", "deref", "unlink", "remove"} \/ Last(t)

\* A device belongs to one socket, and a device nobody made to none.
DevsOnce ==
  /\ \A h, g \in Handle : dev[h] = dev[g] /\ dev[h] # None => h = g
  /\ \A d \in Dev : msg[d] = "unused" =>
       (\A h \in Handle : dev[h] # d) /\ \A t \in Thread : d \notin use[t]

\* A socket whose device is gone is not the client's any more, and only calls
\* on their way out have a reference to it.
DeadLeft ==
  \A h \in Handle : Dead(h) => h \notin given /\ \A u \in Thread : h \in held[u] => Leaving(u)

\* A device not yet in a socket is its maker's alone; a device that is in use,
\* or being disconnected, is that of a socket the call has.
UseOK(t) ==
  /\ pc[t] \in {"push", "setdev"} => \A d \in use[t] :
       /\ msg[d] = "attached" /\ \A h \in Handle : dev[h] # d
       /\ \A u \in Thread \ {t} : d \notin use[u]
  /\ pc[t] \in {"pfind", "using"} => \A d \in use[t] :
       msg[d] = "attached" /\ \A h \in Handle : dev[h] = d => h \in held[t]
  /\ pc[t] \in {"unlink", "remove"} => \A d \in use[t] : dev[sk[t]] = d
  /\ pc[t] \notin {"push", "setdev", "setstate", "pfind", "using", "unlink", "remove"} =>
       use[t] = {}

\* A forced vxt_close has the socket to itself.
ForceOK(t) ==
  /\ Forcing(t) => kind[t] = "force"
  /\ kind[t] = "force" /\ (pc[t] = "called" \/ Forcing(t)) =>
       \A u \in Thread \ {t} : sk[t] \notin held[u]

DevThread(t) == UseOK(t) /\ ForceOK(t) /\ (kind[t] = "accept" => ~Dead(sk[t]))

DevInv == DevsOnce /\ DeadLeft /\ \A t \in Thread : DevThread(t)

\* Thread t moves, and its devices are old ones of its own or those of sockets.
DevMoves(t) ==
  /\ Moves(t) /\ UNCHANGED <<dev, msg>>
  /\ \A u \in Thread \ {t} : use'[u] = use[u]
  /\ \A d \in use'[t] : d \in use[t] \/ \E h \in Handle : dev[h] = d

LEMMA DevStep ==
  ASSUME SocketInv, DevInv, NEW t \in Thread, DevMoves(t), DevThread(t)',
         \A h \in given' : h \in given \/ ~Dead(h),
         \A h \in held'[t] : Dead(h) => Leaving(t)',
         \A u \in Thread \ {t} :
           kind[u] = "force" /\ (pc[u] = "called" \/ Forcing(u)) => sk[u] \notin held'[t]
  PROVE  DevInv'
<1>1. DevsOnce /\ DeadLeft /\ \A u \in Thread : DevThread(u)
  BY DEF DevInv
<1>2. \A h : Dead(h)' <=> Dead(h)
  BY DEF Dead, DevMoves
<1>3. \A u \in Thread \ {t} : (Leaving(u)' <=> Leaving(u)) /\ (Forcing(u)' <=> Forcing(u))
  BY DEF Leaving, Last, Forcing, Moves, DevMoves
<1>4. DevsOnce'
  BY <1>1 DEF DevsOnce, DevMoves
<1>5. DeadLeft'
  BY <1>1, <1>2, <1>3 DEF DeadLeft, DevMoves, Moves
<1>6. ASSUME NEW u \in Thread \ {t} PROVE DevThread(u)'
  <2>1. DevThread(u)
    BY <1>1
  <2>2. UseOK(u)'
    BY <2>1 DEF DevThread, UseOK, DevMoves, Moves
  <2>3. ForceOK(u)'
    BY <1>3, <2>1 DEF DevThread, ForceOK, DevMoves, Moves
  <2>. QED
    BY <1>2, <2>1, <2>2, <2>3 DEF DevThread, DevMoves, Moves
<1>. QED
  BY <1>4, <1>5, <1>6 DEF DevInv

\* A step inside a call.
DevLocal(t) ==
  /\ UNCHANGED <<dev, msg, given, kind, sk, held, todo>>
  /\ \A u \in Thread \ {t} : /\ pc'[u] = pc[u] /\ ret'[u] = ret[u]
                             /\ arg'[u] = arg[u] /\ use'[u] = use[u]
  /\ pc'[t] # "called"
  /\ Forcing(t)' => kind[t] = "force" /\ (pc[t] = "called" \/ Forcing(t))
  /\ Leaving(t) => Leaving(t)'

LEMMA DevLocalStep ==
  ASSUME SocketInv, DevInv, NEW t \in Thread, DevLocal(t), UseOK(t)',
         \A d \in use'[t] : d \in use[t] \/ \E h \in Handle : dev[h] = d
  PROVE  DevInv'
<1>1. DeadLeft /\ DevThread(t) /\ \A u \in Thread : DevThread(u)
  BY DEF DevInv
<1>2. Moves(t) /\ DevMoves(t)
  BY DEF DevLocal, DevMoves, Moves
<1>3. DevThread(t)'
  <2>1. ForceOK(t)'
    BY <1>1 DEF DevThread, ForceOK, DevLocal
  <2>. QED
    BY <1>1, <2>1 DEF DevThread, Dead, DevLocal
<1>4. \A h \in held'[t] : Dead(h) => Leaving(t)'
  BY <1>1 DEF DeadLeft, DevLocal, SocketInv, TypeOK
<1>5. \A u \in Thread \ {t} :
        kind[u] = "force" /\ (pc[u] = "called" \/ Forcing(u)) => sk[u] \notin held'[t]
  BY <1>1 DEF DevThread, ForceOK, DevLocal
<1>6. given' = given
  BY DEF DevLocal
<1>. QED
  BY <1>2, <1>3, <1>4, <1>5, <1>6, DevStep

\* Steps that only move the thread on.
LEMMA DevQuietStep ==
  ASSUME SocketInv, DevInv, NEW t \in Thread,
         \/ OpenTest(t) \/ AddFails(t) \/ AddPushes(t) \/ Shutdown(t) \/ CloseOptions(t)
         \/ ForceEnd(t) \/ InnerFind(t) \/ InnerSuspend(t) \/ InnerDeref(t) \/ DropLive(t)
  PROVE  DevInv'
<1>1. TypeOK /\ Shape(t) /\ UseOK(t) /\ ForceOK(t)
  BY DEF SocketInv, Calling, DevInv, DevThread
<1>2. UNCHANGED <<dev, msg, given, locals>> /\ \A u \in Thread \ {t} : pc'[u] = pc[u]
  <2>1. CASE OpenTest(t) \/ AddFails(t)
    BY <1>1, <2>1 DEF OpenTest, AddFails, Goto, TypeOK, socks, list, client
  <2>2. CASE AddPushes(t) \/ Shutdown(t) \/ CloseOptions(t) \/ ForceEnd(t)
    BY <1>1, <2>2 DEF AddPushes, Shutdown, CloseOptions, ForceEnd, Goto, TypeOK, socks, list, client
  <2>3. CASE InnerFind(t) \/ InnerSuspend(t) \/ InnerDeref(t) \/ DropLive(t)
    BY <1>1, <2>3 DEF InnerFind, InnerSuspend, InnerDeref, DropLive, Goto, TypeOK, list, client
  <2>. QED
    BY <2>1, <2>2, <2>3
<1>3. \/ pc[t] = "called" /\ pc'[t] \in {"adding", "deref", "close2"}
      \/ pc[t] = "adding" /\ pc'[t] = "deref"
      \/ pc[t] = "push" /\ pc'[t] = "setdev"
      \/ pc[t] \in {"fend", "close2"} /\ pc'[t] \in {"close2", "deref"}
      \/ pc[t] = "sfind" /\ pc'[t] = "ssusp"
      \/ pc[t] = "ssusp" /\ pc'[t] = "sderef"
      \/ pc[t] = "sderef" /\ pc'[t] = ret[t]
  <2>1. CASE OpenTest(t) \/ AddFails(t)
    BY <1>1, <2>1 DEF OpenTest, AddFails, Goto, TypeOK
  <2>2. CASE AddPushes(t) \/ Shutdown(t) \/ CloseOptions(t) \/ ForceEnd(t)
    BY <1>1, <2>2 DEF AddPushes, Shutdown, CloseOptions, ForceEnd, Goto, TypeOK
  <2>3. CASE InnerFind(t) \/ InnerSuspend(t) \/ InnerDeref(t) \/ DropLive(t)
    BY <1>1, <2>3 DEF InnerFind, InnerSuspend, InnerDeref, DropLive, Goto, TypeOK
  <2>. QED
    BY <2>1, <2>2, <2>3
<1>4. pc[t] \in {"sfind", "ssusp", "sderef"} => ret[t] \in {"fdisc", "ldisc"}
  BY <1>1 DEF Shape, Forcing, Last
<1>5. DevLocal(t)
  BY <1>1, <1>2, <1>3, <1>4 DEF DevLocal, Forcing, Last, Leaving, ForceOK, locals
<1>6. UseOK(t)'
  BY <1>1, <1>2, <1>3, <1>4 DEF UseOK, locals
<1>. QED
  BY <1>2, <1>5, <1>6, DevLocalStep DEF locals

LEMMA DevSetStateStep ==
  ASSUME SocketInv, DevInv, NEW t \in Thread, SetState(t)
  PROVE  DevInv'
<1>1. TypeOK
  BY DEF SocketInv
<1>2. /\ UNCHANGED <<dev, msg, given, kind, sk, held, todo, ret>>
      /\ \A u \in Thread \ {t} : pc'[u] = pc[u] /\ arg'[u] = arg[u] /\ use'[u] = use[u]
      /\ pc[t] = "setstate" /\ pc'[t] = "deref" /\ use'[t] = {}
  BY <1>1 DEF SetState, Goto, TypeOK, list, client
<1>3. DevLocal(t)
  BY <1>2 DEF DevLocal, Forcing, Last, Leaving
<1>4. UseOK(t)'
  BY <1>2 DEF UseOK
<1>. QED
  BY <1>2, <1>3, <1>4, DevLocalStep

\* A call that is not on its way out finds the device of its socket attached.
LEMMA DevUseTestStep ==
  ASSUME SocketInv, DevInv, NEW t \in Thread, UseTest(t)
  PROVE  DevInv'
<1>1. TypeOK /\ HasDev /\ Shape(t) /\ UseOK(t) /\ DeadLeft /\ DevsOnce
  BY DEF SocketInv, Calling, DevInv, DevThread
<1>2. /\ UNCHANGED <<dev, msg, given, kind, sk, held, todo, ret, arg>>
      /\ \A u \in Thread \ {t} : pc'[u] = pc[u] /\ use'[u] = use[u]
      /\ pc[t] = "called" /\ pc'[t] \in {"using", "deref"}
      /\ \/ state[sk[t]] = "CONNECTED" /\ use'[t] = {dev[sk[t]]} /\ pc'[t] = "using"
         \/ use'[t] = use[t]
  BY <1>1 DEF UseTest, Goto, TypeOK, list, client, socks
<1>3. use[t] = {} /\ sk[t] \in held[t] /\ sk[t] \in Handle
  BY <1>1, <1>2 DEF UseOK, Shape, TypeOK
<1>4. ~Dead(sk[t])
  BY <1>1, <1>2, <1>3 DEF DeadLeft, Leaving, Last
<1>5. DevLocal(t)
  BY <1>2 DEF DevLocal, Forcing, Last, Leaving
<1>6. UseOK(t)'
  <2>1. CASE state[sk[t]] = "CONNECTED" /\ use'[t] = {dev[sk[t]]} /\ pc'[t] = "using"
    <3>1. dev[sk[t]] # None /\ msg[dev[sk[t]]] = "attached"
      BY <1>1, <1>3, <1>4, <2>1 DEF HasDev, Dead
    <3>2. \A h \in Handle : dev[h] = dev[sk[t]] => h = sk[t]
      BY <1>1, <1>3, <3>1 DEF DevsOnce
    <3>. QED
      BY <1>2, <1>3, <2>1, <3>1, <3>2 DEF UseOK
  <2>2. CASE use'[t] = use[t]
    BY <1>2, <1>3, <2>2 DEF UseOK
  <2>. QED
    BY <1>2, <2>1, <2>2
<1>7. \A d \in use'[t] : d \in use[t] \/ \E h \in Handle : dev[h] = d
  BY <1>2, <1>3
<1>. QED
  BY <1>5, <1>6, <1>7, DevLocalStep

\* A forced vxt_close and the last vxt_deref_socket up to vxt_msg_disconnect.
LEMMA DevCloseStep ==
  ASSUME SocketInv, DevInv, NEW t \in Thread,
         CloseForce(t) \/ DerefLast(t) \/ ForceDisconnect(t) \/ LastDisconnect(t)
  PROVE  DevInv'
<1>1. TypeOK /\ Shape(t) /\ UseOK(t) /\ ForceOK(t)
  BY DEF SocketInv, Calling, DevInv, DevThread
<1>2. UNCHANGED <<dev, msg, given, kind, sk, held, todo, arg>>
  BY DEF CloseForce, DerefLast, ForceDisconnect, LastDisconnect, list, client, socks
<1>3. /\ \A u \in Thread \ {t} : pc'[u] = pc[u] /\ ret'[u] = ret[u] /\ use'[u] = use[u]
      /\ \/ /\ pc[t] = "called" /\ kind[t] = "force" /\ pc'[t] = "sfind" /\ ret'[t] = "fdisc"
            /\ use'[t] = use[t]
         \/ /\ pc[t] = "deref" /\ pc'[t] = "sfind" /\ ret'[t] = "ldisc" /\ use'[t] = use[t]
         \/ /\ pc[t] = "fdisc" /\ pc'[t] = "unlink" /\ ret'[t] = "fend"
            /\ use'[t] = {dev[sk[t]]} \ {None}
         \/ pc[t] = "fdisc" /\ pc'[t] = "fend" /\ use'[t] = use[t]
         \/ /\ pc[t] = "ldisc" /\ pc'[t] = "unlink" /\ ret'[t] = "lfree"
            /\ use'[t] = {dev[sk[t]]}
         \/ pc[t] = "ldisc" /\ pc'[t] = "lfree" /\ use'[t] = use[t]
  <2>1. CASE CloseForce(t)
    BY <1>1, <2>1 DEF CloseForce, Goto, TypeOK
  <2>2. CASE DerefLast(t)
    BY <1>1, <2>2 DEF DerefLast, Goto, TypeOK
  <2>3. CASE ForceDisconnect(t)
    BY <1>1, <2>3 DEF ForceDisconnect, Goto, TypeOK
  <2>4. CASE LastDisconnect(t)
    BY <1>1, <2>4 DEF LastDisconnect, Goto, TypeOK
  <2>. QED
    BY <2>1, <2>2, <2>3, <2>4
<1>4. use[t] = {} /\ sk[t] \in Handle
  BY <1>1, <1>3 DEF UseOK, Shape, TypeOK
<1>5. DevLocal(t)
  BY <1>1, <1>2, <1>3 DEF DevLocal, Forcing, Last, Leaving, ForceOK
<1>6. UseOK(t)'
  BY <1>2, <1>3, <1>4 DEF UseOK
<1>7. \A d \in use'[t] : d \in use[t] \/ \E h \in Handle : dev[h] = d
  BY <1>3, <1>4
<1>. QED
  BY <1>5, <1>6, <1>7, DevLocalStep

LEMMA DevUnlinkStep ==
  ASSUME SocketInv, DevInv, NEW t \in Thread, Unlink(t)
  PROVE  DevInv'
<1>1. TypeOK /\ Shape(t) /\ UseOK(t) /\ ForceOK(t)
  BY DEF SocketInv, Calling, DevInv, DevThread
<1>2. UNCHANGED <<dev, msg, given, kind, sk, held, todo, arg, ret>> /\ pc[t] = "unlink"
  BY DEF Unlink, list, client, socks
<1>3. /\ \A u \in Thread \ {t} : pc'[u] = pc[u] /\ use'[u] = use[u]
      /\ \/ pc'[t] = "remove" /\ use'[t] = use[t]
         \/ pc'[t] = ret[t] /\ use'[t] = {}
  <2>1. CASE use[t] \subseteq Listed
    BY <1>1, <2>1 DEF Unlink, Goto, TypeOK
  <2>2. CASE ~(use[t] \subseteq Listed)
    BY <1>1, <2>2 DEF Unlink, Goto, TypeOK
  <2>. QED
    BY <2>1, <2>2
<1>4. ret[t] \in {"fend", "lfree"}
  BY <1>1, <1>2 DEF Shape, Forcing, Last
<1>5. DevLocal(t)
  BY <1>1, <1>2, <1>3, <1>4 DEF DevLocal, Forcing, Last, Leaving, ForceOK
<1>6. UseOK(t)'
  BY <1>1, <1>2, <1>3, <1>4 DEF UseOK
<1>. QED
  BY <1>3, <1>5, <1>6, DevLocalStep

\* A call gives up sockets and devices.
LEMMA DevGivesUp ==
  ASSUME SocketInv, DevInv, NEW t \in Thread, Moves(t), UNCHANGED <<dev, msg>>,
         \A u \in Thread \ {t} : use'[u] = use[u],
         use'[t] = {}, held'[t] \subseteq held[t],
         pc'[t] = "deref" \/ (pc'[t] \in {"idle", "afree"} /\ held'[t] = {}),
         kind'[t] = "accept" => kind[t] = "accept" /\ sk'[t] = sk[t],
         \A h \in given' : h \in given \/ (kind[t] = "accept" /\ h = sk[t])
  PROVE  DevInv'
<1>1. \A u \in Thread : DevThread(u)
  BY DEF DevInv
<1>2. DevMoves(t)
  BY DEF DevMoves
<1>3. DevThread(t)'
  BY <1>1 DEF DevThread, UseOK, ForceOK, Forcing, Dead
<1>4. \A h \in given' : h \in given \/ ~Dead(h)
  BY <1>1 DEF DevThread
<1>5. \A h \in held'[t] : Dead(h) => Leaving(t)'
  BY DEF Leaving
<1>6. \A u \in Thread \ {t} :
        kind[u] = "force" /\ (pc[u] = "called" \/ Forcing(u)) => sk[u] \notin held'[t]
  BY <1>1 DEF DevThread, ForceOK
<1>. QED
  BY <1>2, <1>3, <1>4, <1>5, <1>6, DevStep

LEMMA DevUseReturnStep ==
  ASSUME SocketInv, DevInv, NEW t \in Thread, UseReturn(t)
  PROVE  DevInv'
<1>1. TypeOK /\ Shape(t)
  BY DEF SocketInv, Calling
<1>2. /\ UNCHANGED <<dev, msg, given, kind, arg, held, todo, ret>> /\ pc[t] = "using"
      /\ use'[t] = {} /\ pc'[t] = "deref"
      /\ \A u \in Thread \ {t} : pc'[u] = pc[u] /\ use'[u] = use[u] /\ sk'[u] = sk[u]
  BY <1>1 DEF UseReturn, Goto, TypeOK, socks, list, client
<1>3. kind[t] # "accept"
  BY <1>1, <1>2 DEF Shape
<1>. QED
  BY <1>2, <1>3, DevGivesUp DEF Moves

LEMMA DevPollFailsStep ==
  ASSUME SocketInv, DevInv, NEW t \in Thread, NEW h \in Handle, PollFails(t, h)
  PROVE  DevInv'
<1>1. TypeOK /\ Calling(t) /\ given \subseteq base /\ base \subseteq live
  BY DEF SocketInv
<1>2. pc[t] = "pfind" /\ h \in todo[t] /\ h \notin live
  BY DEF PollFails
<1>3. held[t] = {}
  BY <1>1, <1>2 DEF Calling, Polls
<1>4. /\ UNCHANGED <<dev, msg, given>> /\ Return(t)
      /\ todo' = [todo EXCEPT ![t] = {}] /\ use' = [use EXCEPT ![t] = {}]
      /\ held' = [held EXCEPT ![t] = {}]
  BY <1>3 DEF PollFails, socks, list, client
<1>5. /\ pc'[t] = "idle" /\ kind'[t] = "none" /\ held'[t] = {} /\ use'[t] = {}
      /\ \A u \in Thread \ {t} : use'[u] = use[u]
  BY <1>1, <1>4 DEF Return, Goto, TypeOK
<1>6. Moves(t)
  BY <1>1, <1>4 DEF Return, Goto, TypeOK, Moves
<1>. QED
  BY <1>4, <1>5, <1>6, DevGivesUp

LEMMA DevThroughStep ==
  ASSUME SocketInv, DevInv, NEW t \in Thread, Deref(t) \/ LastFree(t)
  PROVE  DevInv'
<1>1. TypeOK /\ Shape(t) /\ UseOK(t)
  BY DEF SocketInv, Calling, DevInv, DevThread
<1>2. /\ pc[t] \in {"deref", "lfree"} /\ Through(t, sk[t])
      /\ UNCHANGED <<dev, msg, use, todo>>
  BY DEF Deref, LastFree, socks, list
<1>3. /\ held' = [held EXCEPT ![t] = held[t] \ {sk[t]}]
      /\ \/ /\ held[t] \ {sk[t]} # {} /\ \E g \in held[t] \ {sk[t]} : sk' = [sk EXCEPT ![t] = g]
            /\ Goto(t, "deref") /\ UNCHANGED <<given, kind, arg, ret>>
         \/ /\ held[t] \ {sk[t]} = {} /\ kind[t] = "accept" /\ ~arg[t]
            /\ Goto(t, "afree") /\ UNCHANGED <<given, kind, sk, arg, ret>>
         \/ /\ held[t] \ {sk[t]} = {}
            /\ given' = IF kind[t] = "accept" THEN given \cup {sk[t]} ELSE given
            /\ Return(t)
  BY <1>2 DEF Through
<1>4. use'[t] = {} /\ held'[t] = held[t] \ {sk[t]} /\ \A u \in Thread \ {t} : held'[u] = held[u]
  BY <1>1, <1>2, <1>3 DEF UseOK, TypeOK
<1>5. /\ \A u \in Thread \ {t} : /\ pc'[u] = pc[u] /\ kind'[u] = kind[u] /\ sk'[u] = sk[u]
                                 /\ arg'[u] = arg[u] /\ ret'[u] = ret[u]
      /\ pc'[t] = "deref" \/ (pc'[t] \in {"idle", "afree"} /\ held'[t] = {})
      /\ kind'[t] = "accept" => kind[t] = "accept" /\ sk'[t] = sk[t]
      /\ \A h \in given' : h \in given \/ (kind[t] = "accept" /\ h = sk[t])
  <2>1. CASE /\ held[t] \ {sk[t]} # {} /\ \E g \in held[t] \ {sk[t]} : sk' = [sk EXCEPT ![t] = g]
             /\ Goto(t, "deref") /\ UNCHANGED <<given, kind, arg, ret>>
    <3>1. kind[t] = "poll"
      BY <1>1, <2>1 DEF Shape
    <3>. QED
      BY <1>1, <2>1, <3>1 DEF Goto, TypeOK
  <2>2. CASE /\ held[t] \ {sk[t]} = {} /\ kind[t] = "accept" /\ ~arg[t]
             /\ Goto(t, "afree") /\ UNCHANGED <<given, kind, sk, arg, ret>>
    BY <1>1, <1>4, <2>2 DEF Goto, TypeOK
  <2>3. CASE /\ held[t] \ {sk[t]} = {}
             /\ given' = IF kind[t] = "accept" THEN given \cup {sk[t]} ELSE given
             /\ Return(t)
    BY <1>1, <1>4, <2>3 DEF Return, Goto, TypeOK
  <2>. QED
    BY <1>3, <2>1, <2>2, <2>3
<1>6. Moves(t)
  BY <1>2, <1>4, <1>5 DEF Moves
<1>. QED
  BY <1>2, <1>4, <1>5, <1>6, DevGivesUp

LEMMA DevAcceptFreeStep ==
  ASSUME SocketInv, DevInv, NEW t \in Thread, AcceptFree(t)
  PROVE  DevInv'
<1>1. TypeOK /\ Shape(t) /\ UseOK(t)
  BY DEF SocketInv, Calling, DevInv, DevThread
<1>2. pc[t] = "afree" /\ Return(t) /\ UNCHANGED <<dev, msg, given, held, use, todo>>
  BY DEF AcceptFree, socks, list
<1>3. use'[t] = {} /\ held'[t] = {}
  BY <1>1, <1>2 DEF UseOK, Shape
<1>4. pc'[t] = "idle" /\ kind'[t] = "none" /\ Moves(t)
  BY <1>1, <1>2 DEF Return, Goto, TypeOK, Moves
<1>. QED
  BY <1>2, <1>3, <1>4, DevGivesUp

\* A call on one of the client's sockets begins: its device is attached, and
\* no forced vxt_close has the socket.
LEMMA DevCallStep ==
  ASSUME SocketInv, DevInv, Kept("late"), Kept("force"), NEW t \in Thread, NEW h \in Handle,
         NEW k \in {"open", "use", "listen", "shutdown", "close", "force"}, NEW a \in BOOLEAN,
         Call(t, h, k, a)
  PROVE  DevInv'
<1>1. TypeOK /\ Shape(t) /\ UseOK(t) /\ DeadLeft
  BY DEF SocketInv, Calling, DevInv, DevThread
<1>2. /\ UNCHANGED <<dev, msg, use, todo, ret>> /\ pc[t] = "idle" /\ h \in given
      /\ given' \subseteq given
      /\ k = "force" => \A u \in Thread : ~InCall(u, h)
  BY DEF Call, May, list
<1>3. /\ pc'[t] = "called" /\ kind'[t] = k /\ sk'[t] = h /\ held'[t] = {h}
      /\ \A u \in Thread \ {t} : /\ pc'[u] = pc[u] /\ kind'[u] = kind[u] /\ sk'[u] = sk[u]
                                 /\ arg'[u] = arg[u] /\ held'[u] = held[u]
  BY <1>1 DEF Call, Goto, TypeOK
<1>4. DevMoves(t)
  BY <1>2, <1>3 DEF DevMoves, Moves
<1>5. use[t] = {} /\ ~Dead(h)
  BY <1>1, <1>2 DEF UseOK, DeadLeft
<1>6. k = "force" => \A u \in Thread : h \notin held[u]
  <2>1. \A u \in Thread : pc[u] = "idle" => held[u] = {}
    BY DEF SocketInv, Calling, Shape
  <2>. QED
    BY <1>2, <2>1 DEF InCall
<1>7. DevThread(t)'
  <2>1. UseOK(t)'
    BY <1>2, <1>3, <1>5 DEF UseOK
  <2>2. ForceOK(t)'
    BY <1>3, <1>6 DEF ForceOK, Forcing
  <2>. QED
    BY <1>3, <2>1, <2>2 DEF DevThread
<1>8. \A u \in Thread \ {t} :
        kind[u] = "force" /\ (pc[u] = "called" \/ Forcing(u)) => sk[u] \notin held'[t]
  BY <1>2, <1>3 DEF SocketInv, Calling, Owned, Owning
<1>. QED
  BY <1>2, <1>3, <1>4, <1>5, <1>7, <1>8, DevStep

LEMMA DevPollCallStep ==
  ASSUME SocketInv, DevInv, NEW t \in Thread, NEW hs \in SUBSET Handle, PollCall(t, hs)
  PROVE  DevInv'
<1>1. TypeOK /\ Shape(t) /\ UseOK(t)
  BY DEF SocketInv, Calling, DevInv, DevThread
<1>2. /\ UNCHANGED <<dev, msg, given, sk, arg, held, use, ret>> /\ pc[t] = "idle"
      /\ pc'[t] = "pfind" /\ kind'[t] = "poll"
      /\ \A u \in Thread \ {t} : pc'[u] = pc[u] /\ kind'[u] = kind[u] /\ todo'[u] = todo[u]
  BY <1>1 DEF PollCall, Goto, TypeOK, socks, list, client
<1>3. use[t] = {} /\ held[t] = {}
  BY <1>1, <1>2 DEF UseOK, Shape
<1>4. DevMoves(t)
  BY <1>2 DEF DevMoves, Moves
<1>5. DevThread(t)'
  BY <1>2, <1>3 DEF DevThread, UseOK, ForceOK, Forcing
<1>. QED
  BY <1>2, <1>3, <1>4, <1>5, DevStep

\* vxt_poll takes the device of one of the client's sockets.
LEMMA DevPollFindStep ==
  ASSUME SocketInv, DevInv, NEW t \in Thread, NEW h \in Handle, PollFind(t, h)
  PROVE  DevInv'
<1>1. TypeOK /\ Calling(t) /\ UseOK(t) /\ DeadLeft /\ DevsOnce
  BY DEF SocketInv, DevInv, DevThread
<1>2. /\ UNCHANGED <<dev, msg, given, kind, sk, arg, ret>>
      /\ pc[t] = "pfind" /\ h \in live /\ h \in todo[t]
      /\ pc'[t] \in {"using", "pfind"} /\ use'[t] = use[t] \cup ({dev[h]} \ {None})
      /\ held'[t] = held[t] \cup {h}
      /\ \A u \in Thread \ {t} : /\ pc'[u] = pc[u] /\ held'[u] = held[u]
                                 /\ todo'[u] = todo[u] /\ use'[u] = use[u]
  BY <1>1 DEF PollFind, Goto, TypeOK, list, client
<1>3. h \in given /\ kind[t] = "poll"
  BY <1>1, <1>2 DEF Calling, Polls, Stale, Shape
<1>4. DevMoves(t)
  BY <1>2 DEF DevMoves, Moves
<1>5. ~Dead(h)
  BY <1>1, <1>3 DEF DeadLeft
<1>6. UseOK(t)'
  <2>1. ASSUME NEW d \in use'[t]
        PROVE  msg[d] = "attached" /\ \A g \in Handle : dev[g] = d => g \in held'[t]
    <3>1. CASE d \in use[t]
      BY <1>1, <1>2, <3>1 DEF UseOK
    <3>2. CASE d = dev[h] /\ d # None
      BY <1>1, <1>2, <1>5, <3>2 DEF DevsOnce, Dead
    <3>. QED
      BY <1>2, <3>1, <3>2
  <2>. QED
    BY <1>2, <2>1 DEF UseOK
<1>7. DevThread(t)'
  BY <1>2, <1>3, <1>6 DEF DevThread, ForceOK, Forcing
<1>8. \A g \in held'[t] : ~Dead(g)
  BY <1>1, <1>2, <1>5 DEF DeadLeft, Leaving, Last, TypeOK
<1>9. \A u \in Thread \ {t} :
        kind[u] = "force" /\ (pc[u] = "called" \/ Forcing(u)) => sk[u] \notin held'[t]
  <2>1. ASSUME NEW u \in Thread \ {t}, kind[u] = "force", pc[u] = "called" \/ Forcing(u)
        PROVE  sk[u] \notin held[t] /\ sk[u] # h
    BY <1>3, <2>1 DEF DevInv, DevThread, ForceOK, SocketInv, Calling, Owned, Owning
  <2>. QED
    BY <1>2, <2>1
<1>. QED
  BY <1>2, <1>4, <1>7, <1>8, <1>9, DevStep

\* A new socket has no device.
LEMMA DevNewSocket ==
  ASSUME SocketInv, DevInv, NEW t \in Thread, pc[t] = "idle", handles \in Handle, Moves(t),
         UNCHANGED <<msg, use>>, dev' = [dev EXCEPT ![handles] = None],
         given' \subseteq given \cup {handles},
         \/ pc'[t] = "idle" /\ kind'[t] = "none" /\ held'[t] = {}
         \/ pc'[t] = "called" /\ kind'[t] = "accept" /\ sk'[t] = handles /\ held'[t] = {handles}
  PROVE  DevInv'
<1>1. TypeOK /\ DevsOnce /\ DeadLeft /\ \A u \in Thread : DevThread(u) /\ Shape(u)
  BY DEF SocketInv, Calling, DevInv
<1>2. \A u \in Thread : handles \notin held[u] /\ sk[u] # handles
  BY KnownHandles
<1>3. dev'[handles] = None /\ \A h \in Handle \ {handles} : dev'[h] = dev[h]
  BY <1>1 DEF TypeOK
<1>4. \A h \in Handle : Dead(h)' => Dead(h) /\ h # handles
  BY <1>3 DEF Dead
<1>5. \A u \in Thread \ {t} : (Leaving(u)' <=> Leaving(u)) /\ (Forcing(u)' <=> Forcing(u))
  BY DEF Leaving, Last, Forcing, Moves
<1>6. \A d \in Dev, h \in Handle : dev'[h] = d => dev[h] = d
  BY <1>3, SocketAssumption
<1>7. DevsOnce'
  <2>1. ASSUME NEW h \in Handle, NEW g \in Handle, dev'[h] = dev'[g], dev'[h] # None
        PROVE  h = g
    BY <1>1, <1>3, <2>1 DEF DevsOnce
  <2>2. ASSUME NEW d \in Dev, msg'[d] = "unused"
        PROVE  (\A h \in Handle : dev'[h] # d) /\ \A u \in Thread : d \notin use'[u]
    BY <1>1, <1>6, <2>2 DEF DevsOnce
  <2>. QED
    BY <2>1, <2>2 DEF DevsOnce
<1>8. DeadLeft'
  BY <1>1, <1>4, <1>5 DEF DeadLeft, Moves
<1>9. ASSUME NEW u \in Thread \ {t} PROVE DevThread(u)'
  <2>1. DevThread(u) /\ Shape(u) /\ use[u] \subseteq Dev
    BY <1>1 DEF TypeOK
  <2>2. pc[u] \in {"unlink", "remove"} => sk[u] \in Handle
    BY <1>1, <2>1 DEF Shape, TypeOK
  <2>3. UseOK(u)'
    BY <1>2, <1>3, <1>6, <2>1, <2>2 DEF DevThread, UseOK, Moves
  <2>4. ForceOK(u)'
    BY <1>2, <1>5, <2>1 DEF DevThread, ForceOK, Moves
  <2>5. kind[u] = "accept" => sk[u] \in Handle
    BY <1>1 DEF SocketInv, Calling, Owned, Owning, TypeOK
  <2>. QED
    BY <1>4, <2>1, <2>3, <2>4, <2>5 DEF DevThread, Moves
<1>10. DevThread(t)'
  <2>1. use[t] = {}
    BY <1>1 DEF DevThread, UseOK
  <2>. QED
    BY <1>4, <2>1 DEF DevThread, UseOK, ForceOK, Forcing
<1>. QED
  BY <1>7, <1>8, <1>9, <1>10 DEF DevInv

LEMMA DevSocketStep ==
  ASSUME SocketInv, DevInv, NEW t \in Thread, Socket(t) \/ Accept(t)
  PROVE  DevInv'
<1>1. TypeOK /\ Shape(t)
  BY DEF SocketInv, Calling
<1>2. /\ pc[t] = "idle" /\ handles \in Handle /\ UNCHANGED <<msg, use>>
      /\ dev' = [dev EXCEPT ![handles] = None] /\ given' \subseteq given \cup {handles}
  BY <1>1, SocketAssumption DEF Socket, Accept, NewSocket, TypeOK, Handle, list, locals
<1>3. CASE Socket(t)
  <2>1. Moves(t) /\ pc'[t] = "idle" /\ kind'[t] = "none" /\ held'[t] = {}
    BY <1>1, <1>3 DEF Socket, Moves, Shape, locals
  <2>. QED
    BY <1>2, <2>1, DevNewSocket
<1>4. CASE Accept(t)
  <2>1. pc'[t] = "called" /\ kind'[t] = "accept" /\ sk'[t] = handles /\ held'[t] = {handles}
    BY <1>1, <1>4 DEF Accept, Goto, TypeOK
  <2>2. Moves(t)
    BY <1>1, <1>4 DEF Accept, Goto, TypeOK, Moves
  <2>. QED
    BY <1>2, <2>1, <2>2, DevNewSocket
<1>. QED
  BY <1>3, <1>4

\* A new device is its maker's alone.
LEMMA DevAddLinksStep ==
  ASSUME SocketInv, DevInv, NEW t \in Thread, NEW d \in Dev, AddLinks(t, d)
  PROVE  DevInv'
<1>1. TypeOK /\ DevsOnce /\ DeadLeft /\ \A u \in Thread : DevThread(u)
  BY DEF SocketInv, DevInv
<1>2. /\ UNCHANGED <<dev, given, kind, sk, arg, held, todo, ret>>
      /\ pc[t] = "adding" /\ pc'[t] = "push" /\ use'[t] = {d}
      /\ \A u \in Thread \ {t} : pc'[u] = pc[u] /\ use'[u] = use[u]
      /\ msg[d] = "unused" /\ msg'[d] = "attached" /\ \A c \in Dev \ {d} : msg'[c] = msg[c]
  BY <1>1 DEF AddLinks, Goto, TypeOK, socks, client
<1>3. (\A h \in Handle : dev[h] # d) /\ \A u \in Thread : d \notin use[u]
  BY <1>1, <1>2 DEF DevsOnce
<1>4. \A h \in Handle : Dead(h)' <=> Dead(h)
  BY <1>1, <1>2, <1>3 DEF Dead, TypeOK
<1>5. \A u \in Thread \ {t} : (Leaving(u)' <=> Leaving(u)) /\ (Forcing(u)' <=> Forcing(u))
  BY <1>2 DEF Leaving, Last, Forcing
<1>6. DevsOnce'
  BY <1>1, <1>2 DEF DevsOnce
<1>7. DeadLeft'
  <2>1. \A h \in held[t] : ~Dead(h)
    BY <1>1, <1>2 DEF DeadLeft, Leaving, Last, TypeOK
  <2>. QED
    BY <1>1, <1>2, <1>4, <1>5, <2>1 DEF DeadLeft
<1>8. ASSUME NEW u \in Thread PROVE (kind[u] = "accept" => ~Dead(sk[u]))'
  <2>1. kind[u] = "accept" => sk[u] \in Handle
    BY <1>1 DEF SocketInv, Calling, Owned, Owning, TypeOK
  <2>. QED
    BY <1>1, <1>2, <1>4, <2>1 DEF DevThread
<1>9. ASSUME NEW u \in Thread \ {t} PROVE UseOK(u)' /\ ForceOK(u)'
  <2>1. DevThread(u) /\ use[u] \subseteq Dev \ {d}
    BY <1>1, <1>3 DEF TypeOK
  <2>2. UseOK(u)'
    BY <1>2, <2>1 DEF DevThread, UseOK
  <2>. QED
    BY <1>2, <1>5, <2>1, <2>2 DEF DevThread, ForceOK
<1>10. UseOK(t)' /\ ForceOK(t)'
  BY <1>2, <1>3 DEF UseOK, ForceOK, Forcing
<1>. QED
  BY <1>6, <1>7, <1>8, <1>9, <1>10 DEF DevInv, DevThread

\* The socket gets the new device; a thread that disconnects a socket has it to
\* itself.
LEMMA DevSetDevStep ==
  ASSUME SocketInv, DevInv, NEW t \in Thread, SetDev(t)
  PROVE  DevInv'
<1>1. TypeOK /\ DevsOnce /\ DeadLeft /\ Shape(t) /\ \A u \in Thread : DevThread(u)
  BY DEF SocketInv, Calling, DevInv
<1>2. /\ UNCHANGED <<msg, given, locals>> /\ pc[t] = "setdev" /\ pc'[t] = "setstate"
      /\ \A u \in Thread \ {t} : pc'[u] = pc[u]
  BY <1>1 DEF SetDev, Goto, TypeOK, list, client
<1>3. PICK s \in Handle : s = sk[t] /\ s \in held[t]
  BY <1>1, <1>2 DEF Shape, TypeOK
<1>4. PICK d \in use[t] : dev' = [dev EXCEPT ![s] = d]
  BY <1>3 DEF SetDev
<1>5. /\ d \in Dev /\ d # None /\ msg[d] = "attached" /\ \A h \in Handle : dev[h] # d
      /\ \A u \in Thread \ {t} : d \notin use[u]
  BY <1>1, <1>2, SocketAssumption DEF TypeOK, DevThread, UseOK
<1>6. dev'[s] = d /\ \A h \in Handle \ {s} : dev'[h] = dev[h]
  BY <1>1, <1>4 DEF TypeOK
<1>7. \A h \in Handle : Dead(h)' => Dead(h)
  BY <1>2, <1>5, <1>6 DEF Dead
<1>8. \A u \in Thread \ {t} : (Leaving(u)' <=> Leaving(u)) /\ (Forcing(u)' <=> Forcing(u))
  BY <1>2 DEF Leaving, Last, Forcing, locals
<1>9. DevsOnce'
  <2>1. ASSUME NEW h \in Handle, NEW g \in Handle, dev'[h] = dev'[g], dev'[h] # None
        PROVE  h = g
    BY <1>1, <1>5, <1>6, <2>1 DEF DevsOnce
  <2>2. ASSUME NEW c \in Dev, msg'[c] = "unused"
        PROVE  (\A h \in Handle : dev'[h] # c) /\ \A u \in Thread : c \notin use'[u]
    BY <1>1, <1>2, <1>5, <1>6, <2>2 DEF DevsOnce, locals
  <2>. QED
    BY <2>1, <2>2 DEF DevsOnce
<1>10. DeadLeft'
  <2>1. \A h \in held[t] : ~Dead(h)
    BY <1>1, <1>2 DEF DeadLeft, Leaving, Last, TypeOK
  <2>. QED
    BY <1>1, <1>2, <1>7, <1>8, <2>1 DEF DeadLeft, locals
<1>11. ASSUME NEW u \in Thread PROVE (kind[u] = "accept" => ~Dead(sk[u]))'
  <2>1. kind[u] = "accept" => sk[u] \in Handle
    BY <1>1 DEF SocketInv, Calling, Owned, Owning, TypeOK
  <2>2. kind[u] = "accept" => ~Dead(sk[u])
    BY <1>1 DEF DevThread
  <2>. QED
    BY <1>2, <1>7, <2>1, <2>2 DEF locals
<1>12. ASSUME NEW u \in Thread \ {t} PROVE UseOK(u)' /\ ForceOK(u)'
  <2>1. DevThread(u) /\ Calling(u) /\ use[u] \subseteq Dev \ {d}
    BY <1>1, <1>5 DEF TypeOK, SocketInv
  <2>2. pc[u] \in {"unlink", "remove"} => sk[u] \in Handle \ {s}
    BY <1>1, <1>3, <2>1 DEF DevThread, ForceOK, Calling, Shape, Alone, TypeOK
  <2>3. \A c \in use[u], h \in Handle : dev'[h] = c => dev[h] = c
    BY <1>6, <2>1
  <2>4. UseOK(u)'
    BY <1>2, <1>6, <2>1, <2>2, <2>3 DEF DevThread, UseOK, locals
  <2>. QED
    BY <1>2, <1>8, <2>1, <2>4 DEF DevThread, ForceOK, locals
<1>13. UseOK(t)' /\ ForceOK(t)'
  BY <1>2 DEF UseOK, ForceOK, Forcing
<1>. QED
  BY <1>9, <1>10, <1>11, <1>12, <1>13 DEF DevInv, DevThread

\* vxt_msg_disconnect takes the device of a socket nobody else has.
LEMMA DevRemoveStep ==
  ASSUME SocketInv, DevInv, NEW t \in Thread, Remove(t)
  PROVE  DevInv'
<1>1. TypeOK /\ DevsOnce /\ DeadLeft /\ Calling(t) /\ \A u \in Thread : DevThread(u)
  BY DEF SocketInv, DevInv
<1>2. /\ UNCHANGED <<dev, given, kind, sk, arg, held, todo, ret>>
      /\ pc[t] = "remove" /\ pc'[t] = ret[t] /\ use'[t] = {}
      /\ \A u \in Thread \ {t} : pc'[u] = pc[u] /\ use'[u] = use[u]
  BY <1>1 DEF Remove, Goto, TypeOK, socks, client
<1>3. PICK s \in Handle : s = sk[t] /\ s \in held[t]
  BY <1>1, <1>2 DEF Calling, Shape, TypeOK
<1>4. PICK d \in use[t] : msg' = [msg EXCEPT ![d] = "gone"]
  BY DEF Remove
<1>5. d \in Dev /\ dev[s] = d /\ \A h \in Handle : dev[h] = d => h = s
  <2>1. d \in Dev /\ d # None
    BY <1>1, SocketAssumption DEF TypeOK
  <2>2. dev[s] = d
    BY <1>1, <1>2, <1>3 DEF DevThread, UseOK
  <2>. QED
    BY <1>1, <2>1, <2>2 DEF DevsOnce
<1>6. msg'[d] = "gone" /\ \A c \in Dev \ {d} : msg'[c] = msg[c]
  BY <1>1, <1>4, <1>5 DEF TypeOK
<1>7. /\ ret[t] \in {"fend", "lfree"} /\ s \notin given
      /\ \A u \in Thread \ {t} : s \notin held[u]
  <2>1. CASE Forcing(t)
    <3>1. ret[t] = "fend" /\ kind[t] = "force" /\ Owning(t)
      BY <1>1, <1>2, <2>1 DEF DevThread, ForceOK, Forcing, Owning
    <3>. QED
      BY <1>1, <1>3, <2>1, <3>1 DEF DevThread, ForceOK, Calling, Owned
  <2>2. CASE Last(t)
    <3>1. ret[t] = "lfree" /\ s \notin base /\ given \subseteq base
      BY <1>1, <1>2, <1>3, <2>2 DEF Last, Calling, Alone, SocketInv
    <3>. QED
      BY <1>1, <1>3, <2>2, <3>1 DEF Calling, Alone
  <2>. QED
    BY <1>1, <1>2, <2>1, <2>2 DEF Calling, Shape
<1>8. \A h \in Handle \ {s} : Dead(h)' <=> Dead(h)
  BY <1>1, <1>2, <1>5, <1>6 DEF Dead, TypeOK
<1>9. \A u \in Thread \ {t} : (Leaving(u)' <=> Leaving(u)) /\ (Forcing(u)' <=> Forcing(u))
  BY <1>2 DEF Leaving, Last, Forcing
<1>10. Leaving(t)'
  BY <1>2, <1>7 DEF Leaving, Last
<1>11. DevsOnce'
  BY <1>1, <1>2, <1>6 DEF DevsOnce
<1>12. DeadLeft'
  BY <1>1, <1>2, <1>7, <1>8, <1>9, <1>10 DEF DeadLeft
<1>13. ASSUME NEW u \in Thread PROVE (kind[u] = "accept" => ~Dead(sk[u]))'
  <2>1. kind[u] = "accept" => sk[u] \in Handle /\ ~Dead(sk[u])
    BY <1>1 DEF SocketInv, Calling, Owned, Owning, TypeOK, DevThread
  <2>2. kind[u] = "accept" => sk[u] # s
    BY <1>1, <1>2, <1>3 DEF SocketInv, Calling, Private, Shape
  <2>. QED
    BY <1>2, <1>8, <2>1, <2>2
<1>14. ASSUME NEW u \in Thread \ {t} PROVE UseOK(u)' /\ ForceOK(u)'
  <2>1. DevThread(u) /\ use[u] \subseteq Dev
    BY <1>1 DEF TypeOK
  <2>2. pc[u] \in {"push", "setdev", "pfind", "using"} => d \notin use[u]
    BY <1>5, <1>7, <2>1 DEF DevThread, UseOK
  <2>3. UseOK(u)'
    BY <1>2, <1>6, <2>1, <2>2 DEF DevThread, UseOK
  <2>. QED
    BY <1>2, <1>9, <2>1, <2>3 DEF DevThread, ForceOK
<1>15. UseOK(t)' /\ ForceOK(t)'
  <2>1. UseOK(t)'
    BY <1>2, <1>7 DEF UseOK
  <2>2. Forcing(t)' => Forcing(t)
    BY <1>2, <1>7 DEF Forcing
  <2>. QED
    BY <1>1, <1>2, <1>7, <2>1, <2>2 DEF DevThread, ForceOK
<1>. QED
  BY <1>11, <1>12, <1>13, <1>14, <1>15 DEF DevInv, DevThread

LEMMA DevInitially == Init => DevInv
<1>. SUFFICES ASSUME Init PROVE DevInv
  OBVIOUS
<1>1. DevsOnce /\ DeadLeft
  BY SocketAssumption DEF Init, DevsOnce, DeadLeft, Dead
<1>2. ASSUME NEW t \in Thread PROVE DevThread(t)
  BY DEF Init, DevThread, UseOK, ForceOK, Forcing
<1>. QED
  BY <1>1, <1>2 DEF DevInv

LEMMA DevIdle ==
  ASSUME DevInv, UNCHANGED vars
  PROVE  DevInv'
<1>. USE DEF vars, table, socks, list, client, locals
<1>1. DevsOnce' /\ DeadLeft'
  BY DEF DevInv, DevsOnce, DeadLeft, Dead, Leaving, Last
<1>2. ASSUME NEW t \in Thread PROVE DevThread(t)'
  BY DEF DevInv, DevThread, UseOK, ForceOK, Forcing, Dead
<1>. QED
  BY <1>1, <1>2 DEF DevInv

LEMMA DevNext ==
  ASSUME SocketInv, DevInv, [Next]_vars, Kept("late"), Kept("force")
  PROVE  DevInv'
<1>1. CASE UNCHANGED vars
  BY <1>1, DevIdle
<1>2. CASE Next
  <2>1. PICK t \in Thread : Begin(t) \/ Sleeper(t) \/ Step(t)
    BY <1>2 DEF Next
  <2>2. CASE Begin(t)
    <3>1. CASE Socket(t) \/ Accept(t)
      BY <3>1, DevSocketStep
    <3>2. CASE \E h \in Handle, k \in {"open", "use", "listen", "shutdown"} : Call(t, h, k, FALSE)
      <4>1. PICK h \in Handle, k \in {"open", "use", "listen", "shutdown"} : Call(t, h, k, FALSE)
        BY <3>2
      <4>. QED
        BY <4>1, DevCallStep
    <3>3. CASE \E h \in Handle, k \in {"close", "force"}, a \in BOOLEAN : Call(t, h, k, a)
      <4>1. PICK h \in Handle, k \in {"close", "force"}, a \in BOOLEAN : Call(t, h, k, a)
        BY <3>3
      <4>. QED
        BY <4>1, DevCallStep
    <3>4. CASE \E hs \in SUBSET Handle : PollCall(t, hs)
      BY <3>4, DevPollCallStep
    <3>. QED
      BY <2>2, <3>1, <3>2, <3>3, <3>4 DEF Begin
  <2>3. CASE Sleeper(t)
    <3>1. CASE \E d \in Dev : AddLinks(t, d)
      BY <3>1, DevAddLinksStep
    <3>2. CASE AddFails(t) \/ UseReturn(t)
      BY <3>2, DevQuietStep, DevUseReturnStep
    <3>. QED
      BY <2>3, <3>1, <3>2 DEF Sleeper
  <2>4. CASE Step(t)
    <3>1. CASE \/ OpenTest(t) \/ AddPushes(t) \/ Shutdown(t) \/ CloseOptions(t) \/ ForceEnd(t)
               \/ InnerFind(t) \/ InnerSuspend(t) \/ InnerDeref(t) \/ DropLive(t)
      BY <3>1, DevQuietStep
    <3>2. CASE SetDev(t) \/ SetState(t) \/ UseTest(t) \/ Unlink(t) \/ Remove(t)
      BY <3>2, DevSetDevStep, DevSetStateStep, DevUseTestStep, DevUnlinkStep, DevRemoveStep
    <3>3. CASE \E h \in Handle : PollFind(t, h) \/ PollFails(t, h)
      BY <3>3, DevPollFindStep, DevPollFailsStep
    <3>4. CASE CloseForce(t) \/ ForceDisconnect(t) \/ DerefLast(t) \/ LastDisconnect(t)
      BY <3>4, DevCloseStep
    <3>5. CASE Deref(t) \/ LastFree(t) \/ AcceptFree(t)
      BY <3>5, DevThroughStep, DevAcceptFreeStep
    <3>. QED
      BY <2>4, <3>1, <3>2, <3>3, <3>4, <3>5 DEF Step
  <2>. QED
    BY <2>1, <2>2, <2>3, <2>4
<1>. QED
  BY <1>1, <1>2

\* vxt_close does not take the device away from a thread that sends, receives,
\* listens or polls on it: only the last reference, or a forced vxt_close that
\* no other call disturbs, disconnects, even if two threads open one socket or
\* meet in live_connections.
THEOREM DeviceUsableAlways ==
  ASSUME Kept("late"), Kept("poll"), Kept("force")
  PROVE  Spec => []DeviceUsable
<1>1. SocketInv /\ DevInv /\ [Next]_vars => DevInv'
  BY DevNext
<1>2. DevInv => DeviceUsable
  BY DEF DevInv, DevThread, UseOK, DeviceUsable
<1>. QED
  BY <1>1, <1>2, DevInitially, SocketInvariant, PTL DEF Spec

=============================================================================
