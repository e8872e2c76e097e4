---------------------------- MODULE LwipSelect ----------------------------
(***************************************************************************)
(* lwip_select() and lwip_poll() against the events of the stack.          *)
(*                                                                         *)
(* Several threads run one or the other on the sockets; the holder of the  *)
(* core lock (the tcpip thread, or an application thread inside a netconn  *)
(* call) delivers events through event_callback(); application threads     *)
(* accept, receive and close.  What a waiter does between two protected    *)
(* regions interleaves with all of that: it scans the sockets one by one,  *)
(* links itself, announces itself in select_waiting, scans again (poll:    *)
(* in the same pass), and only then sleeps on its semaphore.               *)
(*                                                                         *)
(* Build: LWIP_TCPIP_CORE_LOCKING 1, LWIP_NETCONN_FULLDUPLEX 0,            *)
(* LWIP_NETCONN_SEM_PER_THREAD 0, so select_cb_list is guarded by the core *)
(* lock and get_socket() fails only for a socket without a netconn.        *)
(***************************************************************************)
EXTENDS Integers, Sequences, FiniteSets

CONSTANTS
    Threads,     \* threads that call lwip_select() or lwip_poll()
    Polls,       \* those of them that call lwip_poll()
    Apps,        \* threads that accept, receive and close
    NSock,       \* NUM_SOCKETS
    Listener,    \* the listening netconn, on socket 0
    Data,        \* netconns that a peer may open through the listener
    Wants,       \* the fd_sets or pollfds they are called with
    Timeouts,    \* the kinds of timeout: "poll" (zero), "finite", "forever"
    SelWaitMod,  \* range of SELWAIT_T (2^8 in the build)
    MaxData,     \* bound: messages in one mailbox
    None

Socks == 0 .. NSock - 1
Conns == {Listener} \cup Data
Kinds == {"r", "w", "e"}
Events == {"RCVPLUS", "RCVMINUS", "SENDPLUS", "SENDMINUS", "ERROR"}

ASSUME SelectAssumption ==
    /\ NSock \in Nat \ {0} /\ SelWaitMod \in Nat \ {0, 1} /\ MaxData \in Nat
    /\ IsFiniteSet(Threads) /\ Polls \subseteq Threads
    /\ Timeouts \subseteq {"poll", "finite", "forever"}
    /\ Wants \subseteq SUBSET (Socks \X Kinds)
    /\ Listener \notin Data /\ None \notin Conns \cup Apps
    /\ None \notin [s : Socks, has : SUBSET Kinds]

VARIABLES
    conn,      \* sockets[s].conn
    socket,    \* callback_arg.socket of a netconn: a socket, or -1 - events seen
    pcb,       \* the netconn has a pcb, so the stack can still signal it
    failed,    \* err_tcp() ran: NETCONN_FLAG_MBOXCLOSED
    mbox,      \* data messages in recvmbox (in acceptmbox for the listener)
    backlog,   \* the netconns in the acceptmbox
    ev,        \* rcvevent, sendevent, errevent of a socket
    waiting,   \* select_waiting of a socket
    core,      \* the core lock: its holder and the events it still delivers
    app,       \* the application threads
    linked,    \* select_cb_list
    pc,        \* where a thread is in lwip_select() or lwip_poll()
    want,      \* the events it asks for, <<socket, kind>>
    tmo,       \* its timeout
    left,      \* sockets its current loop has not come to yet
    counted,   \* history: sockets whose select_waiting it has incremented
    nready,    \* its scan found something
    res,       \* "none", "timeout" or "error"
    signalled, \* sem_signalled of its select_cb
    sem        \* the semaphore of its select_cb

connVars == <<conn, socket, pcb, failed, mbox, backlog>>
callVars == <<pc, want, tmo, left, counted, nready, res>>
cbVars == <<signalled, sem>>
vars == <<connVars, ev, waiting, core, app, linked, callVars, cbVars>>

-----------------------------------------------------------------------------
(* The operators of event_callback().                                      *)

\* what lwip_selscan() finds in a socket
Ready(e) == {k \in Kinds : \/ k = "r" /\ e.r > 0
                           \/ k = "w" /\ e.w
                           \/ k = "e" /\ e.e}

Apply(e, evt) ==
    [r |-> e.r + (IF evt = "RCVPLUS" THEN 1 ELSE IF evt = "RCVMINUS" THEN -1 ELSE 0),
     w |-> (e.w /\ evt # "SENDMINUS") \/ evt = "SENDPLUS",
     e |-> e.e \/ evt = "ERROR"]

\* Faulty: takes the first message for one more of many
CheckWaitersLate(e, evt) ==
    \/ evt = "RCVPLUS" /\ e.r < 0
    \/ evt = "SENDPLUS" /\ ~e.w
    \/ evt = "ERROR"

\* check_waiters: may the socket have become ready by this event?
CheckWaiters(e, evt) ==
    \/ evt = "RCVPLUS" /\ e.r + 1 <= 1
    \/ evt = "SENDPLUS" /\ ~e.w
    \/ evt = "ERROR"

\* the holder of the core lock, what it still has to deliver and the
\* select_check_waiters() call it is about to make
Held(by, events, check) ==
    [by |-> IF events = <<>> /\ check = None THEN None ELSE by, todo |-> events, check |-> check]
Holding(by, events) == Held(by, events, None)
LockFree == core.todo = <<>> /\ core.check = None
Repeat(n, x) == [i \in 1 .. n |-> x]

Init ==
    /\ conn = [s \in Socks |-> IF s = 0 THEN Listener ELSE None]
    /\ socket = [c \in Conns |-> IF c = Listener THEN 0 ELSE -1]
    /\ pcb = [c \in Conns |-> c = Listener]
    /\ failed = [c \in Conns |-> FALSE]
    /\ mbox = [c \in Conns |-> 0]
    /\ backlog = <<>>
    /\ ev = [s \in Socks |-> [r |-> 0, w |-> FALSE, e |-> FALSE]]
    /\ waiting = [s \in Socks |-> 0]
    /\ core = Holding(None, <<>>)
    /\ app = [a \in Apps |-> [pc |-> "idle", c |-> None, s |-> 0]]
    /\ linked = {}
    /\ pc = [t \in Threads |-> "idle"]
    /\ want = [t \in Threads |-> {}]
    /\ tmo = [t \in Threads |-> "poll"]
    /\ left = [t \in Threads |-> {}]
    /\ counted = [t \in Threads |-> {}]
    /\ nready = [t \in Threads |-> FALSE]
    /\ res = [t \in Threads |-> "none"]
    /\ signalled = [t \in Threads |-> FALSE]
    /\ sem = [t \in Threads |-> 0]

-----------------------------------------------------------------------------
(* The stack: the callbacks of the pcbs, under the core lock.              *)

\* accept_function(): a new netconn for a connection, into the acceptmbox
AcceptFunction(d) ==
    /\ LockFree /\ ~pcb[d] /\ socket[d] = -1
    /\ mbox[Listener] < MaxData
    /\ pcb' = [pcb EXCEPT ![d] = TRUE]
    /\ backlog' = Append(backlog, d)
    /\ mbox' = [mbox EXCEPT ![Listener] = @ + 1]
    /\ core' = Holding(None, <<<<Listener, "RCVPLUS">>>>)
    /\ UNCHANGED <<conn, socket, failed, ev, waiting, app, linked, callVars, cbVars>>

\* recv_tcp(): a message into the recvmbox, unless it is full
RecvTcp(d) ==
    /\ LockFree /\ pcb[d] /\ mbox[d] < MaxData
    /\ mbox' = [mbox EXCEPT ![d] = @ + 1]
    /\ core' = Holding(None, <<<<d, "RCVPLUS">>>>)
    /\ UNCHANGED <<conn, socket, pcb, failed, backlog, ev, waiting, app, linked, callVars, cbVars>>

\* sent_tcp(), poll_tcp() and lwip_netconn_do_writemore(): there is room to
\* write again, or there is too little left
SentTcp(d, evt) ==
    /\ LockFree /\ pcb[d] /\ evt \in {"SENDPLUS", "SENDMINUS"}
    /\ core' = Holding(None, <<<<d, evt>>>>)
    /\ UNCHANGED <<connVars, ev, waiting, app, linked, callVars, cbVars>>

\* err_tcp(): the pcb is gone; the message it leaves is never counted down
ErrTcp(d) ==
    /\ LockFree /\ pcb[d]
    /\ pcb' = [pcb EXCEPT ![d] = FALSE]
    /\ failed' = [failed EXCEPT ![d] = TRUE]
    /\ core' = Holding(None, <<<<d, "ERROR">>, <<d, "RCVPLUS">>, <<d, "SENDPLUS">>>>)
    /\ UNCHANGED <<conn, socket, mbox, backlog, ev, waiting, app, linked, callVars, cbVars>>

\* event_callback() up to the end of its protected region
EventCallback ==
    /\ core.todo # <<>> /\ core.check = None
    /\ LET c == Head(core.todo)[1]
           evt == Head(core.todo)[2]
           s == socket[c]
           rest == Holding(core.by, Tail(core.todo))
       IN  \/ /\ s < 0
              /\ socket' = [socket EXCEPT ![c] = IF evt = "RCVPLUS" THEN @ - 1 ELSE @]
              /\ core' = rest
              /\ UNCHANGED ev
           \/ /\ s >= 0 /\ conn[s] = None
              /\ core' = rest
              /\ UNCHANGED <<socket, ev>>
           \/ /\ s >= 0 /\ conn[s] # None
              /\ ev' = [ev EXCEPT ![s] = Apply(@, evt)]
              /\ core' = IF waiting[s] # 0 /\ CheckWaiters(ev[s], evt)
                         THEN Held(core.by, Tail(core.todo),
                                   [s |-> s, has |-> Ready(Apply(ev[s], evt))])
                         ELSE rest
              /\ UNCHANGED socket
    /\ UNCHANGED <<conn, pcb, failed, mbox, backlog, waiting, app, linked, callVars, cbVars>>

\* select_check_waiters(): one pass over select_cb_list, core lock held
SelectCheckWaiters ==
    /\ core.check # None
    /\ LET hit == {t \in linked : /\ ~signalled[t]
                                  /\ \E k \in core.check.has : <<core.check.s, k>> \in want[t]}
       IN  /\ signalled' = [t \in Threads |-> signalled[t] \/ t \in hit]
           /\ sem' = [t \in Threads |-> IF t \in hit THEN sem[t] + 1 ELSE sem[t]]
    /\ core' = Holding(core.by, core.todo)
    /\ UNCHANGED <<connVars, ev, waiting, app, linked, callVars>>

Stack ==
    \/ \E d \in Data : \/ AcceptFunction(d) \/ RecvTcp(d) \/ ErrTcp(d)
                       \/ \E evt \in Events : SentTcp(d, evt)
    \/ EventCallback
    \/ SelectCheckWaiters

-----------------------------------------------------------------------------
(* The application threads.  A netconn is used by one of them at a time,   *)
(* as LWIP_NETCONN_FULLDUPLEX 0 asks for.                                  *)

\* the thread has delivered what it took the core lock for
Done(a) == core.by # a
At(a, p) == app[a].pc = p /\ Done(a)
Unused(c) == \A b \in Apps : app[b].c # c
AppTo(a, p, c, s) == app' = [app EXCEPT ![a] = [pc |-> p, c |-> c, s |-> s]]

\* sys_arch_mbox_fetch() of netconn_recv_data() or netconn_accept()
Fetch(a, c) ==
    /\ At(a, "idle") /\ Unused(c)
    /\ socket[c] >= 0 /\ conn[socket[c]] = c /\ mbox[c] > 0
    /\ mbox' = [mbox EXCEPT ![c] = @ - 1]
    /\ AppTo(a, "minus", c, socket[c])
    /\ UNCHANGED <<conn, socket, pcb, failed, backlog, ev, waiting, core, linked, callVars, cbVars>>

\* the RCVMINUS event that follows; netconn_accept() then has a new netconn
Minus(a) ==
    /\ At(a, "minus")
    /\ ev' = [ev EXCEPT ![app[a].s] = Apply(@, "RCVMINUS")]
    /\ \/ /\ app[a].c = Listener
          /\ AppTo(a, "alloc", Head(backlog), 0)
          /\ backlog' = Tail(backlog)
       \/ /\ app[a].c # Listener
          /\ AppTo(a, "idle", None, 0)
          /\ UNCHANGED backlog
    /\ UNCHANGED <<conn, socket, pcb, failed, mbox, waiting, core, linked, callVars, cbVars>>

\* alloc_socket() for the new netconn; without a free socket lwip_accept()
\* deletes the netconn again
AllocSocket(a) ==
    /\ At(a, "alloc")
    /\ LET free == {s \in Socks : conn[s] = None}
           s == CHOOSE x \in free : \A y \in free : x <= y
       IN  \/ /\ free = {}
              /\ AppTo(a, "delete", app[a].c, 0)
              /\ UNCHANGED <<conn, ev>>
           \/ /\ free # {}
              /\ conn' = [conn EXCEPT ![s] = app[a].c]
              /\ ev' = [ev EXCEPT ![s] = [r |-> 0, w |-> TRUE, e |-> FALSE]]
              /\ AppTo(a, "assign", app[a].c, s)
    /\ UNCHANGED <<socket, pcb, failed, mbox, backlog, waiting, core, linked, callVars, cbVars>>

\* Faulty: forgets the events that came before the socket
AssignNoReplay(a) ==
    /\ At(a, "assign")
    /\ socket' = [socket EXCEPT ![app[a].c] = app[a].s]
    /\ AppTo(a, "replay", app[a].c, 0)
    /\ UNCHANGED <<conn, pcb, failed, mbox, backlog, ev, waiting, core, linked, callVars, cbVars>>

\* netconn_peer() finds the pcb gone: free_socket()
PeerGone(a) ==
    /\ At(a, "assign") /\ ~pcb[app[a].c]
    /\ conn' = [conn EXCEPT ![app[a].s] = None]
    /\ AppTo(a, "delete", app[a].c, 0)
    /\ UNCHANGED <<socket, pcb, failed, mbox, backlog, ev, waiting, core, linked, callVars, cbVars>>

\* lwip_accept() takes over the events counted in callback_arg.socket
Assign(a) ==
    /\ At(a, "assign")
    /\ socket' = [socket EXCEPT ![app[a].c] = app[a].s]
    /\ AppTo(a, "replay", app[a].c, -1 - socket[app[a].c])
    /\ UNCHANGED <<conn, pcb, failed, mbox, backlog, ev, waiting, core, linked, callVars, cbVars>>

\* and plays them back under the core lock
Replay(a) ==
    /\ At(a, "replay") /\ LockFree
    /\ core' = Holding(a, Repeat(app[a].s, <<app[a].c, "RCVPLUS">>))
    /\ AppTo(a, "idle", None, 0)
    /\ UNCHANGED <<connVars, ev, waiting, linked, callVars, cbVars>>

\* lwip_netconn_do_delconn(): drains the mailboxes, closes the pcb, signals
DelConn(a, c) ==
    /\ LockFree
    /\ mbox' = [mbox EXCEPT ![c] = 0]
    /\ pcb' = [pcb EXCEPT ![c] = FALSE]
    /\ core' = Holding(a, (IF pcb[c] THEN <<<<c, "ERROR">>>> ELSE <<>>)
                          \o <<<<c, "RCVPLUS">>, <<c, "SENDPLUS">>>>)

\* lwip_close() up to netconn_prepare_delete()
Close(a, c) ==
    /\ At(a, "idle") /\ Unused(c) /\ c # Listener
    /\ socket[c] >= 0 /\ conn[socket[c]] = c
    /\ DelConn(a, c)
    /\ AppTo(a, "free", c, socket[c])
    /\ UNCHANGED <<conn, socket, failed, backlog, ev, waiting, linked, callVars, cbVars>>

\* free_socket_locked()
FreeSocket(a) ==
    /\ At(a, "free")
    /\ conn' = [conn EXCEPT ![app[a].s] = None]
    /\ AppTo(a, "delete", app[a].c, 0)
    /\ UNCHANGED <<socket, pcb, failed, mbox, backlog, ev, waiting, core, linked, callVars, cbVars>>

\* free_socket_free_elements(): netconn_delete() prepares the delete again
NetconnDelete(a) ==
    /\ At(a, "delete")
    /\ DelConn(a, app[a].c)
    /\ AppTo(a, "netconn_free", app[a].c, 0)
    /\ UNCHANGED <<conn, socket, failed, backlog, ev, waiting, linked, callVars, cbVars>>

\* netconn_free(): the memory may become the next netconn
NetconnFree(a) ==
    /\ At(a, "netconn_free")
    /\ socket' = [socket EXCEPT ![app[a].c] = -1]
    /\ failed' = [failed EXCEPT ![app[a].c] = FALSE]
    /\ AppTo(a, "idle", None, 0)
    /\ UNCHANGED <<conn, pcb, mbox, backlog, ev, waiting, core, linked, callVars, cbVars>>

\* what a thread does by itself once it has started a call
AppStep(a) ==
    \/ Minus(a) \/ AllocSocket(a) \/ PeerGone(a) \/ Assign(a) \/ Replay(a)
    \/ FreeSocket(a) \/ NetconnDelete(a) \/ NetconnFree(a)

App(a) == AppStep(a) \/ \E c \in Conns : Fetch(a, c) \/ Close(a, c)

-----------------------------------------------------------------------------
(* lwip_select() and lwip_poll().                                          *)

\* the sockets of a call; lwip_poll() reports errors whether asked or not
SocksOf(w) == {p[1] : p \in w}
Asked(t, w) == IF t \in Polls THEN w \cup (SocksOf(w) \X {"e"}) ELSE w
First(S) == CHOOSE x \in S : \A y \in S : x <= y
Found(t, s) == nready[t] \/ \E k \in Ready(ev[s]) : <<s, k>> \in want[t]
Goto(t, from, to) == pc[t] = from /\ pc' = [pc EXCEPT ![t] = to]
outVars == <<connVars, ev, core, app>>

\* the call is over and its variables with it
Return(t) ==
    /\ pc' = [pc EXCEPT ![t] = "idle"]
    /\ want' = [want EXCEPT ![t] = {}]
    /\ tmo' = [tmo EXCEPT ![t] = "poll"]
    /\ left' = [left EXCEPT ![t] = {}]
    /\ nready' = [nready EXCEPT ![t] = FALSE]
    /\ res' = [res EXCEPT ![t] = "none"]

\* the sockets are ones that the caller has: lwip_accept() gave them out
Call(t) ==
    /\ Goto(t, "idle", "scan1")
    /\ \E w \in Wants, m \in Timeouts :
          /\ \A s \in SocksOf(w) : conn[s] # None /\ socket[conn[s]] = s
          /\ want' = [want EXCEPT ![t] = Asked(t, w)]
          /\ tmo' = [tmo EXCEPT ![t] = m]
          /\ left' = [left EXCEPT ![t] = SocksOf(w)]
    /\ UNCHANGED <<outVars, waiting, linked, counted, nready, res, cbVars>>

\* lwip_selscan(), lwip_pollscan(): each socket in a protected region of its own
Scan(t) ==
    /\ pc[t] \in {"scan1", "scan2", "scan3"} /\ left[t] # {}
    /\ LET s == First(left[t])
       IN  /\ nready' = [nready EXCEPT ![t] = Found(t, s)]
           /\ left' = [left EXCEPT ![t] = @ \ {s}]
    /\ UNCHANGED <<outVars, waiting, linked, pc, want, tmo, counted, res, cbVars>>

\* ready, or only polling: return; otherwise prepare to wait
Scanned1(t) ==
    /\ pc[t] = "scan1" /\ left[t] = {}
    /\ \/ /\ nready[t] \/ tmo[t] = "poll"
          /\ Return(t)
       \/ /\ ~nready[t] /\ tmo[t] # "poll"
          /\ Goto(t, "scan1", "link")
          /\ UNCHANGED <<want, tmo, left, nready, res>>
    /\ UNCHANGED <<outVars, waiting, linked, counted, cbVars>>

\* sys_sem_new() may fail; otherwise lwip_link_select_cb() under the core lock
SemNewFails(t) ==
    /\ pc[t] = "link"
    /\ Return(t)
    /\ UNCHANGED <<outVars, waiting, linked, counted, cbVars>>

Link(t) ==
    /\ LockFree
    /\ Goto(t, "link", "inc")
    /\ linked' = linked \cup {t}
    /\ left' = [left EXCEPT ![t] = SocksOf(want[t])]
    /\ UNCHANGED <<outVars, waiting, want, tmo, counted, nready, res, cbVars>>

\* select_waiting++ of the next socket, which lwip_poll() also looks at
IncWaiting(t) ==
    /\ pc[t] = "inc" /\ left[t] # {}
    /\ LET s == First(left[t])
       IN  /\ (waiting[s] + 1) % SelWaitMod # 0
           /\ waiting' = [waiting EXCEPT ![s] = @ + 1]
           /\ counted' = [counted EXCEPT ![t] = @ \cup {s}]
           /\ left' = [left EXCEPT ![t] = @ \ {s}]
           /\ nready' = [nready EXCEPT ![t] = IF t \in Polls THEN Found(t, s) ELSE @]
    /\ UNCHANGED <<outVars, linked, pc, want, tmo, res, cbVars>>

\* Faulty: takes back what it has not counted as well
WaitingFullAll(t) ==
    /\ left[t] # {}
    /\ (waiting[First(left[t])] + 1) % SelWaitMod = 0
    /\ Goto(t, "inc", "dec")
    /\ res' = [res EXCEPT ![t] = "error"]
    /\ left' = [left EXCEPT ![t] = SocksOf(want[t])]
    /\ UNCHANGED <<outVars, waiting, linked, want, tmo, counted, nready, cbVars>>

\* it would wrap: lwip_select() gives up and will take back what it counted
\* (maxfdp2); lwip_poll() goes on as if ready and will take back all
WaitingFull(t) ==
    /\ left[t] # {}
    /\ (waiting[First(left[t])] + 1) % SelWaitMod = 0
    /\ Goto(t, "inc", "dec")
    /\ res' = [res EXCEPT ![t] = IF t \in Polls THEN @ ELSE "error"]
    /\ left' = [left EXCEPT ![t] = IF t \in Polls THEN SocksOf(want[t]) ELSE counted[t]]
    /\ UNCHANGED <<outVars, waiting, linked, want, tmo, counted, nready, cbVars>>

\* Faulty: sleeps without the second scan
CountedNoRescan(t) ==
    /\ left[t] = {}
    /\ Goto(t, "inc", "scan2")
    /\ UNCHANGED <<outVars, waiting, linked, want, tmo, left, counted, nready, res, cbVars>>

\* all counted; lwip_select() scans once more, as events may have come before
\* the link
Counted(t) ==
    /\ left[t] = {}
    /\ Goto(t, "inc", "scan2")
    /\ left' = [left EXCEPT ![t] = IF t \in Polls THEN {} ELSE SocksOf(want[t])]
    /\ UNCHANGED <<outVars, waiting, linked, want, tmo, counted, nready, res, cbVars>>

\* still nothing: sleep
Scanned2(t) ==
    /\ left[t] = {}
    /\ Goto(t, "scan2", IF nready[t] THEN "dec" ELSE "wait")
    /\ left' = [left EXCEPT ![t] = SocksOf(want[t])]
    /\ UNCHANGED <<outVars, waiting, linked, want, tmo, counted, nready, res, cbVars>>

\* sys_arch_sem_wait(): the semaphore, or the time-out
Wake(t) ==
    /\ sem[t] > 0
    /\ Goto(t, "wait", "dec")
    /\ sem' = [sem EXCEPT ![t] = @ - 1]
    /\ UNCHANGED <<outVars, waiting, linked, want, tmo, left, counted, nready, res, signalled>>

TimeOut(t) ==
    /\ tmo[t] = "finite"
    /\ Goto(t, "wait", "dec")
    /\ res' = [res EXCEPT ![t] = "timeout"]
    /\ UNCHANGED <<outVars, waiting, linked, want, tmo, left, counted, nready, cbVars>>

\* select_waiting-- of the next socket, which lwip_poll() also looks at
DecWaiting(t) ==
    /\ pc[t] = "dec" /\ left[t] # {}
    /\ LET s == First(left[t])
       IN  /\ waiting' = [waiting EXCEPT ![s] = IF @ > 0 THEN @ - 1 ELSE @]
           /\ counted' = [counted EXCEPT ![t] = @ \ {s}]
           /\ left' = [left EXCEPT ![t] = @ \ {s}]
           /\ nready' = [nready EXCEPT ![t] = IF t \in Polls THEN Found(t, s) ELSE @]
    /\ UNCHANGED <<outVars, linked, pc, want, tmo, res, cbVars>>

\* lwip_unlink_select_cb(); a lwip_select() that was woken scans a last time
Unlink(t) ==
    /\ LockFree /\ pc[t] = "dec" /\ left[t] = {}
    /\ linked' = linked \ {t}
    /\ signalled' = [signalled EXCEPT ![t] = FALSE]
    /\ sem' = [sem EXCEPT ![t] = 0]
    /\ \/ /\ t \in Polls \/ res[t] # "none"
          /\ Return(t)
       \/ /\ t \notin Polls /\ res[t] = "none"
          /\ Goto(t, "dec", "scan3")
          /\ left' = [left EXCEPT ![t] = SocksOf(want[t])]
          /\ nready' = [nready EXCEPT ![t] = FALSE]
          /\ UNCHANGED <<want, tmo, res>>
    /\ UNCHANGED <<outVars, waiting, counted>>

Scanned3(t) ==
    /\ pc[t] = "scan3" /\ left[t] = {}
    /\ Return(t)
    /\ UNCHANGED <<outVars, waiting, linked, counted, cbVars>>

\* the steps of a call that neither time out nor fail
WaiterStep(t) ==
    \/ Scan(t) \/ Scanned1(t) \/ Link(t) \/ IncWaiting(t) \/ WaitingFull(t) \/ Counted(t)
    \/ Scanned2(t) \/ Wake(t) \/ DecWaiting(t) \/ Unlink(t) \/ Scanned3(t)

Waiter(t) == WaiterStep(t) \/ Call(t) \/ SemNewFails(t) \/ TimeOut(t)

Next == Stack \/ (\E a \in Apps : App(a)) \/ (\E t \in Threads : Waiter(t))

Spec == Init /\ [][Next]_vars

\* Every thread runs; whoever wants the core lock gets it, as the mutex queues
\* by priority and no holder keeps it.  Nobody has to call, send or close.
FairSpec ==
    /\ Spec
    /\ WF_vars(EventCallback) /\ WF_vars(SelectCheckWaiters)
    /\ \A a \in Apps : SF_vars(AppStep(a))
    /\ \A t \in Threads : SF_vars(WaiterStep(t))

-----------------------------------------------------------------------------
(* Properties.                                                             *)

TypeOK ==
    /\ conn \in [Socks -> Conns \cup {None}]
    /\ socket \in [Conns -> Int] /\ mbox \in [Conns -> Nat]
    /\ pcb \in [Conns -> BOOLEAN] /\ failed \in [Conns -> BOOLEAN]
    /\ backlog \in Seq(Data)
    /\ ev \in [Socks -> [r : Int, w : BOOLEAN, e : BOOLEAN]]
    /\ waiting \in [Socks -> 0 .. SelWaitMod - 1]
    /\ core \in [by : Apps \cup {None}, todo : Seq(Conns \X Events),
                check : [s : Socks, has : SUBSET Kinds] \cup {None}]
    /\ app \in [Apps -> [pc : {"idle", "minus", "alloc", "assign", "replay", "free", "delete",
                             "netconn_free"},
                       c : Conns \cup {None}, s : Int]]
    /\ linked \subseteq Threads
    /\ pc \in [Threads -> {"idle", "scan1", "link", "inc", "scan2", "wait", "dec", "scan3"}]
    /\ want \in [Threads -> SUBSET (Socks \X Kinds)]
    /\ tmo \in [Threads -> Timeouts \cup {"poll"}]
    /\ left \in [Threads -> SUBSET Socks] /\ counted \in [Threads -> SUBSET Socks]
    /\ nready \in [Threads -> BOOLEAN] /\ signalled \in [Threads -> BOOLEAN]
    /\ res \in [Threads -> {"none", "timeout", "error"}]
    /\ sem \in [Threads -> Nat]

\* RCVPLUS events of a netconn that are raised but not delivered
Raised(c) ==
    Cardinality({i \in DOMAIN core.todo : core.todo[i] = <<c, "RCVPLUS">>})

\* what rcvevent of the socket, or the negative callback_arg.socket, counts
Seen(c) == IF socket[c] < 0 THEN -1 - socket[c] ELSE ev[socket[c]].r

\* the threads inside a call on a netconn, at a given step of it
Inside(c, p) == {a \in Apps : app[a].c = c /\ app[a].pc = p}
Closing(c) == \E p \in {"free", "delete", "netconn_free"} : Inside(c, p) # {}

\* rcvevent counts the messages in the mailbox: every message that recv_tcp()
\* or accept_function() put there, before the netconn had a socket, while
\* lwip_accept() took the count over, or after, is announced exactly once, and
\* one fetched but not yet counted down is the only discrepancy.  A socket
\* with data is readable, and one without is not.
EventCount ==
    \A c \in Conns : ~Closing(c) =>
        Seen(c) + Raised(c) + (IF \E a \in Inside(c, "replay") : TRUE
                               THEN app[CHOOSE a \in Inside(c, "replay") : TRUE].s ELSE 0)
        = mbox[c] + (IF failed[c] THEN 1 ELSE 0) + Cardinality(Inside(c, "minus"))

\* an event the thread asks for is there
WantReady(t) == \E p \in want[t] : p[2] \in Ready(ev[p[1]])

\* select_check_waiters() is about to be called for an event of the thread
CheckComes(t) ==
    /\ core.check # None /\ t \in linked /\ ~signalled[t]
    /\ \E k \in core.check.has : <<core.check.s, k>> \in want[t]

\* A thread asleep in lwip_select() or lwip_poll() while one of its sockets is
\* ready has a signalled semaphore or is about to get it: no event is lost
\* between the scans, the link, the announcement in select_waiting and the
\* sleep, though each is a protected region of its own.
NoLostWakeup ==
    \A t \in Threads :
        pc[t] = "wait" /\ WantReady(t) => sem[t] > 0 \/ CheckComes(t)

\* select_waiting of a socket is the number of calls that announced themselves
\* and have not taken it back, whatever the sockets did in the meantime and
\* also after an overflow; it is what event_callback() trusts to skip the list.
WaitingAccounted ==
    \A s \in Socks : waiting[s] = Cardinality({t \in Threads : s \in counted[t]})

\* LWIP_ASSERT("sock->select_waiting > 0") of the decrement loops.
WaitingPositive ==
    \A t \in Threads : pc[t] = "dec" /\ left[t] # {} => waiting[First(left[t])] > 0

\* A thread asleep on a ready socket wakes up: event_callback() may skip the
\* list of waiters only when nobody on it can be waiting for this event.
WakesUp == \A t \in Threads : (pc[t] = "wait" /\ WantReady(t)) ~> pc[t] # "wait"

=============================================================================
