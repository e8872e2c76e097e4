------------------------------- MODULE LwipIo -------------------------------
(***************************************************************************)
(* RTEMS descriptors in front of lwIP sockets (rtems_lwip_io.c).           *)
(*                                                                         *)
(* A socket has two names: the RTEMS descriptor that the application uses  *)
(* and the lwIP socket number in data0 of the iop.  Every entry point      *)
(* translates under rtems_lwip_mutex and calls lwIP after releasing it, so *)
(* between the two any other thread may close and create sockets.  Both    *)
(* tables are small and both kinds of number are given out again.          *)
(***************************************************************************)
EXTENDS Integers, FiniteSets

CONSTANTS
    Threads,
    NIop,        \* rtems_libio_number_iops
    NSock,       \* NUM_SOCKETS
    MaxSockets,  \* bound: lwIP sockets ever created
    MaxNest,     \* bound: nesting of the mutex
    None

ASSUME IoAssumption ==
    NIop \in Nat \ {0} /\ NSock \in Nat \ {0} /\ MaxSockets \in Nat /\ MaxNest \in Nat /\ None \notin Threads

Iops == 0 .. NIop - 1
Socks == 0 .. NSock - 1
Ids == 1 .. MaxSockets

VARIABLES
    owner, nest,  \* rtems_lwip_mutex, which is recursive
    st,           \* of an iop: "free", "open", "closing"
    data0,        \* of an iop: the lwIP socket number
    iopId,        \* history: the socket that the descriptor was made for
    sock,         \* the socket with an lwIP number, 0: none
    made,         \* sockets created so far
    pc, fd, s,    \* a thread: where it is, its descriptor and its lwipfd
    meant         \* history: the socket of the descriptor when it began

mutexVars == <<owner, nest>>
iopVars == <<st, data0, iopId>>
sockVars == <<sock, made>>
callVars == <<pc, fd, s, meant>>
vars == <<mutexVars, iopVars, sockVars, callVars>>

Init ==
    /\ owner = None /\ nest = 0
    /\ st = [f \in Iops |-> "free"]
    /\ data0 = [f \in Iops |-> -1]
    /\ iopId = [f \in Iops |-> 0]
    /\ sock = [n \in Socks |-> 0]
    /\ made = 0
    /\ pc = [t \in Threads |-> "idle"]
    /\ fd = [t \in Threads |-> 0]
    /\ s = [t \in Threads |-> -1]
    /\ meant = [t \in Threads |-> 0]

-----------------------------------------------------------------------------

\* rtems_lwip_semaphore_obtain() would not block the thread
MayLock(t) == owner \in {None, t}
Lock(t) == MayLock(t) /\ owner' = t /\ nest' = nest + 1
Unlock(t) ==
    /\ nest' = nest - 1
    /\ owner' = IF nest = 1 THEN None ELSE owner

At(t, from, to) == pc[t] = from /\ pc' = [pc EXCEPT ![t] = to]

\* alloc_socket(): the lowest free number
NewSocket(t) ==
    \E n \in Socks :
        /\ sock[n] = 0 /\ \A m \in 0 .. n - 1 : sock[m] # 0
        /\ made < MaxSockets
        /\ sock' = [sock EXCEPT ![n] = made + 1]
        /\ made' = made + 1
        /\ s' = [s EXCEPT ![t] = n]

\* lwip_close() of a number, which may be -1 or without a socket
CloseSock(n) == sock' = [m \in Socks |-> IF m = n THEN 0 ELSE sock[m]]

\* rtems_lwip_make_sysfd_from_lwipfd(), when rtems_libio_allocate() has one
MakeSysfd(t) ==
    \E f \in Iops :
        /\ st[f] = "free"
        /\ st' = [st EXCEPT ![f] = "open"]
        /\ data0' = [data0 EXCEPT ![f] = s[t]]
        /\ iopId' = [iopId EXCEPT ![f] = IF s[t] < 0 THEN 0 ELSE sock[s[t]]]

-----------------------------------------------------------------------------
(* socket().                                                               *)

Socket(t) ==
    /\ At(t, "idle", "socket") /\ nest < MaxNest
    /\ Lock(t)
    /\ UNCHANGED <<iopVars, sockVars, fd, s, meant>>

\* lwip_socket(); on failure socket() returns with the mutex held
LwipSocket(t) ==
    /\ At(t, "socket", "make")
    /\ NewSocket(t)
    /\ UNCHANGED <<mutexVars, iopVars, fd, meant>>

LwipSocketFails(t) ==
    /\ At(t, "socket", "idle")
    /\ UNCHANGED <<mutexVars, iopVars, sockVars, fd, s, meant>>

\* Faulty: closes the lwIP socket in any case
SocketMadeCloses(t) ==
    /\ At(t, "make", "idle")
    /\ MakeSysfd(t)
    /\ CloseSock(s[t])
    /\ Unlock(t)
    /\ UNCHANGED <<made, fd, s, meant>>

\* it has a descriptor
SocketMade(t) ==
    /\ At(t, "make", "idle")
    /\ MakeSysfd(t)
    /\ Unlock(t)
    /\ UNCHANGED <<sockVars, fd, s, meant>>

\* Faulty: returns without closing the lwIP socket
SocketNotMadeLeaks(t) ==
    /\ At(t, "make", "idle")
    /\ Unlock(t)
    /\ UNCHANGED <<iopVars, sockVars, fd, s, meant>>

\* no descriptor: lwip_close() before the mutex is released
SocketNotMade(t) ==
    /\ At(t, "make", "idle")
    /\ CloseSock(s[t])
    /\ Unlock(t)
    /\ UNCHANGED <<iopVars, made, fd, s, meant>>

-----------------------------------------------------------------------------
(* The entry points that translate a descriptor and call lwIP.             *)

\* rtems_lwip_sysfd_to_lwipfd() between obtain and release; the descriptor may
\* be closing, as the test of LIBIO_FLAGS_OPEN is commented out
Translate(t, f, op) ==
    /\ pc[t] = "idle" /\ MayLock(t)
    /\ st[f] # "free" /\ data0[f] >= 0
    /\ pc' = [pc EXCEPT ![t] = op]
    /\ fd' = [fd EXCEPT ![t] = f]
    /\ s' = [s EXCEPT ![t] = data0[f]]
    /\ meant' = [meant EXCEPT ![t] = iopId[f]]
    /\ UNCHANGED <<mutexVars, iopVars, sockVars>>

\* Faulty: waits for the socket to be there
EnterWaits(t) ==
    /\ At(t, "call", "inside")
    /\ sock[s[t]] # 0
    /\ UNCHANGED <<mutexVars, iopVars, sockVars, fd, s, meant>>

\* the lwip_ function gets as far as get_socket(), which may fail
Enter(t) ==
    /\ pc[t] = "call"
    /\ pc' = [pc EXCEPT ![t] = IF sock[s[t]] # 0 THEN "inside" ELSE "idle"]
    /\ UNCHANGED <<mutexVars, iopVars, sockVars, fd, s, meant>>

Leave(t) ==
    /\ At(t, "inside", "idle")
    /\ UNCHANGED <<mutexVars, iopVars, sockVars, fd, s, meant>>

\* select() translates a second time when lwip_select() is back
LwipSelected(t) ==
    /\ At(t, "select", "back")
    /\ UNCHANGED <<mutexVars, iopVars, sockVars, fd, s, meant>>

TranslateBack(t) ==
    /\ MayLock(t)
    /\ At(t, "back", "idle")
    /\ s' = [s EXCEPT ![t] = data0[fd[t]]]
    /\ UNCHANGED <<mutexVars, iopVars, sockVars, fd, meant>>

\* lwip_accept() returns a new socket, or -1
LwipAccept(t) ==
    /\ At(t, "accept", "amake")
    /\ sock[s[t]] # 0
    /\ NewSocket(t)
    /\ UNCHANGED <<mutexVars, iopVars, fd, meant>>

LwipAcceptFails(t) ==
    /\ At(t, "accept", "amake")
    /\ s' = [s EXCEPT ![t] = -1]
    /\ UNCHANGED <<mutexVars, iopVars, sockVars, fd, meant>>

\* accept() makes a descriptor of either
AcceptMade(t) ==
    /\ MayLock(t)
    /\ At(t, "amake", "idle")
    /\ MakeSysfd(t)
    /\ UNCHANGED <<mutexVars, sockVars, fd, s, meant>>

AcceptNotMade(t) ==
    /\ MayLock(t)
    /\ At(t, "amake", "aclose")
    /\ UNCHANGED <<mutexVars, iopVars, sockVars, fd, s, meant>>

AcceptClose(t) ==
    /\ At(t, "aclose", "idle")
    /\ CloseSock(s[t])
    /\ UNCHANGED <<mutexVars, iopVars, made, fd, s, meant>>

-----------------------------------------------------------------------------
(* close().                                                                *)

\* close() of libio takes LIBIO_FLAGS_OPEN away, then calls the handler
Close(t, f) ==
    /\ pc[t] = "idle" /\ st[f] = "open"
    /\ st' = [st EXCEPT ![f] = "closing"]
    /\ pc' = [pc EXCEPT ![t] = "close"]
    /\ fd' = [fd EXCEPT ![t] = f]
    /\ meant' = [meant EXCEPT ![t] = iopId[f]]
    /\ UNCHANGED <<mutexVars, data0, iopId, sockVars, s>>

\* Faulty: closes the socket of the thread's last call
CloseHandlerStale(t) ==
    /\ MayLock(t)
    /\ At(t, "close", IF s[t] < 0 THEN "free" ELSE "lwip_close")
    /\ UNCHANGED <<mutexVars, iopVars, sockVars, fd, s, meant>>

\* rtems_lwip_close() up to lwip_close()
CloseHandler(t) ==
    /\ MayLock(t)
    /\ At(t, "close", IF data0[fd[t]] < 0 THEN "free" ELSE "lwip_close")
    /\ s' = [s EXCEPT ![t] = data0[fd[t]]]
    /\ UNCHANGED <<mutexVars, iopVars, sockVars, fd, meant>>

LwipClose(t) ==
    /\ At(t, "lwip_close", "free")
    /\ CloseSock(s[t])
    /\ UNCHANGED <<mutexVars, iopVars, made, fd, s, meant>>

\* rtems_libio_free(), whatever the handler returned
LibioFree(t) ==
    /\ At(t, "free", "idle")
    /\ st' = [st EXCEPT ![fd[t]] = "free"]
    /\ data0' = [data0 EXCEPT ![fd[t]] = -1]
    /\ iopId' = [iopId EXCEPT ![fd[t]] = 0]
    /\ UNCHANGED <<mutexVars, sockVars, fd, s, meant>>

\* what a thread does by itself once it is inside a call
Step(t) ==
    \/ LwipSocket(t) \/ LwipSocketFails(t) \/ SocketMade(t) \/ SocketNotMade(t)
    \/ Enter(t) \/ Leave(t) \/ LwipSelected(t) \/ TranslateBack(t)
    \/ LwipAccept(t) \/ LwipAcceptFails(t) \/ AcceptMade(t) \/ AcceptNotMade(t) \/ AcceptClose(t)
    \/ CloseHandler(t) \/ LwipClose(t) \/ LibioFree(t)

Begin(t) ==
    \/ Socket(t)
    \/ \E f \in Iops : Close(t, f) \/ \E op \in {"call", "accept", "select"} : Translate(t, f, op)

Next == \E t \in Threads : Step(t) \/ Begin(t)

Spec == Init /\ [][Next]_vars

\* Every thread runs, lwIP calls return, and a thread queued for the mutex
\* gets it if it is released again and again.
FairSpec == Spec /\ \A t \in Threads : SF_vars(Step(t))

-----------------------------------------------------------------------------
(* Properties.                                                             *)

TypeOK ==
    /\ owner \in Threads \cup {None} /\ nest \in Nat
    /\ st \in [Iops -> {"free", "open", "closing"}]
    /\ data0 \in [Iops -> Socks \cup {-1}]
    /\ iopId \in [Iops -> Ids \cup {0}]
    /\ sock \in [Socks -> Ids \cup {0}] /\ made \in 0 .. MaxSockets
    /\ pc \in [Threads -> {"idle", "socket", "make", "call", "inside", "select", "back", "accept",
                           "amake", "aclose", "close", "lwip_close", "free"}]
    /\ fd \in [Threads -> Iops]
    /\ s \in [Threads -> Socks \cup {-1}]
    /\ meant \in [Threads -> Ids \cup {0}]

\* An open descriptor names the very lwIP socket it was made for, so no two
\* open descriptors share one, though numbers of both kinds are reused and
\* creation and closing interleave between their protected regions.
NamesOwnSocket ==
    \A f \in Iops : st[f] = "open" /\ data0[f] >= 0 =>
        sock[data0[f]] = iopId[f] /\ iopId[f] # 0

\* the thread has an lwIP socket that is to get a descriptor or be closed
Carries(t, n) == pc[t] \in {"make", "amake", "aclose"} /\ s[t] = n

\* the descriptor was made for the socket that has this number
Names(f, n) == st[f] # "free" /\ data0[f] = n /\ iopId[f] = sock[n]

\* No lwIP socket is lost when a table is full: each has a descriptor, or a
\* thread inside socket() or accept() that will give it one or close it.
NoOrphan ==
    \A n \in Socks : sock[n] # 0 =>
        (\E f \in Iops : Names(f, n)) \/ (\E t \in Threads : Carries(t, n))

\* A call that is inside lwIP works on the socket its descriptor had when the
\* call began, unless some thread has closed that descriptor meanwhile.
CallsHitOwn ==
    \A t \in Threads : pc[t] = "inside" =>
        \/ sock[s[t]] = meant[t]
        \/ st[fd[t]] # "open" \/ iopId[fd[t]] # meant[t]

\* a thread returned from socket() with the mutex
Leaked == \E t \in Threads : owner = t /\ pc[t] \notin {"socket", "make"}

\* Every call comes back, provided socket() never fails for want of an lwIP
\* socket: that path leaves the mutex locked, and then only its thread can
\* use the network.
CallReturns ==
    []~Leaked => \A t \in Threads : pc[t] # "idle" ~> pc[t] = "idle"

=============================================================================
