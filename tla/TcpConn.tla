------------------------------ MODULE TcpConn ------------------------------
(***************************************************************************)
(* TCP connections of lwIP from their first SYN to the release of the      *)
(* protocol control block (pcb): tcp.c, tcp_in.c and the netconns that own *)
(* the pcbs (api_msg.c).  Two hosts run this code.  The client connects,   *)
(* again and again, from a few ports; the server listens.  Segments may be *)
(* lost and overtake each other, and a retransmission leaves old copies    *)
(* under way.  No data is sent (TcpStream is about data): only SYN and FIN *)
(* take up sequence numbers, so at most one segment is unacknowledged.     *)
(*                                                                         *)
(* The n-th pcb a host allocates has the name n.  The initial sequence     *)
(* number grows from one pcb to the next (tcp_next_iss adds tcp_ticks), by *)
(* Stride, so a sequence number tells which pcb chose it.                  *)
(*                                                                         *)
(* The retransmission timer (rtime, rto) is taken to expire with every     *)
(* tick of the slow timer; its backoff is left out.                        *)
(***************************************************************************)
EXTENDS Integers, FiniteSets, Sequences

CONSTANTS
    NPort,          \* the client's local ports are 1..NPort
    NConn,          \* bound: pcbs a host allocates in a behaviour
    NetMax,         \* bound: segments under way (more are lost)
    PcbMax,         \* MEMP_NUM_TCP_PCB
    ConnMax,        \* netconns the server can allocate for connections
    MboxMax,        \* DEFAULT_ACCEPTMBOX_SIZE
    SynMaxRtx,      \* TCP_SYNMAXRTX
    MaxRtx,         \* TCP_MAXRTX
    FinWait,        \* TCP_FIN_WAIT_TIMEOUT and TCP_SYN_RCVD_TIMEOUT in slow ticks
    Msl2,           \* 2 * TCP_MSL in slow ticks
    HalfClosers,    \* the hosts whose application calls shutdown()
    Stride,         \* tcp_ticks, what tcp_next_iss() adds
    Wnd             \* rcv_wnd, the receive window

Host == {"client", "server"}

ASSUME ConnAssumption ==
    /\ NPort \in Nat \ {0}
    /\ NConn \in Nat \ {0} /\ NetMax \in Nat \ {0} /\ PcbMax \in Nat \ {0}
    /\ ConnMax \in Nat /\ MboxMax \in Nat /\ MaxRtx \in Nat /\ SynMaxRtx \in 0..MaxRtx
    /\ FinWait \in Nat /\ Msl2 \in Nat /\ FinWait <= Msl2
    /\ HalfClosers \subseteq Host
    /\ Stride \in Nat /\ Stride >= 3 /\ Wnd \in Nat \ {0}

VARIABLES
    pcb,        \* the pcbs of each host, with state FREE when not allocated
    conn,       \* the netconn made for the pcb of the same name
    lis,        \* the server's listening pcb exists
    acceptmbox, \* names of new netconns, ErrMsg for an error message
    made,       \* pcbs allocated so far (stands for the static iss)
    net         \* segments under way

vars == <<pcb, conn, lis, acceptmbox, made, net>>

Other(h) == IF h = "client" THEN "server" ELSE "client"
Name == 1..NConn
Ports == 1..NPort
ErrMsg == 0

Active == {"SYN_SENT", "SYN_RCVD", "ESTABLISHED", "FIN_WAIT_1", "FIN_WAIT_2",
           "CLOSE_WAIT", "CLOSING", "LAST_ACK"}
State == Active \cup {"FREE", "TIME_WAIT"}

\* errf: the callbacks are those of netconn `n' (setup_tcp); lis: pcb->listener
\* is set (looked at in SYN_RCVD only); rx: TF_RXCLOSED; age: tcp_ticks - tmr
FreePcb == [st |-> "FREE", port |-> 1, nxt |-> 0, lastack |-> 0,
            rcv |-> 0, nrtx |-> 0, age |-> 0, rx |-> FALSE, errf |-> FALSE, lis |-> FALSE]

\* ref: conn->pcb.tcp is not NULL; half: the application has since called
\* shutdown(SHUT_WR)
FreeConn == [st |-> "FREE", ref |-> FALSE, half |-> FALSE]

Live(h) == {n \in Name : pcb[h][n].st # "FREE"}
On(h, port, states) == {n \in Live(h) : pcb[h][n].port = port /\ pcb[h][n].st \in states}

----------------------------------------------------------------------------
\* Segments
Seg(h, p, f, seq, ack) == [to |-> Other(h), port |-> p, f |-> f, seq |-> seq, ack |-> ack]
Len1(m) == IF m.f \cap {"SYN", "FIN"} # {} THEN 1 ELSE 0          \* tcplen
EmptyAck(h, p) == Seg(h, p.port, {"ACK"}, p.nxt, p.rcv)
RstFor(h, m) == Seg(h, m.port, {"RST", "ACK"}, m.ack, m.seq + Len1(m))
RstOf(h, p) == Seg(h, p.port, {"RST", "ACK"}, p.nxt, p.rcv)

Unacked(p) == p.lastack # p.nxt

\* The unacknowledged segment, as tcp_output() sends it (again)
Outstanding(h, p) ==
    Seg(h, p.port,
        CASE p.st = "SYN_SENT" -> {"SYN"} [] p.st = "SYN_RCVD" -> {"SYN", "ACK"}
          [] OTHER -> {"FIN", "ACK"},
        p.nxt - 1, p.rcv)

\* nrtx, which sticks at 255 in the code; only its reaching MaxRtx matters
Recounted(p) == IF p.nrtx < MaxRtx THEN [p EXCEPT !.nrtx = @ + 1] ELSE p

\* What is under way once m has been taken out and `out' sent
Transmit(m, out) ==
    LET left == net \ m
    IN  net' = IF Cardinality(left \cup out) <= NetMax THEN left \cup out ELSE left

----------------------------------------------------------------------------
\* The state machine: what a segment m makes of the pcb p of host h.  Each
\* operator gives the new pcb, the segments sent, and what tcp_input() does then.
Outcome(p, out, then) == [p |-> p, out |-> out, then |-> then]

\* tcp_receive() without data: the ACK, then a FIN that is next in sequence
GotFin(p, m) == "FIN" \in m.f /\ m.seq = p.rcv

AcksAll(p, m) == "ACK" \in m.f /\ m.ack = p.nxt

Received(p, m) ==
    LET q == IF "ACK" \in m.f /\ m.ack \in p.lastack + 1 .. p.nxt
             THEN [p EXCEPT !.lastack = m.ack, !.nrtx = 0] ELSE p
    IN  IF GotFin(p, m) THEN [q EXCEPT !.rcv = @ + 1] ELSE q

\* tcp_receive() answers an ACK of what was not sent, every FIN, and an empty
\* segment from outside the window
Answers(p, m) ==
    \/ "ACK" \in m.f /\ m.ack > p.nxt
    \/ Len1(m) = 1
    \/ m.seq \notin p.rcv .. p.rcv + Wnd - 1

ProcessRst(h, p, m) ==
    IF p.st = "SYN_SENT"
    THEN Outcome(p, {}, IF m.ack = p.nxt THEN "reset" ELSE "go on")
    ELSE IF m.seq = p.rcv THEN Outcome(p, {}, "reset")
    ELSE Outcome(p, IF m.seq \in p.rcv .. p.rcv + Wnd THEN {EmptyAck(h, p)} ELSE {}, "go on")

\* Faulty: any SYN|ACK will do
ProcessSynSentAny(h, p, m) ==
    IF {"SYN", "ACK"} \subseteq m.f
    THEN LET q == [p EXCEPT !.st = "ESTABLISHED", !.rcv = m.seq + 1, !.lastack = p.nxt]
         IN  Outcome(q, {EmptyAck(h, q)}, "connected")
    ELSE Outcome(p, {}, "go on")

ProcessSynSent(h, p, m) ==
    IF {"SYN", "ACK"} \subseteq m.f /\ m.ack = p.lastack + 1
    THEN LET q == [p EXCEPT !.st = "ESTABLISHED", !.rcv = m.seq + 1, !.lastack = m.ack]
         IN  Outcome(q, {EmptyAck(h, q)}, "connected")
    ELSE IF "ACK" \notin m.f THEN Outcome(p, {}, "go on")
    ELSE IF p.nrtx < SynMaxRtx
    THEN Outcome(Recounted(p), {RstFor(h, m), Outstanding(h, p)}, "go on")
    ELSE Outcome(p, {RstFor(h, m)}, "go on")

ProcessSynRcvd(h, p, m) ==
    IF "SYN" \in m.f
    THEN IF m.seq = p.rcv - 1
         THEN Outcome(Recounted(p), {Outstanding(h, p)}, "go on")
         ELSE Outcome(p, {}, "go on")
    ELSE IF m.ack \in p.lastack + 1 .. p.nxt
    THEN LET q == [Received(p, m) EXCEPT !.st = IF GotFin(p, m) THEN "CLOSE_WAIT" ELSE "ESTABLISHED"]
         IN  Outcome(q, IF Answers(p, m) THEN {EmptyAck(h, q)} ELSE {}, "accept")
    ELSE Outcome(p, {RstFor(h, m)}, "go on")

NextState(p, m) ==
    CASE p.st = "ESTABLISHED" /\ GotFin(p, m) -> "CLOSE_WAIT"
      [] p.st = "FIN_WAIT_1" /\ GotFin(p, m) -> IF AcksAll(p, m) THEN "TIME_WAIT" ELSE "CLOSING"
      [] p.st = "FIN_WAIT_1" /\ ~GotFin(p, m) /\ AcksAll(p, m) -> "FIN_WAIT_2"
      [] p.st = "FIN_WAIT_2" /\ GotFin(p, m) -> "TIME_WAIT"
      [] p.st = "CLOSING" /\ AcksAll(p, m) -> "TIME_WAIT"
      [] OTHER -> p.st

ProcessSynced(h, p, m) ==
    LET q == [Received(p, m) EXCEPT !.st = NextState(p, m)]
        r == IF q.st = "TIME_WAIT" THEN [q EXCEPT !.lastack = q.nxt, !.nrtx = 0] ELSE q     \* tcp_pcb_purge
    IN  Outcome(r, IF Answers(p, m) THEN {EmptyAck(h, r)} ELSE {},
                IF p.st = "LAST_ACK" /\ AcksAll(p, m) THEN "closed" ELSE "go on")

Touched(p) == IF p.rx THEN p ELSE [p EXCEPT !.age = 0]

Process(h, p, m) ==
    IF "RST" \in m.f THEN ProcessRst(h, p, m)
    ELSE IF "SYN" \in m.f /\ p.st \notin {"SYN_SENT", "SYN_RCVD"}
    THEN Outcome(p, {EmptyAck(h, p)}, "go on")
    ELSE CASE p.st = "SYN_SENT" -> ProcessSynSent(h, Touched(p), m)
           [] p.st = "SYN_RCVD" -> ProcessSynRcvd(h, Touched(p), m)
           [] OTHER -> ProcessSynced(h, Touched(p), m)

----------------------------------------------------------------------------
\* Releasing pcbs, and err_tcp()
LostConn == [FreeConn EXCEPT !.st = "NONE"]

\* The pcbs S of h are freed; the owners of those in `told' hear of it
Release(h, S, told) ==
    /\ pcb' = [pcb EXCEPT ![h] = [n \in Name |-> IF n \in S THEN FreePcb ELSE @[n]]]
    /\ conn' = [conn EXCEPT ![h] = [n \in Name |-> IF n \in told /\ pcb[h][n].errf
                                                   THEN LostConn ELSE @[n]]]

Oldest(h, S) == {n \in S : \A k \in S : pcb[h][k].age <= pcb[h][n].age}
In(h, st) == {n \in Live(h) : pcb[h][n].st = st}

\* tcp_alloc(): whom it kills when all pcbs are in use
Victims(h) ==
    IF In(h, "TIME_WAIT") # {} THEN Oldest(h, In(h, "TIME_WAIT"))
    ELSE IF In(h, "LAST_ACK") # {} THEN Oldest(h, In(h, "LAST_ACK"))
    ELSE Oldest(h, In(h, "CLOSING"))

Iss(n) == n * Stride                                              \* tcp_next_iss

Full(h) == Cardinality(Live(h)) >= PcbMax

\* The next pcb is allocated as p with the netconn c, in place of a victim if
\* need be; tcp_abandon() tells the owner unless the victim is in TIME_WAIT
Alloc(h, p, c) ==
    LET n == made[h] + 1
    IN  /\ made[h] < NConn
        /\ made' = [made EXCEPT ![h] = n]
        /\ \E v \in IF Full(h) THEN Victims(h) ELSE {n} :
             /\ pcb' = [pcb EXCEPT ![h][v] = FreePcb, ![h][n] = p]
             /\ conn' = [conn EXCEPT ![h][v] = IF pcb[h][v].errf /\ pcb[h][v].st # "TIME_WAIT"
                                               THEN LostConn ELSE @,
                                     ![h][n] = c]

SetPcb(h, n, p) == pcb' = [pcb EXCEPT ![h][n] = p]
SetConn(h, n, c) == conn' = [conn EXCEPT ![h][n] = c]

----------------------------------------------------------------------------
\* tcp_input() for the active pcb n of h, r being what tcp_process() makes of m
InputGoesOn(h, n, m, r) ==
    /\ r.then \in {"go on", "connected"}
    /\ SetPcb(h, n, r.p)
    /\ IF r.then = "connected" THEN SetConn(h, n, [conn[h][n] EXCEPT !.st = "NONE"])
       ELSE UNCHANGED conn
    /\ Transmit({m}, r.out)
    /\ UNCHANGED acceptmbox

InputReset(h, n, m, r) ==
    /\ r.then = "reset"
    /\ Release(h, {n}, {n})
    /\ Transmit({m}, {})
    /\ UNCHANGED acceptmbox

\* tcp_input_delayed_close(): the last ACK has come
InputClosed(h, n, m, r) ==
    /\ r.then = "closed"
    /\ Release(h, {n}, IF pcb[h][n].rx THEN {} ELSE {n})
    /\ Transmit({m}, {})
    /\ UNCHANGED acceptmbox

\* The handshake is complete: accept_function() makes a netconn and posts it;
\* when it cannot, or the listener has gone, the connection is aborted
Post(x) == acceptmbox' = IF Len(acceptmbox) < MboxMax THEN Append(acceptmbox, x) ELSE acceptmbox

ConnLeft == Cardinality({n \in Name : conn["server"][n].st # "FREE"}) < ConnMax

CanAccept(p) == p.lis /\ ConnLeft /\ Len(acceptmbox) < MboxMax

InputAccepted(h, n, m, r) ==
    /\ r.then = "accept" /\ CanAccept(r.p)
    /\ SetPcb(h, n, [r.p EXCEPT !.errf = TRUE, !.lis = FALSE])
    /\ SetConn(h, n, [FreeConn EXCEPT !.st = "NONE", !.ref = TRUE])
    /\ Post(n)
    /\ Transmit({m}, r.out)

InputNotAccepted(h, n, m, r) ==
    /\ r.then = "accept" /\ ~CanAccept(r.p)
    /\ Release(h, {n}, {n})
    /\ IF r.p.lis /\ ~ConnLeft THEN Post(ErrMsg) ELSE UNCHANGED acceptmbox
    /\ Transmit({m}, {RstOf(h, pcb[h][n])})

InputActive(h, n, m) ==
    LET r == Process(h, pcb[h][n], m)
    IN  /\ m \in net /\ m.to = h /\ n \in On(h, m.port, Active)
        /\ \/ InputGoesOn(h, n, m, r)
           \/ InputReset(h, n, m, r)
           \/ InputClosed(h, n, m, r)
           \/ InputAccepted(h, n, m, r)
           \/ InputNotAccepted(h, n, m, r)
        /\ UNCHANGED <<lis, made>>

----------------------------------------------------------------------------
\* tcp_timewait_input()
InputTimeWait(h, n, m) ==
    LET p == pcb[h][n]
        q == IF "FIN" \in m.f /\ m.f \cap {"RST", "SYN"} = {} THEN [p EXCEPT !.age = 0] ELSE p
    IN  /\ m \in net /\ m.to = h /\ On(h, m.port, Active) = {} /\ n \in On(h, m.port, {"TIME_WAIT"})
        /\ SetPcb(h, n, q)
        /\ Transmit({m}, CASE "RST" \in m.f -> {}
                           [] "SYN" \in m.f /\ m.seq \in p.rcv .. p.rcv + Wnd -> {RstFor(h, m)}
                           [] OTHER -> IF Len1(m) = 1 THEN {EmptyAck(h, p)} ELSE {})
        /\ UNCHANGED <<conn, lis, acceptmbox, made>>

----------------------------------------------------------------------------
\* tcp_listen_input() and segments no pcb matches
Unmatched(h, m) ==
    /\ m \in net /\ m.to = h
    /\ On(h, m.port, Active \cup {"TIME_WAIT"}) = {}

Opening(h, m) == h = "server" /\ lis /\ m.f = {"SYN"}

InputNoPcb(h, m) ==
    /\ Unmatched(h, m) /\ ~Opening(h, m)
    /\ Transmit({m}, IF "RST" \in m.f THEN {} ELSE {RstFor(h, m)})
    /\ UNCHANGED <<pcb, conn, lis, acceptmbox, made>>

SynRcvdPcb(n, m) ==
    [FreePcb EXCEPT !.st = "SYN_RCVD", !.port = m.port, !.nxt = Iss(n) + 1, !.lastack = Iss(n),
                    !.rcv = m.seq + 1, !.lis = TRUE]

InputSyn(h, m) ==
    LET n == made[h] + 1
    IN  /\ Unmatched(h, m) /\ Opening(h, m)
        /\ \/ /\ Alloc(h, SynRcvdPcb(n, m), FreeConn)
              /\ Transmit({m}, {Outstanding(h, SynRcvdPcb(n, m))})
              /\ UNCHANGED acceptmbox
           \/ /\ made[h] < NConn /\ Full(h) /\ Victims(h) = {}
              /\ Post(ErrMsg) /\ Transmit({m}, {})
              /\ UNCHANGED <<pcb, conn, made>>
        /\ UNCHANGED lis

----------------------------------------------------------------------------
\* tcp_slowtmr()
\* tcp_ticks - tmr, which matters up to Msl2 only
Age(p) == IF p.age < Msl2 THEN p.age + 1 ELSE p.age

GivesUp(p) ==
    /\ p.st \in Active
    /\ p.nrtx >= (IF p.st = "SYN_SENT" THEN SynMaxRtx ELSE MaxRtx)

Rexmits(p) == p.st \in Active /\ ~GivesUp(p) /\ Unacked(p)

\* Faulty: no time-out in FIN_WAIT_2
ExpiresNotFinWait(p) ==
    \/ p.st = "SYN_RCVD" /\ p.age >= FinWait
    \/ p.st \in {"LAST_ACK", "TIME_WAIT"} /\ p.age >= Msl2

Expires(p) ==
    \/ p.st = "FIN_WAIT_2" /\ p.rx /\ p.age >= FinWait
    \/ p.st = "SYN_RCVD" /\ p.age >= FinWait
    \/ p.st \in {"LAST_ACK", "TIME_WAIT"} /\ p.age >= Msl2

SlowTmr(h) ==
    LET P == pcb[h]
        gone == {n \in Live(h) : GivesUp(P[n]) \/ Expires(P[n])}
        again == {n \in Live(h) : Rexmits(P[n])}
        Aged(n) == [(IF n \in again THEN Recounted(P[n]) ELSE P[n]) EXCEPT !.age = Age(P[n])]
    IN  /\ Live(h) # {}
        /\ UNCHANGED <<lis, acceptmbox, made>>
        /\ Transmit({}, {Outstanding(h, P[n]) : n \in again})
        /\ pcb' = [pcb EXCEPT ![h] = [n \in Name |-> CASE n \in gone -> FreePcb
                                                       [] n \in Live(h) \ gone -> Aged(n)
                                                       [] OTHER -> P[n]]]
        /\ conn' = [conn EXCEPT ![h] = [n \in Name |->
                      IF n \in gone /\ P[n].errf /\ P[n].st # "TIME_WAIT" THEN LostConn ELSE @[n]]]

Lose(m) ==
    /\ m \in net
    /\ net' = net \ {m}
    /\ UNCHANGED <<pcb, conn, lis, acceptmbox, made>>

----------------------------------------------------------------------------
\* The applications' calls.  netconn_new(), then lwip_netconn_do_connect() from `port';
\* an application that blocks in it does not close the netconn before it is done
Connect(port) ==
    LET h == "client"
        n == made[h] + 1
        p == [FreePcb EXCEPT !.st = "SYN_SENT", !.port = port, !.nxt = Iss(n),
                             !.lastack = Iss(n) - 1, !.errf = TRUE]
    IN  /\ port <= n                                              \* ports are alike
        /\ Alloc(h, p, [FreeConn EXCEPT !.st = "CONNECT", !.ref = TRUE])
        /\ \A k \in Live(h) : pcb'[h][k].st # "FREE" => pcb'[h][k].port # port   \* else ERR_USE
        /\ Transmit({}, {Outstanding(h, p)})
        /\ UNCHANGED <<lis, acceptmbox>>

\* netconn_accept()
Accept ==
    /\ acceptmbox # <<>>
    /\ acceptmbox' = Tail(acceptmbox)
    /\ UNCHANGED <<pcb, conn, lis, made, net>>

\* tcp_close_shutdown(): the FIN goes out from these states
FinState(p) ==
    CASE p.st = "ESTABLISHED" -> "FIN_WAIT_1" [] p.st = "CLOSE_WAIT" -> "LAST_ACK" [] OTHER -> p.st

SendsFin(p) == FinState(p) # p.st

WithFin(p) == IF SendsFin(p) THEN [p EXCEPT !.st = FinState(p), !.nxt = @ + 1] ELSE p

FinOut(h, n) ==
    LET p == pcb[h][n]
    IN  Transmit({}, IF SendsFin(p) THEN {Outstanding(h, WithFin(p))} ELSE {})

\* Faulty: the callbacks stay
ClosedPcbKeeps(p) ==
    IF p.st = "SYN_SENT" THEN FreePcb ELSE [WithFin(p) EXCEPT !.rx = TRUE]

\* tcp_close() once lwip_netconn_do_close_internal() has cleared the callbacks
ClosedPcb(p) ==
    IF p.st = "SYN_SENT" THEN FreePcb
    ELSE [WithFin(p) EXCEPT !.rx = TRUE, !.errf = FALSE]

\* A netconn the application has, and whose pcb it can use
Held(h, n) ==
    /\ conn[h][n].st # "FREE"
    /\ \A i \in 1..Len(acceptmbox) : ~(h = "server" /\ acceptmbox[i] = n)
    /\ conn[h][n].ref => n \in Live(h)

\* netconn_delete()
Close(h, n) ==
    /\ Held(h, n)
    /\ IF conn[h][n].ref THEN SetPcb(h, n, ClosedPcb(pcb[h][n])) /\ FinOut(h, n)
       ELSE UNCHANGED <<pcb, net>>
    /\ SetConn(h, n, FreeConn)
    /\ UNCHANGED <<lis, acceptmbox, made>>

\* lwip_netconn_do_close() for one direction; netconn_recv_data_tcp() itself
\* shuts down SHUT_RD when it finds the end of the stream
ShutClose(p, how) ==
    \/ how = "RD" /\ p.st \in {"FIN_WAIT_1", "FIN_WAIT_2", "CLOSING"}
    \/ how = "WR" /\ p.rx

Shutdown(h, n, how) ==
    LET c == conn[h][n]  p == pcb[h][n]
    IN  /\ h \in HalfClosers /\ Held(h, n) /\ c.ref /\ c.st = "NONE"
        /\ how = "RD" => ~p.rx
        /\ how = "WR" => p.rx \/ p.st \in {"ESTABLISHED", "CLOSE_WAIT"}   \* else ERR_CONN
        /\ SetPcb(h, n, IF ShutClose(p, how) THEN ClosedPcb(p)
                        ELSE IF how = "RD" THEN [p EXCEPT !.rx = TRUE] ELSE WithFin(p))
        /\ IF how = "WR" THEN FinOut(h, n) ELSE UNCHANGED net
        /\ SetConn(h, n, IF ShutClose(p, how) THEN LostConn
                         ELSE [c EXCEPT !.half = @ \/ how = "WR"])
        /\ UNCHANGED <<lis, acceptmbox, made>>

\* netconn_delete() of the listening netconn: netconn_drain() aborts what was
\* not accepted, tcp_listen_closed() takes the listener out of its pcbs
CloseListener ==
    LET h == "server"
        waiting == {acceptmbox[i] : i \in 1..Len(acceptmbox)} \ {ErrMsg}
        aborted == {n \in waiting : conn[h][n].ref}
    IN  /\ lis
        /\ lis' = FALSE /\ acceptmbox' = <<>>
        /\ pcb' = [pcb EXCEPT ![h] = [n \in Name |-> IF n \in aborted THEN FreePcb
                                                     ELSE [@[n] EXCEPT !.lis = FALSE]]]
        /\ conn' = [conn EXCEPT ![h] = [n \in Name |-> IF n \in waiting THEN FreeConn ELSE @[n]]]
        /\ Transmit({}, {RstOf(h, pcb[h][n]) : n \in aborted})
        /\ UNCHANGED made

\* lwip_netconn_do_listen()
Listen ==
    /\ ~lis
    /\ lis' = TRUE
    /\ UNCHANGED <<pcb, conn, acceptmbox, made, net>>

----------------------------------------------------------------------------
Init ==
    /\ pcb = [h \in Host |-> [n \in Name |-> FreePcb]]
    /\ conn = [h \in Host |-> [n \in Name |-> FreeConn]]
    /\ lis = FALSE /\ acceptmbox = <<>>
    /\ made = [h \in Host |-> 0]
    /\ net = {}

Next ==
    \/ \E m \in net, h \in Host :
         \/ \E n \in Name : InputActive(h, n, m) \/ InputTimeWait(h, n, m)
         \/ InputNoPcb(h, m)
         \/ InputSyn(h, m)
    \/ \E m \in net : Lose(m)
    \/ \E h \in Host : SlowTmr(h)
    \/ \E port \in Ports : Connect(port)
    \/ Accept
    \/ \E h \in Host, n \in Name :
         \/ Close(h, n)
         \/ \E how \in {"RD", "WR"} : Shutdown(h, n, how)
    \/ CloseListener
    \/ Listen

Spec == Init /\ [][Next]_vars

\* The slow timer runs every 500 ms on every host
FairSpec == Spec /\ \A h \in Host : WF_vars(SlowTmr(h))

----------------------------------------------------------------------------
TypeOK ==
    /\ pcb \in [Host -> [Name -> [st : State, port : Ports, nxt : Nat, lastack : Nat, rcv : Nat,
                                  nrtx : 0..MaxRtx, age : 0..Msl2, rx : BOOLEAN,
                                  errf : BOOLEAN, lis : BOOLEAN]]]
    /\ conn \in [Host -> [Name -> [st : {"FREE", "NONE", "CONNECT"}, ref : BOOLEAN,
                                   half : BOOLEAN]]]
    /\ lis \in BOOLEAN /\ acceptmbox \in Seq(0..NConn) /\ Len(acceptmbox) <= MboxMax
    /\ made \in [Host -> 0..NConn]
    /\ \A m \in net : m.to \in Host /\ m.port \in Ports

\* The pcb whose initial sequence number p.rcv comes from
Peer(p) == p.rcv \div Stride

Synced(p) == p.st \notin {"FREE", "SYN_SENT", "SYN_RCVD"}
SawFin(p) == p.st \in {"CLOSE_WAIT", "LAST_ACK", "CLOSING", "TIME_WAIT"}
SentFin(p) == p.st \in {"FIN_WAIT_1", "FIN_WAIT_2", "CLOSING", "LAST_ACK", "TIME_WAIT"}

\* Two ends that both finished the handshake on the same ports are connected to
\* each other or each to something else, never one to the other only; and an end
\* that saw the end of the stream has a peer that closed.  Old SYNs, ACKs and FINs
\* of earlier connections from the same port must not mix two of them.
SameConnection ==
    \A h \in Host, n, k \in Name :
       LET p == pcb[h][n]  q == pcb[Other(h)][k]
       IN  Synced(p) /\ Synced(q) /\ p.port = q.port =>
             /\ Peer(p) = k <=> Peer(q) = n
             /\ Peer(p) = k /\ SawFin(p) => SentFin(q)

Dangles(h, n) == conn[h][n].ref /\ n \notin Live(h)

\* A netconn that was not half closed never refers to a freed pcb, and the
\* callbacks of a pcb never reach a freed netconn or one that has let go of it:
\* whoever frees a pcb (RST, last ACK, time-outs, tcp_alloc, the listener's
\* close) tells the owner, and the owner's close takes its callbacks out.
OwnerKnows ==
    \A h \in Host, n \in Name :
       /\ Dangles(h, n) => conn[h][n].half
       /\ pcb[h][n].errf => conn[h][n].st # "FREE" /\ conn[h][n].ref

\* "Connection closed although the application has only shut down the tx side:
\* call the PCB's err callback and indicate the closure to ensure the
\* application doesn't continue using the PCB" (tcp_in.c:608): no netconn ever
\* refers to a freed pcb.
NeverDangles == \A h \in Host, n \in Name : ~Dangles(h, n)

\* tcp_slowtmr() checks "if this PCB has stayed long enough in TIME-WAIT"
\* (tcp.c:1448): a pcb that enters TIME_WAIT starts the wait from there.
FullTimeWait ==
    [][\A h \in Host, n \in Name :
          pcb[h][n].st \in Active /\ pcb'[h][n].st = "TIME_WAIT" => pcb'[h][n].age = 0]_vars

\* No FIN arrives ahead of sequence at a pcb that would process it, so the
\* out-of-order queue of tcp_receive() stays empty and is left out here.
NoEarlyFin ==
    \A m \in net, n \in Name :
       LET p == pcb[m.to][n]
       IN  /\ "FIN" \in m.f /\ n \in On(m.to, m.port, Active \ {"SYN_SENT"})
           /\ p.st = "SYN_RCVD" => m.ack \in p.lastack + 1 .. p.nxt
           => m.seq \notin p.rcv + 1 .. p.rcv + Wnd - 1

\* A pcb without an owner (closed, or not yet accepted), or one that connects
Pending(h, n) == (n \in Live(h) /\ ~pcb[h][n].errf) \/ conn[h][n].st = "CONNECT"

\* Every pcb no application owns is freed or accepted, and every connect ends: in
\* each state such a pcb waits in, a timer bounds the wait, whatever the other
\* side and the network do.  (A behaviour has at most NConn connections, so again
\* and again nothing is pending.)
Ends == []<>(\A h \in Host, n \in Name : ~Pending(h, n))

=============================================================================
