----------------------------- MODULE TcpStream -----------------------------
(* One direction of an established lwIP TCP connection: the sending half   *)
(* of one pcb (tcp_write(), tcp_output(), tcp_slowtmr(), the ACK part of   *)
(* tcp_receive()), the receiving half of the other (the data part of       *)
(* tcp_receive(), tcp_recved(), tcp_fasttmr(), the netconn's recvmbox) and *)
(* a network between them that loses and reorders segments; a spurious     *)
(* retransmission brings a segment twice.                                  *)
(*                                                                         *)
(* Byte k of the stream is the number k, so that what arrives can be       *)
(* compared with what was written.  The congestion window is any value of  *)
(* Cwnds at each call of tcp_output(): slow start and ssthresh decide only *)
(* how much of the window is used.  Tick counters are left out: a timer    *)
(* that runs may expire at any tick.                                       *)
EXTENDS Integers, SequencesExt, FiniteSetsExt

CONSTANTS
    Writes,     \* lengths of the sending application's writes, then it closes
    Mss,        \* pcb->mss
    Cwnds,      \* values of pcb->cwnd, each at least Mss
    SndBuf,     \* TCP_SND_BUF
    Wnd,        \* TCP_WND
    Threshold,  \* TCP_WND_UPDATE_THRESHOLD
    WndRange,   \* 2^16, the range of tcpwnd_size_t
    SeqRange,   \* 2^32, the range of a sequence number
    Iss,        \* sequence number of the first byte
    MaxRtx,     \* TCP_MAXRTX
    DupThresh,  \* the 3 duplicate ACKs of a fast retransmit
    MboxSize,   \* DEFAULT_TCP_RECVMBOX_SIZE
    DataCap,    \* segments in flight to the receiver
    AckCap      \* segments in flight to the sender

ASSUME StreamAssumption ==
    /\ Writes \in Seq(Nat \ {0})
    /\ {Mss, SndBuf, Wnd, Threshold, MaxRtx, DupThresh, MboxSize} \subseteq Nat \ {0}
    /\ {DataCap, AckCap, Iss} \subseteq Nat
    /\ Cwnds \subseteq Nat /\ \A c \in Cwnds : c >= Mss
    /\ 2 * Mss <= Wnd /\ Wnd < WndRange /\ 4 * WndRange <= SeqRange /\ Iss < SeqRange

Total == FoldLeft(LAMBDA a, b : a + b, 0, Writes)

VARIABLES
    todo,   \* the writes still to be made
    snd,    \* the sending pcb
    rcv,    \* the receiving pcb, its netconn and the reading application
    data,   \* segments on their way to the receiver
    acks,   \* segments on their way to the sender
    cut     \* a segment that carries the FIN was split

vars == <<todo, snd, rcv, data, acks, cut>>

-----------------------------------------------------------------------------
\* Sequence numbers: TCP_SEQ_LT() is the sign of a 32-bit difference.

Plus(a, n) == (a + n) % SeqRange
Dist(a, b) == (b - a) % SeqRange
SeqLT(a, b) == (a - b) % SeqRange >= SeqRange \div 2
SeqLEQ(a, b) == ~SeqLT(b, a)
SeqBetween(a, b, c) == SeqLEQ(b, a) /\ SeqLEQ(a, c)

TcpLen(s) == Len(s.data) + (IF s.fin THEN 1 ELSE 0)
End(s) == Plus(s.seq, TcpLen(s))
TakeOff(s, n) == SubSeq(s, n + 1, Len(s))
Upto(s, n) == SubSeq(s, 1, n)

\* Length of the longest prefix of s all of whose positions satisfy Ok.
PrefixLen(s, Ok(_)) ==
    Cardinality({k \in 1..Len(s) : \A j \in 1..k : Ok(j)})

\* The network takes any part of what is sent, as far as it has room.
Transit(net, out, cap) ==
    {net \cup k : k \in {k \in SUBSET out : Cardinality(net \cup k) <= cap}}

-----------------------------------------------------------------------------
\* The sender

Queued(p) == p.unacked \o p.unsent
Buffered(p) == FoldLeft(LAMBDA n, s : n + Len(s.data), 0, Queued(p))

\* lwip_ntohl(seg->tcphdr->seqno) - pcb->lastack + seg->len <= wnd
Fits(p, s, wnd) == (s.seq - p.lastack + Len(s.data)) % SeqRange <= wnd

\* Segment j of unsent goes out after the ones before it: tcp_output()'s loop
\* condition and tcp_do_output_nagle().
Sendable(p, j, wnd) ==
    /\ Fits(p, p.unsent[j], wnd)
    /\ \/ p.unacked = <<>> /\ j = 1
       \/ p.infr \/ p.closing
       \/ j < Len(p.unsent)
       \/ Len(p.unsent[j].data) >= Mss
       \/ Buffered(p) >= SndBuf

\* A segment goes to its place by sequence number.
Insert(list, s) ==
    LET k == PrefixLen(list, LAMBDA j : SeqLT(list[j].seq, s.seq))
    IN  Upto(list, k) \o <<s>> \o TakeOff(list, k)

SeqMax(a, b) == IF SeqLT(a, b) THEN b ELSE a

\* tcp_output(): the pcb after it, and in out the segments it sent.
Output(p, cwnd) ==
    LET wnd == Min({p.snd_wnd, cwnd})
        k == PrefixLen(p.unsent, LAMBDA j : Sendable(p, j, wnd))
        sent == Upto(p.unsent, k)
        stuck == p.unsent # <<>> /\ ~Fits(p, p.unsent[1], wnd)
        starts == stuck /\ wnd = p.snd_wnd /\ p.unacked = <<>> /\ ~p.persist
    IN  [p EXCEPT
            !.persist = starts \/ (@ /\ (stuck \/ p.unsent = <<>>)),
            !.probe = IF starts THEN 0 ELSE @,
            !.unsent = TakeOff(@, k),
            !.unacked = FoldLeft(Insert, @, sent),
            !.snd_nxt = FoldLeft(LAMBDA n, s : SeqMax(n, End(s)), @, sent),
            !.rtime = @ \/ k > 0,
            !.out = @ \cup Range(sent)]

\* tcp_write(): fill the last unsent segment, then segments of at most mss.
TcpWrite(p, n) ==
    LET bytes == [i \in 1..n |-> Dist(Iss, p.snd_lbb) + i]
        last == Len(p.unsent)
        space == IF last > 0 /\ Len(p.unsent[last].data) > 0
                 THEN Mss - Len(p.unsent[last].data) ELSE 0
        pos == Min({n, space})
        segs == [j \in 1..((n - pos + Mss - 1) \div Mss) |->
                    LET from == pos + (j - 1) * Mss
                    IN  [seq |-> Plus(p.snd_lbb, from),
                         data |-> SubSeq(bytes, from + 1, Min({n, from + Mss})),
                         fin |-> FALSE]]
        extended == IF pos > 0
                    THEN [p.unsent EXCEPT ![last].data = @ \o Upto(bytes, pos)]
                    ELSE p.unsent
    IN  [p EXCEPT !.unsent = extended \o segs, !.snd_lbb = Plus(@, n)]

\* tcp_send_fin(): on the last unsent segment, else on one of its own.
SendFin(p) ==
    LET last == Len(p.unsent)
    IN  IF last > 0
        THEN [p EXCEPT !.unsent[last].fin = TRUE, !.closing = TRUE]
        ELSE [p EXCEPT !.unsent = <<[seq |-> p.snd_lbb, data |-> <<>>, fin |-> TRUE]>>,
                       !.snd_lbb = Plus(@, 1), !.closing = TRUE]

\* tcp_split_unsent_seg(): the first half keeps its flags, for TCPH_SET_FLAG()
\* only ever adds to them.
SplitUnsent(p, split) ==
    LET s == p.unsent[1]
        head == [s EXCEPT !.data = Upto(@, split)]
        rest == [s EXCEPT !.seq = Plus(@, split), !.data = TakeOff(@, split)]
    IN  IF p.unsent = <<>> \/ Len(s.data) <= split THEN p
        ELSE [p EXCEPT !.unsent = <<head, rest>> \o Tail(@)]

\* Faulty: the byte of the probe is not counted as sent
ZeroWindowProbeUncounted(p) ==
    LET s == p.unsent[1]
        isfin == s.fin /\ s.data = <<>>
        probe == [seq |-> s.seq, data |-> IF isfin THEN <<>> ELSE <<s.data[1]>>, fin |-> isfin]
    IN  IF p.unsent = <<>> THEN p ELSE [p EXCEPT !.probe = @ + 1, !.out = @ \cup {probe}]

\* tcp_zero_window_probe(): one byte of the head of unsent, which stays there.
ZeroWindowProbe(p) ==
    LET s == p.unsent[1]
        isfin == s.fin /\ s.data = <<>>
        probe == [seq |-> s.seq, data |-> IF isfin THEN <<>> ELSE <<s.data[1]>>, fin |-> isfin]
    IN  IF p.unsent = <<>> THEN p
        ELSE [p EXCEPT !.probe = @ + 1,
                       !.snd_nxt = SeqMax(@, Plus(s.seq, 1)),
                       !.out = @ \cup {probe}]

\* tcp_rexmit_rto_prepare() and _commit()
RexmitRto(p) == [p EXCEPT !.unsent = Queued(p), !.unacked = <<>>, !.nrtx = @ + 1]

\* tcp_rexmit_fast(), tcp_rexmit(): the first unacked segment is sent again.
RexmitFast(p) ==
    IF p.unacked = <<>> \/ p.infr THEN p
    ELSE [p EXCEPT !.unacked = Tail(@), !.unsent = Insert(@, Head(p.unacked)),
                   !.nrtx = @ + 1, !.infr = TRUE, !.rtime = TRUE]

\* tcp_free_acked_segments()
FreeAcked(list, ackno) ==
    TakeOff(list, PrefixLen(list, LAMBDA j : SeqLEQ(End(list[j]), ackno)))

\* The window update of tcp_receive(); seqno is snd_wl1, for the receiver of
\* this direction sends no data of its own.
UpdateWindow(p, m) ==
    IF SeqLT(p.snd_wl2, m.ack) \/ (p.snd_wl2 = m.ack /\ m.wnd > p.snd_wnd)
    THEN [p EXCEPT !.snd_wnd = m.wnd, !.snd_wl2 = m.ack]
    ELSE p

\* An ACK that acknowledges nothing new counts as a duplicate when the window
\* it announces is the old one and the retransmission timer runs.
DupAck(p, m, edge) ==
    IF m.ack = p.lastack /\ Plus(p.snd_wl2, p.snd_wnd) = edge /\ p.rtime
    THEN LET n == Min({p.dupacks + 1, DupThresh})
             q == [p EXCEPT !.dupacks = n]
         IN  IF n = DupThresh THEN RexmitFast(q) ELSE q
    ELSE p

\* Faulty: the timer stops though segments are still unacknowledged
NewAckStops(p, m) ==
    [p EXCEPT !.infr = FALSE, !.nrtx = 0, !.dupacks = 0, !.lastack = m.ack,
              !.unacked = FreeAcked(@, m.ack), !.unsent = FreeAcked(@, m.ack),
              !.rtime = FALSE]

NewAck(p, m) ==
    LET unacked == FreeAcked(p.unacked, m.ack)
    IN  [p EXCEPT !.infr = FALSE, !.nrtx = 0, !.dupacks = 0, !.lastack = m.ack,
                  !.unacked = unacked, !.unsent = FreeAcked(@, m.ack),
                  !.rtime = unacked # <<>>]

\* The ACK part of tcp_receive().  An ACK above snd_nxt is answered by an
\* empty segment, which tells the receiver nothing.
ReceiveAck(p, m) ==
    LET q == UpdateWindow([p EXCEPT !.probe = 0], m)
    IN  CASE SeqLEQ(m.ack, p.lastack) -> DupAck(q, m, Plus(p.snd_wl2, p.snd_wnd))
          [] SeqBetween(m.ack, Plus(p.lastack, 1), p.snd_nxt) -> NewAck(q, m)
          [] OTHER -> q

\* FIN_WAIT_1 of tcp_process()
FinAcked(p, m) ==
    IF p.state = "FIN_WAIT_1" /\ m.ack = p.snd_nxt /\ p.unsent = <<>>
    THEN [p EXCEPT !.state = "FIN_WAIT_2"] ELSE p

-----------------------------------------------------------------------------
\* The receiver

\* tcp_update_rcv_ann_wnd(): by how much the window would grow if announced
\* now, and the window to announce.
Inflation(r) ==
    LET edge == Plus(r.rcv_nxt, r.rcv_wnd)
    IN  IF SeqLEQ(Plus(r.right_edge, Min({Wnd \div 2, Mss})), edge)
        THEN Dist(r.right_edge, edge) ELSE 0

UpdateAnn(r) ==
    [r EXCEPT !.ann_wnd =
        CASE Inflation(r) > 0 -> r.rcv_wnd
          [] Inflation(r) = 0 /\ SeqLT(r.right_edge, r.rcv_nxt) -> 0
          [] OTHER -> Dist(r.rcv_nxt, r.right_edge)]

\* tcp_send_empty_ack()
EmptyAck(r) ==
    [r EXCEPT !.out = @ \cup {[ack |-> r.rcv_nxt, wnd |-> r.ann_wnd]},
              !.right_edge = Plus(r.rcv_nxt, r.ann_wnd),
              !.flags = {}]

AckNow(r) == [r EXCEPT !.flags = @ \cup {"ACK_NOW"}]

\* tcp_ack(): every second segment is acknowledged at once.
Ack(r) ==
    [r EXCEPT !.flags = IF "ACK_DELAY" \in @ THEN (@ \ {"ACK_DELAY"}) \cup {"ACK_NOW"}
                        ELSE @ \cup {"ACK_DELAY"}]

\* tcp_output() of a pcb without data to send
RcvOutput(r) == IF "ACK_NOW" \in r.flags THEN EmptyAck(r) ELSE r

\* Faulty: the segment moves, its data does not
TrimFrontKeeps(r, s) ==
    IF SeqBetween(r.rcv_nxt, Plus(s.seq, 1), Plus(s.seq, TcpLen(s) - 1))
    THEN [s EXCEPT !.seq = r.rcv_nxt] ELSE s

\* The part of a segment that was received before is trimmed off.
TrimFront(r, s) ==
    IF SeqBetween(r.rcv_nxt, Plus(s.seq, 1), Plus(s.seq, TcpLen(s) - 1))
    THEN [s EXCEPT !.seq = r.rcv_nxt, !.data = TakeOff(@, Dist(s.seq, r.rcv_nxt))]
    ELSE s

\* The part beyond the window is trimmed off, and the FIN with it.
TrimToWnd(r, s) ==
    LET room == Dist(s.seq, Plus(r.rcv_nxt, r.rcv_wnd))
    IN  IF TcpLen(s) > room THEN [s EXCEPT !.fin = FALSE, !.data = Upto(@, Min({room, Len(@)}))]
        ELSE s

\* Segments of a queue that s covers leave it, their FIN goes to s; s is
\* trimmed where the first one left begins.  withFin: the FIN of s counts for
\* where s ends (TCP_TCPLEN against seg->len).
Absorb(s, queue, withFin) ==
    LET Covers(c) == IF withFin THEN End(c) ELSE Plus(c.seq, Len(c.data))
        step(a, next) ==
            IF a.rest = <<>> /\ SeqLEQ(Plus(next.seq, Len(next.data)), Covers(a.seg))
            THEN [a EXCEPT !.seg.fin = @ \/ next.fin]
            ELSE [a EXCEPT !.rest = Append(@, next)]
        a == FoldLeft(step, [seg |-> s, rest |-> <<>>], queue)
    IN  IF a.rest # <<>> /\ SeqLT(a.rest[1].seq, Covers(a.seg))
        THEN [a EXCEPT !.seg.data = Upto(@, Dist(s.seq, a.rest[1].seq))]
        ELSE a

\* tcp_oos_insert_segment()
OosInsert(s, next) ==
    IF s.fin THEN <<s>>
    ELSE LET a == Absorb(s, next, FALSE)
         IN  <<a.seg>> \o a.rest

\* The segment before the place of s ends where s begins.
CutPrev(queue, s) ==
    LET i == Len(queue)
    IN  IF SeqLT(s.seq, Plus(queue[i].seq, Len(queue[i].data)))
        THEN [queue EXCEPT ![i].data = Upto(@, Dist(queue[i].seq, s.seq))]
        ELSE queue

\* An out-of-sequence segment goes to its place on ooseq, or is discarded.
Enqueue(r, s) ==
    LET q == r.ooseq
        n == Len(q)
        i == PrefixLen(q, LAMBDA j : SeqLT(q[j].seq, s.seq))
    IN  CASE n = 0 -> <<s>>
          [] n > 0 /\ i < n /\ q[i + 1].seq = s.seq ->
                IF Len(s.data) > Len(q[i + 1].data) /\ i + 1 < n
                THEN Upto(q, i) \o OosInsert(s, TakeOff(q, i)) ELSE q
          [] n > 0 /\ i = 0 /\ q[1].seq # s.seq -> OosInsert(s, q)
          [] 0 < i /\ i < n /\ q[i + 1].seq # s.seq ->
                CutPrev(Upto(q, i), s) \o OosInsert(s, TakeOff(q, i))
          [] OTHER -> IF q[n].fin THEN q ELSE CutPrev(q, s) \o <<TrimToWnd(r, s)>>

\* The segment next in sequence, or one drained from ooseq, is taken over:
\* rcv_nxt, rcv_wnd, the data for the application and the FIN.
Take(r, s) ==
    UpdateAnn([r EXCEPT !.rcv_nxt = End(s),
                        !.rcv_wnd = (@ - TcpLen(s)) % WndRange,
                        !.push = @ \o s.data,
                        !.gotfin = @ \/ s.fin])

\* Segments of ooseq that are now in sequence follow.
Drain(r) ==
    FoldLeft(LAMBDA a, s : IF a.ooseq = <<>> /\ s.seq = a.rcv_nxt THEN Take(a, s)
                           ELSE [a EXCEPT !.ooseq = Append(@, s)],
             [r EXCEPT !.ooseq = <<>>], r.ooseq)

InSequence(r, s) ==
    LET t == TrimToWnd(r, s)
        a == IF t.fin THEN [seg |-> t, rest |-> <<>>] ELSE Absorb(t, r.ooseq, TRUE)
    IN  Ack(Drain(Take([r EXCEPT !.ooseq = a.rest], a.seg)))

\* The data part of tcp_receive()
ReceiveData(r, s) ==
    LET t == TrimFront(r, s)
        d == IF SeqLT(t.seq, r.rcv_nxt) THEN AckNow(r) ELSE r
        inwnd == SeqBetween(t.seq, r.rcv_nxt, Plus(r.rcv_nxt, r.rcv_wnd - 1))
    IN  IF r.state = "ESTABLISHED"
        THEN CASE inwnd /\ t.seq = r.rcv_nxt -> InSequence(d, t)
               [] inwnd /\ t.seq # r.rcv_nxt -> EmptyAck([d EXCEPT !.ooseq = Enqueue(d, t)])
               [] OTHER -> EmptyAck(d)
        ELSE IF SeqBetween(s.seq, r.rcv_nxt, Plus(r.rcv_nxt, r.rcv_wnd - 1)) THEN r ELSE AckNow(r)

\* tcp_process() in ESTABLISHED and CLOSE_WAIT
Process(r, s) ==
    LET q == ReceiveData(r, s)
    IN  IF q.gotfin THEN AckNow([q EXCEPT !.state = "CLOSE_WAIT"]) ELSE q

\* recv_tcp(): the netconn's receive callback posts to recvmbox.
HasRoom(r) == Len(r.mbox) < MboxSize

Post(r, m) == [r EXCEPT !.mbox = IF HasRoom(r) THEN Append(@, m) ELSE @]

\* The FIN's sequence number goes back to the window, then the callback is
\* called without data; nobody looks at what it returns.
Closed(r) ==
    Post([r EXCEPT !.rcv_wnd = IF @ = Wnd THEN @ ELSE (@ + 1) % WndRange],
         [data |-> <<>>, eof |-> TRUE])

\* tcp_process_refused_data()
ProcessRefused(r) ==
    IF r.refused = <<>> \/ ~HasRoom(r) THEN r
    ELSE LET q == Post([r EXCEPT !.refused = <<>>, !.refused_fin = FALSE],
                       [data |-> r.refused, eof |-> FALSE])
         IN  IF r.refused_fin THEN Closed(q) ELSE q

\* What tcp_input() does with recv_data and TF_GOT_FIN
PassUp(r) ==
    LET q == [r EXCEPT !.push = <<>>, !.gotfin = FALSE]
        d == CASE r.push = <<>> -> q
               [] r.push # <<>> /\ HasRoom(r) -> Post(q, [data |-> r.push, eof |-> FALSE])
               [] OTHER -> [q EXCEPT !.refused = r.push]
    IN  CASE ~r.gotfin -> d
          [] r.gotfin /\ d.refused # <<>> -> [d EXCEPT !.refused_fin = TRUE]
          [] OTHER -> Closed(d)

\* tcp_input() of the receiving pcb
Input(r, s) ==
    LET q == ProcessRefused(r)
    IN  IF q.refused # <<>>
        THEN IF q.ann_wnd = 0 THEN EmptyAck(q) ELSE q
        ELSE RcvOutput(PassUp(Process(q, s)))

\* tcp_recved()
Recved(r, n) ==
    LET q == [r EXCEPT !.rcv_wnd = Min({@ + n, Wnd})]
        u == UpdateAnn(q)
    IN  IF Inflation(q) >= Threshold THEN RcvOutput(AckNow(u)) ELSE u

-----------------------------------------------------------------------------
\* The sender's handlers

NewPcb(state) ==
    [state |-> state, unsent |-> <<>>, unacked |-> <<>>, out |-> {},
     snd_nxt |-> Iss, lastack |-> Iss, snd_lbb |-> Iss, snd_wnd |-> Wnd, snd_wl2 |-> Iss,
     rtime |-> FALSE, persist |-> FALSE, probe |-> 0, nrtx |-> 0,
     dupacks |-> 0, infr |-> FALSE, closing |-> FALSE]

Init ==
    /\ snd = NewPcb("ESTABLISHED")
    /\ rcv = [state |-> "ESTABLISHED", rcv_nxt |-> Iss, rcv_wnd |-> Wnd, ann_wnd |-> Wnd,
              right_edge |-> Plus(Iss, Wnd), ooseq |-> <<>>, flags |-> {}, out |-> {},
              push |-> <<>>, gotfin |-> FALSE, refused |-> <<>>, refused_fin |-> FALSE,
              mbox |-> <<>>, taken |-> 0, got |-> <<>>, eof |-> FALSE]
    /\ todo = Writes /\ data = {} /\ acks = {} /\ cut = FALSE

\* A handler ends with the pcb in state p; what it sent is on its way.
SndDone(p) ==
    /\ data' \in Transit(data, p.out, DataCap)
    /\ snd' = [p EXCEPT !.out = {}]

\* The handler calls tcp_output() last.
SndOutput(p) ==
    \E q \in {p}, cwnd \in Cwnds : \E o \in {Output(q, cwnd)} : SndDone(o)

\* lwip_netconn_do_writemore(): tcp_write() and tcp_output()
Write ==
    /\ snd.state = "ESTABLISHED" /\ todo # <<>>
    /\ Head(todo) <= SndBuf - Buffered(snd)
    /\ todo' = Tail(todo)
    /\ UNCHANGED <<rcv, acks, cut>>
    /\ SndOutput(TcpWrite(snd, Head(todo)))

\* tcp_shutdown() of the sending side: tcp_close_shutdown_fin()
Close ==
    /\ snd.state = "ESTABLISHED" /\ todo = <<>>
    /\ UNCHANGED <<todo, rcv, acks, cut>>
    /\ SndOutput([SendFin(snd) EXCEPT !.state = "FIN_WAIT_1"])

RecvAck ==
    /\ snd.state # "CLOSED"
    /\ \E m \in acks :
        /\ acks' = acks \ {m}
        /\ SndOutput(FinAcked(ReceiveAck(snd, m), m))
    /\ UNCHANGED <<todo, rcv, cut>>

\* tcp_input() finds no pcb and answers with a reset: an empty segment.
RecvAckNoPcb ==
    /\ snd.state = "CLOSED"
    /\ \E m \in acks :
        /\ acks' = acks \ {m}
        /\ data' \in Transit(data, {[seq |-> m.ack, data |-> <<>>, fin |-> FALSE]}, DataCap)
    /\ UNCHANGED <<todo, snd, rcv, cut>>

GivesUp(p) == p.nrtx >= MaxRtx \/ (p.persist /\ p.probe >= MaxRtx)

\* tcp_slowtmr() removes a pcb after too many retransmissions or probes; what
\* was in it is gone.
SlowTmrRemove ==
    /\ snd.state # "CLOSED" /\ GivesUp(snd)
    /\ snd' = NewPcb("CLOSED")
    /\ UNCHANGED <<todo, rcv, data, acks, cut>>

\* The persist timer expires: probe a closed window, fill a small one.
SlowTmrPersist ==
    /\ snd.state # "CLOSED" /\ ~GivesUp(snd) /\ snd.persist
    /\ UNCHANGED <<todo, rcv, acks>>
    /\ LET split == SplitUnsent(snd, snd.snd_wnd)
       IN  \/ snd.snd_wnd = 0 /\ SndDone(ZeroWindowProbe(snd)) /\ cut' = cut
           \/ /\ snd.snd_wnd # 0 /\ SndOutput(split)
              /\ cut' = (cut \/ (split # snd /\ snd.unsent[1].fin))

SlowTmrRto ==
    /\ snd.state # "CLOSED" /\ ~GivesUp(snd) /\ ~snd.persist
    /\ snd.rtime /\ Queued(snd) # <<>>
    /\ UNCHANGED <<todo, rcv, acks, cut>>
    /\ SndOutput(RexmitRto(snd))

\* tcp_slowtmr() polls the application and calls tcp_output().
SlowTmrPoll ==
    /\ snd.state # "CLOSED" /\ ~GivesUp(snd)
    /\ SndOutput(snd)
    /\ UNCHANGED <<todo, rcv, acks, cut>>

-----------------------------------------------------------------------------
\* The receiver's handlers

RcvDone(r) ==
    \E q \in {r} :
        /\ acks' \in Transit(acks, q.out, AckCap)
        /\ rcv' = [q EXCEPT !.out = {}]

RecvData ==
    /\ rcv.state # "CLOSED"
    /\ \E s \in data :
        /\ TcpLen(s) > 0
        /\ data' = data \ {s}
        /\ RcvDone(Input(rcv, s))
    /\ UNCHANGED <<todo, snd, cut>>

\* A reset kills the pcb if it is exactly next, else it is challenged.
RecvRst ==
    /\ rcv.state # "CLOSED"
    /\ \E s \in data :
        LET r == ProcessRefused(rcv)
        IN  /\ TcpLen(s) = 0
            /\ data' = data \ {s}
            /\ RcvDone(CASE s.seq = r.rcv_nxt -> [r EXCEPT !.state = "CLOSED", !.ooseq = <<>>,
                                                          !.refused = <<>>, !.flags = {}]
                         [] s.seq # r.rcv_nxt /\ SeqBetween(s.seq, r.rcv_nxt, Plus(r.rcv_nxt, r.rcv_wnd))
                              -> RcvOutput(AckNow(r))
                         [] OTHER -> r)
    /\ UNCHANGED <<todo, snd, cut>>

\* Faulty: refused data waits for the next segment
FastTmrAcks ==
    /\ rcv.state # "CLOSED" /\ (rcv.flags # {} \/ rcv.refused # <<>>)
    /\ UNCHANGED <<todo, snd, data, cut>>
    /\ RcvDone(IF "ACK_DELAY" \in rcv.flags THEN RcvOutput(AckNow(rcv)) ELSE rcv)

\* tcp_fasttmr(): a delayed ACK, refused data presented again
FastTmr ==
    /\ rcv.state # "CLOSED" /\ (rcv.flags # {} \/ rcv.refused # <<>>)
    /\ UNCHANGED <<todo, snd, data, cut>>
    /\ RcvDone(ProcessRefused(IF "ACK_DELAY" \in rcv.flags THEN RcvOutput(AckNow(rcv)) ELSE rcv))

\* tcp_slowtmr() drops out-of-sequence data after a time of inactivity.
SlowTmrOoseq ==
    /\ rcv.state # "CLOSED" /\ rcv.ooseq # <<>>
    /\ rcv' = [rcv EXCEPT !.ooseq = <<>>]
    /\ UNCHANGED <<todo, snd, data, acks, cut>>

\* netconn_recv_data_tcp() fetches from recvmbox ...
AppFetch ==
    /\ rcv.mbox # <<>> /\ rcv.taken = 0 /\ ~rcv.eof
    /\ LET m == Head(rcv.mbox)
       IN  rcv' = [rcv EXCEPT !.mbox = Tail(@), !.got = @ \o m.data, !.eof = m.eof,
                              !.taken = IF m.eof THEN 1 ELSE Len(m.data)]
    /\ UNCHANGED <<todo, snd, data, acks, cut>>

\* ... and has the TCP thread open the window.
AppRecved ==
    /\ rcv.taken > 0
    /\ UNCHANGED <<todo, snd, data, cut>>
    /\ LET r == [rcv EXCEPT !.taken = 0]
       IN  RcvDone(IF rcv.state = "CLOSED" THEN r ELSE Recved(r, rcv.taken))

SlowTmr == SlowTmrRemove \/ SlowTmrPersist \/ SlowTmrRto

Next ==
    \/ Write \/ Close \/ RecvAck \/ RecvAckNoPcb
    \/ SlowTmr \/ SlowTmrPoll
    \/ RecvData \/ RecvRst \/ FastTmr \/ SlowTmrOoseq \/ AppFetch \/ AppRecved

Spec == Init /\ [][Next]_vars

\* tcp_tmr() runs every 250 ms, the sending application goes on writing and the
\* receiving one reading; nothing is assumed of the network.
FairSpec ==
    /\ Spec
    /\ WF_vars(Write \/ Close) /\ WF_vars(AppFetch \/ AppRecved)
    /\ WF_vars(SlowTmr) /\ WF_vars(FastTmr)

-----------------------------------------------------------------------------
\* Properties

Segs == [seq : 0..SeqRange - 1, data : Seq(1..Total), fin : BOOLEAN]

TypeOK ==
    /\ snd.state \in {"ESTABLISHED", "FIN_WAIT_1", "FIN_WAIT_2", "CLOSED"}
    /\ Range(Queued(snd)) \subseteq Segs /\ Range(rcv.ooseq) \subseteq Segs /\ data \subseteq Segs
    /\ \A s \in Range(Queued(snd)) : Len(s.data) <= Mss
    /\ {snd.snd_nxt, snd.lastack, snd.snd_lbb, snd.snd_wl2} \subseteq 0..SeqRange - 1
    /\ {rcv.rcv_nxt, rcv.right_edge} \subseteq 0..SeqRange - 1
    /\ {snd.snd_wnd, rcv.rcv_wnd, rcv.ann_wnd} \subseteq 0..WndRange - 1
    /\ snd.probe \in 0..MaxRtx /\ snd.nrtx \in 0..MaxRtx + 1 /\ snd.dupacks \in 0..DupThresh
    /\ rcv.state \in {"ESTABLISHED", "CLOSE_WAIT", "CLOSED"}
    /\ Len(rcv.mbox) <= MboxSize /\ snd.out = {} /\ rcv.out = {}

\* What the receiving netconn was given, in order
Stream == FoldLeft(LAMBDA d, m : d \o m.data, rcv.got, rcv.mbox) \o rcv.refused

EofPosted == rcv.eof \/ \E m \in Range(rcv.mbox) : m.eof

\* "indicate to the application that the remote side has closed its end": the
\* end of the stream is reported only behind its last byte.
EofIsEnd == EofPosted => Len(Stream) = Total

\* The bytes that reach the receiving application, the mailbox and refused_data
\* are those that were written, in order, none twice and none skipped, whatever
\* the network, the trimming of segments and ooseq did; and the end of the stream
\* comes behind the last of them, as long as no segment with the FIN was split.
InOrder ==
    /\ \A i \in 1..Len(Stream) : Stream[i] = i
    /\ cut \/ EofIsEnd

\* What is lost can be brought by a retransmission: a byte the receiver does not
\* have yet is still on one of the sender's queues, and a timer runs whenever
\* something on them waits to be sent or acknowledged.
Recoverable ==
    /\ snd.state # "CLOSED" /\ ~rcv.eof /\ rcv.state # "CLOSE_WAIT" =>
        \A k \in Dist(Iss, rcv.rcv_nxt) + 1..Min({Total, Dist(Iss, snd.snd_lbb)}) :
            \E s \in Range(Queued(snd)) : k \in Range(s.data)
    /\ Queued(snd) # <<>> => snd.rtime \/ snd.persist

\* The two ends agree: lastack <= rcv_nxt <= snd_nxt, also around a zero window
\* probe, and the sender never believes in more window than was announced.
EndsAgree ==
    snd.state # "CLOSED" =>
        /\ SeqLEQ(snd.lastack, rcv.rcv_nxt) /\ SeqLEQ(rcv.rcv_nxt, snd.snd_nxt)
        /\ SeqLEQ(Plus(snd.snd_wl2, snd.snd_wnd), rcv.right_edge)

\* LWIP_ASSERT("tcp_slowtimr: persist ticking with empty send buffer").
PersistHasData == snd.persist => snd.unsent # <<>>

\* Every byte written reaches the reading application, or the connection is
\* given up: no lost segment, ACK, probe or window update leaves both waiting.
Arrives == <>(Len(rcv.got) = Total \/ snd.state = "CLOSED")

\* The application is told of the end of the stream, unless the connection is
\* given up.
EofArrives == <>(rcv.eof \/ snd.state = "CLOSED" \/ rcv.state = "CLOSED")

=============================================================================
