--------------------------- MODULE TcpConnProofs ---------------------------
(***************************************************************************)
(* Proofs about TcpConn, for every number of ports, pcbs and netconns and  *)
(* all limits: the types of its state are invariant, a netconn and its pcb *)
(* know of each other (OwnerKnows), and segments of earlier connections    *)
(* join no two pcbs that do not belong together (SameConnection).          *)
(***************************************************************************)
EXTENDS TcpConn, TLAPS

\* The segments, and the pcbs as tcp_alloc() and tcp_process() leave them: one
\* in use has chosen its sequence number.
Flags == {"SYN", "ACK", "FIN", "RST"}
SegType == [to : Host, port : Ports, f : SUBSET Flags, seq : Nat, ack : Nat]
PcbType == [st : State, port : Ports, nxt : Nat, lastack : Nat, rcv : Nat, nrtx : 0..MaxRtx,
            age : 0..Msl2, rx : BOOLEAN, errf : BOOLEAN, lis : BOOLEAN]
ConnType == [st : {"FREE", "NONE", "CONNECT"}, ref : BOOLEAN, half : BOOLEAN]

GoodPcb(p) == p \in PcbType /\ (p.st # "FREE" => p.nxt > 0)

PcbsGood == /\ pcb \in [Host -> [Name -> PcbType]]
            /\ \A h \in Host, n \in Name : GoodPcb(pcb[h][n])
ConnsGood == conn \in [Host -> [Name -> ConnType]]
MboxGood == acceptmbox \in Seq(0..NConn) /\ Len(acceptmbox) <= MboxMax
NetGood == net \subseteq SegType

\* The types, strengthened so that every step keeps them.
TypeInv ==
    /\ PcbsGood /\ ConnsGood /\ MboxGood /\ NetGood
    /\ lis \in BOOLEAN /\ made \in [Host -> 0..NConn]

\* The states after a FIN of this side.
Finished == {"FIN_WAIT_1", "FIN_WAIT_2", "CLOSING", "LAST_ACK", "TIME_WAIT"}

\* A pcb with callbacks is in use and its netconn refers to it; a netconn that
\* was not half closed refers to no other; and a pcb that sent its FIN and still
\* has its callbacks was half closed.  The last one is why the frees that tell
\* nobody (TIME_WAIT, and the last ACK after SHUT_RD) leave no netconn behind.
OwnOK(p, c) ==
    /\ p.errf => p.st # "FREE" /\ c.st # "FREE" /\ c.ref
    /\ c.ref /\ ~c.half => p.errf
    /\ p.errf /\ p.st \in Finished => c.half

OwnInv == \A h \in Host, n \in Name : OwnOK(pcb[h][n], conn[h][n])

ConnInv == TypeInv /\ OwnInv

----------------------------------------------------------------------------
\* The state machine

\* A free pcb and a free netconn have the types of pcbs and netconns.
LEMMA FreeTypes ==
    /\ GoodPcb(FreePcb) /\ FreePcb.st = "FREE" /\ ~FreePcb.errf
    /\ FreeConn \in ConnType /\ ~FreeConn.ref /\ FreeConn.st = "FREE" /\ ~FreeConn.half
    /\ LostConn \in ConnType /\ ~LostConn.ref /\ LostConn.st = "NONE"
<1>1. FreePcb \in PcbType
  BY ConnAssumption DEF FreePcb, PcbType, State, Ports
<1>2. FreePcb.st = "FREE" /\ ~FreePcb.errf
  BY Zenon DEF FreePcb
<1>3. FreeConn \in ConnType /\ ~FreeConn.ref /\ FreeConn.st = "FREE" /\ ~FreeConn.half
  BY Zenon DEF FreeConn, ConnType
<1>4. LostConn \in ConnType /\ ~LostConn.ref /\ LostConn.st = "NONE"
  BY <1>3, Zenon DEF LostConn, ConnType
<1> QED
  BY <1>1, <1>2, <1>3, <1>4, Zenon DEF GoodPcb

\* The segments that are sent have the type of segments.
LEMMA SegTypes ==
    ASSUME NEW h \in Host, NEW p, GoodPcb(p)
    PROVE  /\ EmptyAck(h, p) \in SegType /\ RstOf(h, p) \in SegType
           /\ p.st # "FREE" => Outstanding(h, p) \in SegType
           /\ \A m \in SegType : RstFor(h, m) \in SegType
<1>1. Other(h) \in Host
  BY Zenon DEF Other, Host
<1>2. \A f \in SUBSET Flags, s, a \in Nat, q \in Ports : Seg(h, q, f, s, a) \in SegType
  BY <1>1, Zenon DEF Seg, SegType
<1>3. /\ p.port \in Ports /\ p.nxt \in Nat /\ p.rcv \in Nat
      /\ p.st # "FREE" => p.nxt - 1 \in Nat
  BY DEF GoodPcb, PcbType
<1>4. {"ACK"} \subseteq Flags /\ {"RST", "ACK"} \subseteq Flags /\ {"SYN"} \subseteq Flags
      /\ {"SYN", "ACK"} \subseteq Flags /\ {"FIN", "ACK"} \subseteq Flags
  BY Zenon DEF Flags
<1>5. EmptyAck(h, p) \in SegType /\ RstOf(h, p) \in SegType
  BY <1>2, <1>3, <1>4, Zenon DEF EmptyAck, RstOf
<1>6. p.st # "FREE" => Outstanding(h, p) \in SegType
  BY <1>2, <1>3, <1>4, Zenon DEF Outstanding
<1>7. ASSUME NEW m \in SegType PROVE RstFor(h, m) \in SegType
  <2>1. m.port \in Ports /\ m.ack \in Nat /\ m.seq + Len1(m) \in Nat
    BY DEF SegType, Len1
  <2> QED
    BY <1>2, <1>4, <2>1, Zenon DEF RstFor
<1> QED
  BY <1>5, <1>6, <1>7, Zenon

\* What tcp_process() may make of the pcb p: it keeps the callbacks, sends the
\* FIN for nobody, and reports a completed handshake only without having sent one.
ResultOK(p, r) ==
    /\ GoodPcb(r.p) /\ r.p.st # "FREE" /\ r.out \subseteq SegType
    /\ r.p.errf <=> p.errf
    /\ r.p.st \in Finished => p.st \in Finished
    /\ r.then = "accept" => r.p.st \notin Finished
    /\ r.then = "connected" => r.p.st \notin Finished
    /\ r.then = "closed" => p.st \in Finished

\* A pcb like p, with the same callbacks, but in the state `st'.
Like(p, q, st) == GoodPcb(q) /\ (q.errf <=> p.errf) /\ q.st = st /\ q.nxt = p.nxt

\* The small changes keep the pcb's type, its state and its callbacks.
LEMMA SmallChanges ==
    ASSUME NEW p, GoodPcb(p)
    PROVE  /\ Like(p, Recounted(p), p.st) /\ Like(p, Touched(p), p.st)
           /\ \A m \in SegType : Like(p, Received(p, m), p.st)
<1>1. Like(p, p, p.st)
  BY Zenon DEF Like
<1>2. Like(p, Recounted(p), p.st)
  <2>1. CASE p.nrtx < MaxRtx
    <3>1. p.nrtx + 1 \in 0..MaxRtx
      BY <2>1, ConnAssumption DEF GoodPcb, PcbType
    <3> QED
      BY <2>1, <3>1, Zenon DEF Recounted, Like, GoodPcb, PcbType
  <2>2. CASE ~(p.nrtx < MaxRtx)
    BY <1>1, <2>2, Zenon DEF Recounted
  <2> QED
    BY <2>1, <2>2, Zenon
<1>3. Like(p, Touched(p), p.st)
  <2>1. CASE ~p.rx
    BY <2>1, ConnAssumption DEF Touched, Like, GoodPcb, PcbType
  <2>2. CASE p.rx
    BY <1>1, <2>2, Zenon DEF Touched
  <2> QED
    BY <2>1, <2>2, Zenon
<1>4. ASSUME NEW q, Like(p, q, p.st) PROVE Like(p, [q EXCEPT !.rcv = @ + 1], p.st)
  BY <1>4 DEF Like, GoodPcb, PcbType
<1>5. ASSUME NEW m \in SegType PROVE Like(p, Received(p, m), p.st)
  <2>1. m.ack \in Nat /\ 0 \in 0..MaxRtx
    BY ConnAssumption DEF SegType
  <2>2. \A a \in Nat, k \in 0..MaxRtx : Like(p, [p EXCEPT !.lastack = a, !.nrtx = k], p.st)
    BY Zenon DEF Like, GoodPcb, PcbType
  <2>3. PICK q : /\ Like(p, q, p.st)
                 /\ Received(p, m) = IF GotFin(p, m) THEN [q EXCEPT !.rcv = @ + 1] ELSE q
    BY <1>1, <2>1, <2>2, Zenon DEF Received
  <2> QED
    BY <1>4, <2>3, Zenon
<1> QED
  BY <1>2, <1>3, <1>5, Zenon

\* A pcb like p, with what is sent and done, is a result of tcp_process().
LEMMA Result ==
    ASSUME NEW p, NEW q, NEW st, Like(p, q, st), st # "FREE",
           st \in Finished => p.st \in Finished,
           NEW out \in SUBSET SegType, NEW then,
           then \in {"accept", "connected"} => st \notin Finished,
           then = "closed" => p.st \in Finished
    PROVE  ResultOK(p, Outcome(q, out, then))
<1>1. /\ Outcome(q, out, then).p = q /\ Outcome(q, out, then).out = out
      /\ Outcome(q, out, then).then = then
  BY Zenon DEF Outcome
<1> QED
  BY <1>1, Zenon DEF ResultOK, Like

\* tcp_process() for an RST.
LEMMA RstResult ==
    ASSUME NEW h \in Host, NEW p, GoodPcb(p), p.st # "FREE", NEW m \in SegType
    PROVE  ResultOK(p, ProcessRst(h, p, m))
<1>1. PICK out \in SUBSET SegType, then \in {"reset", "go on"} :
         ProcessRst(h, p, m) = Outcome(p, out, then)
  BY SegTypes, Zenon DEF ProcessRst
<1>2. Like(p, p, p.st)
  BY Zenon DEF Like
<1> QED
  BY <1>1, <1>2, Result, Zenon

\* tcp_process() in SYN_SENT.
LEMMA SynSentResult ==
    ASSUME NEW h \in Host, NEW p, GoodPcb(p), p.st = "SYN_SENT", NEW m \in SegType
    PROVE  ResultOK(p, ProcessSynSent(h, p, m))
<1> DEFINE q == [p EXCEPT !.st = "ESTABLISHED", !.rcv = m.seq + 1, !.lastack = m.ack]
<1>1. Like(p, q, "ESTABLISHED") /\ Like(p, Recounted(p), p.st) /\ Like(p, p, p.st)
  <2>1. Like(p, q, "ESTABLISHED")
    <3>1. m.ack \in Nat /\ m.seq + 1 \in Nat /\ "ESTABLISHED" \in State
      BY DEF SegType, State, Active
    <3>2. \A a, b \in Nat, st \in State : GoodPcb(p) /\ p.nxt > 0 =>
             Like(p, [p EXCEPT !.st = st, !.rcv = b, !.lastack = a], st)
      BY ZenonT(30) DEF Like, GoodPcb, PcbType
    <3> QED
      BY <3>1, <3>2, Zenon DEF GoodPcb
  <2> QED
    BY <2>1, SmallChanges, Zenon DEF Like
<1>2. EmptyAck(h, q) \in SegType
  BY <1>1, SegTypes, Zenon DEF Like
<1>3. RstFor(h, m) \in SegType /\ Outstanding(h, p) \in SegType
  BY SegTypes, Zenon
<1>4. ProcessSynSent(h, p, m)
        \in {Outcome(q, {EmptyAck(h, q)}, "connected"), Outcome(p, {}, "go on"),
             Outcome(Recounted(p), {RstFor(h, m), Outstanding(h, p)}, "go on"),
             Outcome(p, {RstFor(h, m)}, "go on")}
  BY Zenon DEF ProcessSynSent
<1>5. "ESTABLISHED" \notin Finished /\ "SYN_SENT" \notin Finished
  BY Zenon DEF Finished
<1> HIDE DEF q
<1>6. ResultOK(p, Outcome(q, {EmptyAck(h, q)}, "connected"))
  BY <1>1, <1>2, <1>5, Result, Zenon
<1>7. \A out \in SUBSET SegType :
        /\ ResultOK(p, Outcome(p, out, "go on")) /\ ResultOK(p, Outcome(Recounted(p), out, "go on"))
  BY <1>1, <1>5, Result, Zenon
<1> QED
  BY <1>3, <1>4, <1>6, <1>7, Zenon

\* A pcb in use changes its state.
LEMMA Restated ==
    ASSUME NEW p, NEW q, NEW st, Like(p, q, st), p.nxt > 0, NEW to \in State
    PROVE  Like(p, [q EXCEPT !.st = to], to)
  BY Zenon DEF Like, GoodPcb, PcbType

\* tcp_process() in SYN_RCVD.
LEMMA SynRcvdResult ==
    ASSUME NEW h \in Host, NEW p, GoodPcb(p), p.st = "SYN_RCVD", NEW m \in SegType
    PROVE  ResultOK(p, ProcessSynRcvd(h, p, m))
<1> DEFINE to == IF GotFin(p, m) THEN "CLOSE_WAIT" ELSE "ESTABLISHED"
           q == [Received(p, m) EXCEPT !.st = to]
<1>1. to \in State /\ to \notin Finished /\ to # "FREE" /\ p.st \notin Finished
  BY Zenon DEF State, Active, Finished
<1>2. Like(p, Received(p, m), p.st) /\ Like(p, Recounted(p), p.st) /\ Like(p, p, p.st)
  BY SmallChanges, Zenon DEF Like
<1>3. p.nxt > 0
  BY Zenon DEF GoodPcb
<1>4. ProcessSynRcvd(h, p, m)
        \in {Outcome(Recounted(p), {Outstanding(h, p)}, "go on"), Outcome(p, {}, "go on"),
             Outcome(q, IF Answers(p, m) THEN {EmptyAck(h, q)} ELSE {}, "accept"),
             Outcome(p, {RstFor(h, m)}, "go on")}
  BY Zenon DEF ProcessSynRcvd
<1> HIDE DEF to
<1>5. Like(p, q, to)
  BY <1>1, <1>2, <1>3, Restated, Zenon
<1> HIDE DEF q
<1>6. EmptyAck(h, q) \in SegType /\ RstFor(h, m) \in SegType /\ Outstanding(h, p) \in SegType
  BY <1>5, SegTypes, Zenon DEF Like
<1>7. \A out \in SUBSET SegType :
        /\ ResultOK(p, Outcome(p, out, "go on")) /\ ResultOK(p, Outcome(Recounted(p), out, "go on"))
        /\ ResultOK(p, Outcome(q, out, "accept"))
  BY <1>1, <1>2, <1>5, Result, Zenon
<1> QED
  BY <1>4, <1>6, <1>7, Zenon

\* tcp_process() in the states after the handshake.
LEMMA SyncedResult ==
    ASSUME NEW h \in Host, NEW p, GoodPcb(p), p.st \in Active \ {"SYN_SENT", "SYN_RCVD"},
           NEW m \in SegType
    PROVE  ResultOK(p, ProcessSynced(h, p, m))
<1> DEFINE to == NextState(p, m)
           q == [Received(p, m) EXCEPT !.st = to]
           r == IF q.st = "TIME_WAIT" THEN [q EXCEPT !.lastack = q.nxt, !.nrtx = 0] ELSE q
           then == IF p.st = "LAST_ACK" /\ AcksAll(p, m) THEN "closed" ELSE "go on"
           out == IF Answers(p, m) THEN {EmptyAck(h, r)} ELSE {}
<1>1. to \in State /\ (to \in Finished => p.st \in Finished) /\ to # "FREE"
  <2>1. to = p.st \/ to = "CLOSE_WAIT" \/ (p.st \in Finished /\ to \in Finished)
    BY Zenon DEF NextState, Finished
  <2> QED
    BY <2>1, Zenon DEF State, Active, Finished
<1>2. then = "closed" => p.st \in Finished
  BY Zenon DEF Finished
<1>3. ProcessSynced(h, p, m) = Outcome(r, out, then)
  BY Zenon DEF ProcessSynced
<1> HIDE DEF to, then
<1>4. Like(p, Received(p, m), p.st) /\ p.nxt > 0
  BY SmallChanges, Zenon DEF GoodPcb, Active
<1>5. Like(p, q, to)
  BY <1>1, <1>4, Restated, Zenon
<1> HIDE DEF q
<1>6. \A a \in Nat, k \in 0..MaxRtx : Like(p, [q EXCEPT !.lastack = a, !.nrtx = k], to)
  BY <1>5, Zenon DEF Like, GoodPcb, PcbType
<1>7. Like(p, r, to)
  <2>1. q.nxt \in Nat /\ 0 \in 0..MaxRtx
    BY <1>5, ConnAssumption DEF Like, GoodPcb, PcbType
  <2> QED
    BY <1>5, <1>6, <2>1, Zenon
<1> HIDE DEF r
<1>8. out \subseteq SegType
  BY <1>7, SegTypes, Zenon DEF Like
<1> HIDE DEF out
<1>9. then \in {"closed", "go on"}
  BY Zenon DEF then
<1> QED
  BY <1>1, <1>2, <1>3, <1>7, <1>8, <1>9, Result, Zenon

\* tcp_process() keeps the callbacks of a pcb, and does not finish it.
LEMMA Processed ==
    ASSUME NEW h \in Host, NEW p, GoodPcb(p), p.st \in Active, NEW m \in SegType
    PROVE  ResultOK(p, Process(h, p, m))
<1>1. Like(p, Touched(p), p.st) /\ Like(p, p, p.st) /\ p.st # "FREE" /\ p.nxt > 0
  BY SmallChanges, Zenon DEF Like, GoodPcb, Active
<1>2. \A r : ResultOK(Touched(p), r) => ResultOK(p, r)
  BY <1>1, Zenon DEF ResultOK, Like
<1>3. CASE "RST" \in m.f
  BY <1>1, <1>3, RstResult, Zenon DEF Process
<1>4. CASE "RST" \notin m.f /\ "SYN" \in m.f /\ p.st \notin {"SYN_SENT", "SYN_RCVD"}
  <2>1. Process(h, p, m) = Outcome(p, {EmptyAck(h, p)}, "go on")
    BY <1>4, Zenon DEF Process
  <2> QED
    BY <1>1, <2>1, SegTypes, Result, Zenon
<1>5. CASE "RST" \notin m.f /\ ~("SYN" \in m.f /\ p.st \notin {"SYN_SENT", "SYN_RCVD"})
  <2>1. GoodPcb(Touched(p)) /\ Touched(p).st = p.st
    BY <1>1, Zenon DEF Like
  <2>2. CASE p.st = "SYN_SENT"
    BY <1>2, <1>5, <2>1, <2>2, SynSentResult, Zenon DEF Process
  <2>3. CASE p.st = "SYN_RCVD"
    BY <1>2, <1>5, <2>1, <2>3, SynRcvdResult, Zenon DEF Process
  <2>4. CASE p.st \notin {"SYN_SENT", "SYN_RCVD"}
    BY <1>2, <1>5, <2>1, <2>4, SyncedResult, Zenon DEF Process
  <2> QED
    BY <2>2, <2>3, <2>4, Zenon
<1> QED
  BY <1>3, <1>4, <1>5, Zenon

----------------------------------------------------------------------------
\* Changes of one pcb, of one netconn, and of the network

\* SetPcb() leaves the other pcbs alone.
LEMMA PcbSet ==
    ASSUME PcbsGood, NEW h \in Host, NEW n \in Name, NEW q, GoodPcb(q), SetPcb(h, n, q)
    PROVE  /\ PcbsGood'
           /\ \A g \in Host, k \in Name : pcb'[g][k] = IF g = h /\ k = n THEN q ELSE pcb[g][k]
<1>1. \A g \in Host, k \in Name : pcb'[g][k] = IF g = h /\ k = n THEN q ELSE pcb[g][k]
  BY Zenon DEF PcbsGood, SetPcb
<1>2. pcb' \in [Host -> [Name -> PcbType]]
  BY Zenon DEF PcbsGood, SetPcb, GoodPcb
<1> QED
  BY <1>1, <1>2, Zenon DEF PcbsGood

\* SetConn() leaves the other netconns alone.
LEMMA ConnSet ==
    ASSUME ConnsGood, NEW h \in Host, NEW n \in Name, NEW c \in ConnType, SetConn(h, n, c)
    PROVE  /\ ConnsGood'
           /\ \A g \in Host, k \in Name : conn'[g][k] = IF g = h /\ k = n THEN c ELSE conn[g][k]
  BY Zenon DEF ConnsGood, SetConn

\* A freed pcb, and what becomes of its netconn.
LEMMA Released ==
    ASSUME PcbsGood, ConnsGood, NEW h \in Host, NEW S, NEW told, Release(h, S, told)
    PROVE  /\ PcbsGood' /\ ConnsGood'
           /\ \A g \in Host, k \in Name :
                /\ pcb'[g][k] = IF g = h /\ k \in S THEN FreePcb ELSE pcb[g][k]
                /\ conn'[g][k] = IF g = h /\ k \in told /\ pcb[g][k].errf
                                 THEN LostConn ELSE conn[g][k]
<1>1. \A g \in Host, k \in Name :
         /\ pcb'[g][k] = IF g = h /\ k \in S THEN FreePcb ELSE pcb[g][k]
         /\ conn'[g][k] = IF g = h /\ k \in told /\ pcb[g][k].errf THEN LostConn ELSE conn[g][k]
  BY Zenon DEF PcbsGood, ConnsGood, Release
<1>2. pcb' \in [Host -> [Name -> PcbType]]
  BY FreeTypes, Zenon DEF PcbsGood, Release, GoodPcb
<1>3. conn' \in [Host -> [Name -> ConnType]]
  BY FreeTypes, Zenon DEF ConnsGood, Release
<1> QED
  BY <1>1, <1>2, <1>3, FreeTypes, Zenon DEF PcbsGood, ConnsGood

\* Segments that are lost or sent are segments.
LEMMA Transmitted ==
    ASSUME NetGood, NEW m, NEW out \in SUBSET SegType, Transmit(m, out)
    PROVE  NetGood'
  BY Zenon DEF NetGood, Transmit

\* What is posted to the mailbox fits.
LEMMA Posted ==
    ASSUME MboxGood, NEW x \in 0..NConn, Post(x)
    PROVE  MboxGood'
<1>1. Append(acceptmbox, x) \in Seq(0..NConn) /\ Len(Append(acceptmbox, x)) = Len(acceptmbox) + 1
      /\ Len(acceptmbox) \in Nat
  BY DEF MboxGood
<1>2. CASE Len(acceptmbox) < MboxMax
  BY <1>1, <1>2, ConnAssumption DEF MboxGood, Post
<1>3. CASE ~(Len(acceptmbox) < MboxMax)
  BY <1>3, Zenon DEF MboxGood, Post
<1> QED
  BY <1>2, <1>3, Zenon

\* An empty mailbox fits.
LEMMA NoMail == <<>> \in Seq(0..NConn) /\ Len(<<>>) <= MboxMax
  BY ConnAssumption

\* What is in the mailbox is a name or an error message.
LEMMA MailNames == MboxGood => \A i \in 1..Len(acceptmbox) : acceptmbox[i] \in 0..NConn
<1>1. \A S : \A s \in Seq(S) : \A i \in 1..Len(s) : s[i] \in S
  OBVIOUS
<1> QED
  BY <1>1, Zenon DEF MboxGood

\* A pcb and its netconn know of each other when both are free, and a freed pcb's
\* owner is told or had half closed it.
LEMMA OwnFree ==
    /\ OwnOK(FreePcb, FreeConn) /\ OwnOK(FreePcb, LostConn)
    /\ \A p, c : OwnOK(p, c) /\ (~p.errf \/ p.st \in Finished) => OwnOK(FreePcb, c)
  BY FreeTypes, Zenon DEF OwnOK, Finished

\* Nor do the small changes of a pcb or netconn matter.
LEMMA OwnKept ==
    ASSUME NEW p, NEW q, NEW c, NEW d, OwnOK(p, c), q.errf <=> p.errf,
           q.errf => q.st # "FREE",
           q.st \in Finished => p.st \in Finished \/ d.half,
           c.st # "FREE" => d.st # "FREE", d.ref <=> c.ref, c.half => d.half
    PROVE  OwnOK(q, d)
  BY Zenon DEF OwnOK

----------------------------------------------------------------------------
\* The steps

\* What every pcb and netconn is like.
LEMMA EachGood ==
    ASSUME ConnInv
    PROVE  /\ \A h \in Host, n \in Name : /\ GoodPcb(pcb[h][n]) /\ conn[h][n] \in ConnType
                                          /\ OwnOK(pcb[h][n], conn[h][n])
           /\ PcbsGood /\ ConnsGood /\ MboxGood /\ NetGood
  BY Zenon DEF ConnInv, TypeInv, OwnInv, PcbsGood, ConnsGood

\* tcp_input() for an active pcb.
LEMMA ActiveStep ==
    ASSUME ConnInv, NEW h \in Host, NEW n \in Name, NEW m \in net, InputActive(h, n, m)
    PROVE  ConnInv'
<1> DEFINE p == pcb[h][n]
           c == conn[h][n]
           r == Process(h, p, m)
<1>1. /\ GoodPcb(p) /\ c \in ConnType /\ OwnOK(p, c) /\ m \in SegType
      /\ PcbsGood /\ ConnsGood /\ MboxGood /\ NetGood
      /\ \A g \in Host, k \in Name : OwnOK(pcb[g][k], conn[g][k])
  BY EachGood, Zenon DEF NetGood
<1>2. p.st \in Active
  BY Zenon DEF InputActive, On
<1>3. ResultOK(p, r)
  BY <1>1, <1>2, Processed, Zenon
<1>4. /\ \/ InputGoesOn(h, n, m, r) \/ InputReset(h, n, m, r) \/ InputClosed(h, n, m, r)
         \/ InputAccepted(h, n, m, r) \/ InputNotAccepted(h, n, m, r)
      /\ UNCHANGED <<lis, made>>
  BY Zenon DEF InputActive
<1>5. lis' \in BOOLEAN /\ made' \in [Host -> 0..NConn]
  BY <1>4, Zenon DEF ConnInv, TypeInv
<1> HIDE DEF r
<1>6. /\ GoodPcb(r.p) /\ r.p.st # "FREE" /\ r.out \in SUBSET SegType /\ (r.p.errf <=> p.errf)
      /\ r.p.st \in Finished => p.st \in Finished
      /\ r.then = "accept" => r.p.st \notin Finished
      /\ r.then = "closed" => p.st \in Finished
  BY <1>3, Zenon DEF ResultOK
<1>7. CASE InputGoesOn(h, n, m, r)
  <2>1. NetGood' /\ MboxGood'
    BY <1>1, <1>6, <1>7, Transmitted, Zenon DEF InputGoesOn, MboxGood
  <2>2. /\ PcbsGood'
        /\ \A g \in Host, k \in Name : pcb'[g][k] = IF g = h /\ k = n THEN r.p ELSE pcb[g][k]
    <3>1. SetPcb(h, n, r.p)
      BY <1>7, Zenon DEF InputGoesOn
    <3> QED
      BY <1>1, <1>6, <3>1, PcbSet
  <2>3. PICK d \in ConnType :
          /\ (c.st # "FREE" => d.st # "FREE") /\ (d.ref <=> c.ref) /\ (d.half <=> c.half)
          /\ SetConn(h, n, d) \/ (UNCHANGED conn /\ d = c)
    <3>1. CASE r.then = "connected"
      <4>1. [c EXCEPT !.st = "NONE"] \in ConnType /\ [c EXCEPT !.st = "NONE"].st # "FREE"
            /\ ([c EXCEPT !.st = "NONE"].ref <=> c.ref) /\ ([c EXCEPT !.st = "NONE"].half <=> c.half)
        BY <1>1, Zenon DEF ConnType
      <4> QED
        BY <1>7, <3>1, <4>1, Zenon DEF InputGoesOn
    <3>2. CASE r.then # "connected"
      BY <1>1, <1>7, <3>2, Zenon DEF InputGoesOn
    <3> QED
      BY <3>1, <3>2, Zenon
  <2>4. /\ ConnsGood'
        /\ \A g \in Host, k \in Name : conn'[g][k] = IF g = h /\ k = n THEN d ELSE conn[g][k]
    <3>1. CASE SetConn(h, n, d)
      BY <1>1, <3>1, ConnSet
    <3>2. CASE UNCHANGED conn /\ d = c
      BY <1>1, <3>2, Zenon DEF ConnsGood
    <3> QED
      BY <2>3, <3>1, <3>2, Zenon
  <2>5. OwnOK(r.p, d)
    BY <1>1, <1>6, <2>3, OwnKept
  <2>6. OwnInv'
    BY <1>1, <2>2, <2>4, <2>5 DEF OwnInv
  <2> QED
    BY <1>5, <2>1, <2>2, <2>4, <2>6, Zenon DEF ConnInv, TypeInv
<1>8. ASSUME InputReset(h, n, m, r) \/ InputClosed(h, n, m, r) \/ InputNotAccepted(h, n, m, r)
      PROVE  ConnInv'
  <2>1. NetGood' /\ MboxGood'
    <3>1. RstOf(h, p) \in SegType /\ ErrMsg \in 0..NConn
      BY <1>1, SegTypes, ConnAssumption DEF ErrMsg
    <3> QED
      BY <1>1, <1>8, <3>1, Transmitted, Posted, Zenon
      DEF InputReset, InputClosed, InputNotAccepted, MboxGood
  <2>2. PICK told \in SUBSET {n} :
          Release(h, {n}, told) /\ (n \notin told => p.st \in Finished)
    BY <1>6, <1>8, Zenon DEF InputReset, InputClosed, InputNotAccepted
  <2>3. /\ PcbsGood' /\ ConnsGood'
        /\ \A g \in Host, k \in Name :
             /\ pcb'[g][k] = IF g = h /\ k \in {n} THEN FreePcb ELSE pcb[g][k]
             /\ conn'[g][k] = IF g = h /\ k \in told /\ pcb[g][k].errf
                              THEN LostConn ELSE conn[g][k]
    BY <1>1, <2>2, Released
  <2>4. OwnInv'
    <3>1. ASSUME NEW g \in Host, NEW k \in Name, ~(g = h /\ k = n)
          PROVE  OwnOK(pcb'[g][k], conn'[g][k])
      BY <1>1, <2>2, <2>3, <3>1, Zenon
    <3>2. OwnOK(pcb'[h][n], conn'[h][n])
      <4>1. pcb'[h][n] = FreePcb
            /\ conn'[h][n] = IF n \in told /\ p.errf THEN LostConn ELSE c
        BY <2>3, Zenon
      <4> QED
        BY <1>1, <2>2, <4>1, OwnFree, Zenon
    <3> QED
      BY <3>1, <3>2, Zenon DEF OwnInv
  <2> QED
    BY <1>5, <2>1, <2>3, <2>4, Zenon DEF ConnInv, TypeInv
<1>9. CASE InputAccepted(h, n, m, r)
  <2> DEFINE q == [r.p EXCEPT !.errf = TRUE, !.lis = FALSE]
             d == [FreeConn EXCEPT !.st = "NONE", !.ref = TRUE]
  <2>1. GoodPcb(q) /\ q.errf /\ q.st = r.p.st
    BY <1>6, Zenon DEF GoodPcb, PcbType
  <2>2. d \in ConnType /\ d.ref /\ d.st # "FREE"
    BY FreeTypes, Zenon DEF ConnType
  <2>3. OwnOK(q, d)
    BY <1>6, <1>9, <2>1, <2>2, Zenon DEF OwnOK, InputAccepted
  <2>4. SetPcb(h, n, q) /\ SetConn(h, n, d) /\ Post(n) /\ Transmit({m}, r.out)
    BY <1>9, Zenon DEF InputAccepted
  <2> HIDE DEF q, d
  <2>5. NetGood' /\ MboxGood'
    BY <1>1, <1>6, <2>4, Transmitted, Posted DEF Name
  <2>6. /\ PcbsGood'
        /\ \A g \in Host, k \in Name : pcb'[g][k] = IF g = h /\ k = n THEN q ELSE pcb[g][k]
    BY <1>1, <2>1, <2>4, PcbSet
  <2>7. /\ ConnsGood'
        /\ \A g \in Host, k \in Name : conn'[g][k] = IF g = h /\ k = n THEN d ELSE conn[g][k]
    BY <1>1, <2>2, <2>4, ConnSet
  <2>8. OwnInv'
    BY <1>1, <2>3, <2>6, <2>7 DEF OwnInv
  <2> QED
    BY <1>5, <2>5, <2>6, <2>7, <2>8, Zenon DEF ConnInv, TypeInv
<1> QED
  BY <1>4, <1>7, <1>8, <1>9, Zenon

\* tcp_timewait_input().
LEMMA TimeWaitStep ==
    ASSUME ConnInv, NEW h \in Host, NEW n \in Name, NEW m \in net, InputTimeWait(h, n, m)
    PROVE  ConnInv'
<1> DEFINE p == pcb[h][n]
           q == IF "FIN" \in m.f /\ m.f \cap {"RST", "SYN"} = {}
                THEN [p EXCEPT !.age = 0] ELSE p
           out == CASE "RST" \in m.f -> {}
                    [] "SYN" \in m.f /\ m.seq \in p.rcv .. p.rcv + Wnd -> {RstFor(h, m)}
                    [] OTHER -> IF Len1(m) = 1 THEN {EmptyAck(h, p)} ELSE {}
<1>1. /\ GoodPcb(p) /\ m \in SegType
      /\ PcbsGood /\ ConnsGood /\ MboxGood /\ NetGood
      /\ \A g \in Host, k \in Name : OwnOK(pcb[g][k], conn[g][k])
  BY EachGood, Zenon DEF NetGood
<1>2. SetPcb(h, n, q) /\ Transmit({m}, out) /\ UNCHANGED <<conn, lis, acceptmbox, made>>
  BY Zenon DEF InputTimeWait
<1>3. out \in SUBSET SegType
  BY <1>1, SegTypes, Zenon
<1> HIDE DEF out
<1>4. Like(p, q, p.st)
  BY <1>1, ConnAssumption DEF Like, GoodPcb, PcbType
<1> HIDE DEF q
<1>5. NetGood' /\ MboxGood' /\ ConnsGood'
  BY <1>1, <1>2, <1>3, Transmitted, Zenon DEF MboxGood, ConnsGood
<1>6. /\ PcbsGood'
      /\ \A g \in Host, k \in Name : pcb'[g][k] = IF g = h /\ k = n THEN q ELSE pcb[g][k]
  BY <1>1, <1>2, <1>4, PcbSet DEF Like
<1>7. OwnOK(q, conn[h][n])
  BY <1>1, <1>4, Zenon DEF Like, OwnOK
<1>8. OwnInv'
  BY <1>1, <1>2, <1>6, <1>7, Zenon DEF OwnInv
<1> QED
  BY <1>2, <1>5, <1>6, <1>8, Zenon DEF ConnInv, TypeInv

\* Nothing changes but what is under way, in the mailbox or listening.
LEMMA Elsewhere ==
    ASSUME ConnInv, UNCHANGED <<pcb, conn, made>>, NetGood', MboxGood', lis' \in BOOLEAN
    PROVE  ConnInv'
<1>1. PcbsGood' /\ ConnsGood' /\ OwnInv'
  BY Zenon DEF ConnInv, TypeInv, PcbsGood, ConnsGood, OwnInv
<1> QED
  BY <1>1, Zenon DEF ConnInv, TypeInv

\* Segments nobody waits for, and the calls of the application at the listener.
LEMMA QuietSteps ==
    ASSUME ConnInv
    PROVE  /\ \A h \in Host, m \in net : InputNoPcb(h, m) => ConnInv'
           /\ \A m \in net : Lose(m) => ConnInv'
           /\ Accept => ConnInv'
           /\ Listen => ConnInv'
<1>1. MboxGood /\ NetGood /\ lis \in BOOLEAN
  BY Zenon DEF ConnInv, TypeInv
<1>2. ASSUME NEW h \in Host, NEW m \in net, InputNoPcb(h, m) PROVE ConnInv'
  <2>1. GoodPcb(FreePcb) /\ m \in SegType
    BY <1>1, FreeTypes, Zenon DEF NetGood
  <2>2. RstFor(h, m) \in SegType
    BY <2>1, SegTypes, Zenon
  <2>3. NetGood'
    BY <1>1, <1>2, <2>2, Transmitted, Zenon DEF InputNoPcb
  <2> QED
    BY <1>1, <1>2, <2>3, Elsewhere, Zenon DEF InputNoPcb, MboxGood
<1>3. ASSUME NEW m \in net, Lose(m) PROVE ConnInv'
  BY <1>1, <1>3, Elsewhere, Zenon DEF Lose, NetGood, MboxGood
<1>4. CASE Accept
  <2>1. MboxGood'
    <3>1. acceptmbox \in Seq(0..NConn) /\ acceptmbox # <<>> /\ acceptmbox' = Tail(acceptmbox)
      BY <1>1, <1>4, Zenon DEF MboxGood, Accept
    <3>2. Len(acceptmbox) \in Nat /\ Len(acceptmbox) # 0 /\ MboxMax \in Nat
      BY <3>1, ConnAssumption
    <3>3. Tail(acceptmbox) \in Seq(0..NConn) /\ Len(Tail(acceptmbox)) = Len(acceptmbox) - 1
      BY <3>1, <3>2
    <3> QED
      BY <1>1, <3>1, <3>2, <3>3 DEF MboxGood
  <2> QED
    BY <1>1, <1>4, <2>1, Elsewhere, Zenon DEF Accept, NetGood
<1>5. CASE Listen
  BY <1>1, <1>5, Elsewhere, Zenon DEF Listen, NetGood, MboxGood
<1> QED
  BY <1>2, <1>3, <1>4, <1>5, Zenon

\* tcp_alloc(): the victim's owner is told, unless it had half closed it.
LEMMA Allocated ==
    ASSUME ConnInv, NEW h \in Host, NEW p, GoodPcb(p), NEW c \in ConnType, OwnOK(p, c),
           Alloc(h, p, c)
    PROVE  PcbsGood' /\ ConnsGood' /\ OwnInv' /\ made' \in [Host -> 0..NConn]
<1> DEFINE n == made[h] + 1
<1>1. /\ PcbsGood /\ ConnsGood
      /\ \A g \in Host, k \in Name : OwnOK(pcb[g][k], conn[g][k])
  BY EachGood, Zenon
<1>2. made \in [Host -> 0..NConn] /\ made[h] < NConn /\ n \in Name /\ n \in 0..NConn
  BY ConnAssumption DEF ConnInv, TypeInv, Alloc, Name
<1>3. made' \in [Host -> 0..NConn]
  BY <1>2, Zenon DEF Alloc
<1>4. PICK v \in IF Full(h) THEN Victims(h) ELSE {n} :
         /\ pcb' = [pcb EXCEPT ![h][v] = FreePcb, ![h][n] = p]
         /\ conn' = [conn EXCEPT ![h][v] = IF pcb[h][v].errf /\ pcb[h][v].st # "TIME_WAIT"
                                           THEN LostConn ELSE @,
                                 ![h][n] = c]
  BY Zenon DEF Alloc
<1>5. v \in Name
  BY <1>2, <1>4, Zenon DEF Victims, Oldest, In, Live
<1> DEFINE d == IF pcb[h][v].errf /\ pcb[h][v].st # "TIME_WAIT" THEN LostConn ELSE conn[h][v]
<1>6. d \in ConnType
  BY <1>1, <1>5, FreeTypes, Zenon DEF ConnsGood
<1>7. OwnOK(FreePcb, d)
  <2>1. "TIME_WAIT" \in Finished
    BY Zenon DEF Finished
  <2> QED
    BY <1>1, <1>5, <2>1, OwnFree, Zenon
<1>8. conn' = [conn EXCEPT ![h][v] = d, ![h][n] = c]
  BY <1>1, <1>4, <1>5, Zenon DEF ConnsGood
<1> HIDE DEF n, d
<1>9. \A g \in Host, k \in Name :
        pcb'[g][k] = IF g = h /\ k = n THEN p ELSE IF g = h /\ k = v THEN FreePcb ELSE pcb[g][k]
  BY <1>1, <1>2, <1>4, <1>5, Zenon DEF PcbsGood
<1>10. \A g \in Host, k \in Name :
        conn'[g][k] = IF g = h /\ k = n THEN c ELSE IF g = h /\ k = v THEN d ELSE conn[g][k]
  BY <1>1, <1>2, <1>5, <1>8, Zenon DEF ConnsGood
<1>11. pcb' \in [Host -> [Name -> PcbType]]
  BY <1>1, <1>2, <1>4, <1>5, FreeTypes, Zenon DEF PcbsGood, GoodPcb
<1>12. ConnsGood'
  BY <1>1, <1>2, <1>5, <1>6, <1>8, Zenon DEF ConnsGood
<1>13. PcbsGood'
  BY <1>1, <1>9, <1>11, FreeTypes, Zenon DEF PcbsGood
<1>14. OwnInv'
  BY <1>1, <1>7, <1>9, <1>10 DEF OwnInv
<1> QED
  BY <1>3, <1>12, <1>13, <1>14, Zenon

\* tcp_listen_input().
LEMMA SynStep ==
    ASSUME ConnInv, NEW h \in Host, NEW m \in net, InputSyn(h, m)
    PROVE  ConnInv'
<1> DEFINE n == made[h] + 1
           p == SynRcvdPcb(n, m)
<1>1. m \in SegType /\ MboxGood /\ NetGood /\ lis \in BOOLEAN
  BY Zenon DEF ConnInv, TypeInv, NetGood
<1>2. \/ Alloc(h, p, FreeConn) /\ Transmit({m}, {Outstanding(h, p)}) /\ UNCHANGED acceptmbox
      \/ Post(ErrMsg) /\ Transmit({m}, {}) /\ UNCHANGED <<pcb, conn, made>>
  BY Zenon DEF InputSyn
<1>3. lis' \in BOOLEAN
  BY <1>1, Zenon DEF InputSyn
<1>4. CASE Alloc(h, p, FreeConn) /\ Transmit({m}, {Outstanding(h, p)}) /\ UNCHANGED acceptmbox
  <2>1. Iss(n) \in Nat /\ n \in Nat
    BY ConnAssumption DEF ConnInv, TypeInv, Iss
  <2>2. m.seq + 1 \in Nat /\ m.port \in Ports
    BY <1>1 DEF SegType
  <2> DEFINE begun == [FreePcb EXCEPT !.st = "SYN_RCVD", !.port = m.port,
                                 !.nxt = Iss(n) + 1]
  <2>3. p = [begun EXCEPT !.lastack = Iss(n), !.rcv = m.seq + 1, !.lis = TRUE]
    BY Zenon DEF SynRcvdPcb
  <2> HIDE DEF p, n
  <2>b. begun \in PcbType /\ begun.st = "SYN_RCVD" /\ begun.nxt > 0 /\ ~begun.errf
    <3>1. FreePcb \in PcbType /\ ~FreePcb.errf /\ "SYN_RCVD" \in State
      BY FreeTypes, Zenon DEF GoodPcb, State, Active
    <3>2. Iss(n) + 1 \in Nat /\ Iss(n) + 1 > 0
      BY <2>1
    <3> QED
      BY <2>2, <3>1, <3>2, Zenon DEF PcbType
  <2> HIDE DEF begun
  <2>4. p \in PcbType /\ p.st = "SYN_RCVD" /\ p.nxt > 0 /\ ~p.errf
    BY <2>1, <2>2, <2>3, <2>b, Zenon DEF PcbType
  <2>5. GoodPcb(p) /\ OwnOK(p, FreeConn) /\ FreeConn \in ConnType
    BY <2>4, FreeTypes, Zenon DEF GoodPcb, OwnOK
  <2>6. PcbsGood' /\ ConnsGood' /\ OwnInv' /\ made' \in [Host -> 0..NConn]
    BY <1>4, <2>5, Allocated, Zenon
  <2>7. NetGood' /\ MboxGood'
    BY <1>1, <1>4, <2>4, <2>5, SegTypes, Transmitted, Zenon DEF MboxGood
  <2> QED
    BY <1>3, <2>6, <2>7, Zenon DEF ConnInv, TypeInv
<1>5. CASE Post(ErrMsg) /\ Transmit({m}, {}) /\ UNCHANGED <<pcb, conn, made>>
  <2>1. NetGood' /\ MboxGood'
    BY <1>1, <1>5, Transmitted, Posted, ConnAssumption DEF ErrMsg
  <2> QED
    BY <1>3, <1>5, <2>1, Elsewhere, Zenon
<1> QED
  BY <1>2, <1>4, <1>5, Zenon

\* lwip_netconn_do_connect().
LEMMA ConnectStep ==
    ASSUME ConnInv, NEW port \in Ports, Connect(port)
    PROVE  ConnInv'
<1> DEFINE h == "client"
           n == made[h] + 1
           p == [FreePcb EXCEPT !.st = "SYN_SENT", !.port = port, !.nxt = Iss(n),
                                !.lastack = Iss(n) - 1, !.errf = TRUE]
           c == [FreeConn EXCEPT !.st = "CONNECT", !.ref = TRUE]
<1>1. MboxGood /\ NetGood /\ lis \in BOOLEAN /\ h \in Host
  BY Zenon DEF ConnInv, TypeInv, Host
<1>2. Alloc(h, p, c) /\ Transmit({}, {Outstanding(h, p)}) /\ UNCHANGED <<lis, acceptmbox>>
  BY Zenon DEF Connect
<1>3. Iss(n) \in Nat /\ Iss(n) > 0 /\ Iss(n) - 1 \in Nat
  <2>1. n \in Nat /\ n >= 1 /\ Stride \in Nat /\ Stride >= 3
    BY <1>1, ConnAssumption DEF ConnInv, TypeInv
  <2>2. \A a, b \in Nat : a >= 1 /\ b >= 3 => a * b \in Nat /\ a * b >= 1
    OBVIOUS
  <2> QED
    BY <2>1, <2>2 DEF Iss
<1>4. \A a, b \in Nat :
        LET q == [FreePcb EXCEPT !.st = "SYN_SENT", !.port = port, !.nxt = a, !.lastack = b,
                                 !.errf = TRUE]
        IN  q \in PcbType /\ q.st = "SYN_SENT" /\ q.nxt = a /\ q.errf
  BY FreeTypes, Zenon DEF GoodPcb, PcbType, State, Active
<1>5. p \in PcbType /\ p.st = "SYN_SENT" /\ p.nxt > 0 /\ p.errf
  BY <1>3, <1>4, ZenonT(30)
<1>6. c \in ConnType /\ c.ref /\ c.st # "FREE"
  BY FreeTypes, Zenon DEF ConnType
<1> HIDE DEF p, c, n
<1>7. GoodPcb(p) /\ OwnOK(p, c)
  BY <1>5, <1>6, Zenon DEF GoodPcb, OwnOK, Finished
<1>8. PcbsGood' /\ ConnsGood' /\ OwnInv' /\ made' \in [Host -> 0..NConn]
  BY <1>1, <1>2, <1>6, <1>7, Allocated, Zenon
<1>9. NetGood' /\ MboxGood' /\ lis' \in BOOLEAN
  BY <1>1, <1>2, <1>5, <1>7, SegTypes, Transmitted, Zenon DEF MboxGood
<1> QED
  BY <1>8, <1>9, Zenon DEF ConnInv, TypeInv

\* tcp_slowtmr(): a pcb that is removed in silence was half closed.
LEMMA SlowStep ==
    ASSUME ConnInv, NEW h \in Host, SlowTmr(h)
    PROVE  ConnInv'
<1> DEFINE P == pcb[h]
           gone == {n \in Live(h) : GivesUp(P[n]) \/ Expires(P[n])}
           again == {n \in Live(h) : Rexmits(P[n])}
           Aged(n) == [(IF n \in again THEN Recounted(P[n]) ELSE P[n]) EXCEPT !.age = Age(P[n])]
           q(n) == CASE n \in gone -> FreePcb [] n \in Live(h) \ gone -> Aged(n) [] OTHER -> P[n]
           d(n) == IF n \in gone /\ P[n].errf /\ P[n].st # "TIME_WAIT" THEN LostConn
                   ELSE conn[h][n]
<1>1. /\ \A g \in Host, k \in Name : /\ GoodPcb(pcb[g][k]) /\ conn[g][k] \in ConnType
                                     /\ OwnOK(pcb[g][k], conn[g][k])
      /\ PcbsGood /\ ConnsGood /\ MboxGood /\ NetGood
  BY EachGood, Zenon
<1>2. /\ UNCHANGED <<lis, acceptmbox, made>>
      /\ Transmit({}, {Outstanding(h, P[n]) : n \in again})
      /\ pcb' = [pcb EXCEPT ![h] = [n \in Name |-> q(n)]]
      /\ conn' = [conn EXCEPT ![h] = [n \in Name |-> d(n)]]
  BY <1>1, Zenon DEF SlowTmr, ConnsGood
<1>3. ASSUME NEW n \in Name PROVE Like(P[n], Aged(n), P[n].st)
  <2> DEFINE r == IF n \in again THEN Recounted(P[n]) ELSE P[n]
  <2>1. Like(P[n], r, P[n].st)
    BY <1>1, SmallChanges, Zenon DEF Like
  <2>2. Age(P[n]) \in 0..Msl2
    BY <1>1, ConnAssumption DEF Age, GoodPcb, PcbType
  <2> HIDE DEF r
  <2>3. \A a \in 0..Msl2 : Like(P[n], [r EXCEPT !.age = a], P[n].st)
    BY <2>1, Zenon DEF Like, GoodPcb, PcbType
  <2> QED
    BY <2>2, <2>3, Zenon DEF r
<1>4. ASSUME NEW n \in Name PROVE GoodPcb(q(n)) /\ d(n) \in ConnType /\ OwnOK(q(n), d(n))
  <2> HIDE DEF gone, again, Aged
  <2>1. CASE n \in gone
    <3>1. "TIME_WAIT" \in Finished
      BY Zenon DEF Finished
    <3> QED
      BY <1>1, <2>1, <3>1, OwnFree, FreeTypes, Zenon
  <2>2. CASE n \notin gone
    <3>1. \/ q(n) = Aged(n) \/ q(n) = P[n]
      BY <2>2, Zenon
    <3>2. Like(P[n], q(n), P[n].st) /\ d(n) = conn[h][n]
      BY <1>1, <1>3, <2>2, <3>1, Zenon DEF Like
    <3> QED
      BY <1>1, <3>2 DEF Like, OwnOK
  <2> QED
    BY <2>1, <2>2, Zenon
<1> HIDE DEF q, d
<1>5. \A g \in Host, k \in Name :
        /\ pcb'[g][k] = IF g = h THEN q(k) ELSE pcb[g][k]
        /\ conn'[g][k] = IF g = h THEN d(k) ELSE conn[g][k]
  BY <1>1, <1>2, Zenon DEF PcbsGood, ConnsGood
<1>6. PcbsGood' /\ ConnsGood'
  <2>1. pcb' \in [Host -> [Name -> PcbType]]
    BY <1>1, <1>2, <1>4, Zenon DEF PcbsGood, GoodPcb
  <2>2. conn' \in [Host -> [Name -> ConnType]]
    BY <1>1, <1>2, <1>4, Zenon DEF ConnsGood
  <2> QED
    BY <1>1, <1>4, <1>5, <2>1, <2>2, Zenon DEF PcbsGood, ConnsGood
<1>7. OwnInv'
  BY <1>1, <1>4, <1>5, Zenon DEF OwnInv
<1>8. NetGood' /\ MboxGood'
  <2>1. {Outstanding(h, P[n]) : n \in again} \in SUBSET SegType
    BY <1>1, SegTypes, Zenon DEF Live
  <2> QED
    BY <1>1, <1>2, <2>1, Transmitted, Zenon DEF MboxGood
<1> QED
  BY <1>2, <1>6, <1>7, <1>8, Zenon DEF ConnInv, TypeInv

\* tcp_close() leaves a pcb without callbacks, and sends a segment at most.
LEMMA ClosedTypes ==
    ASSUME NEW h \in Host, NEW p, GoodPcb(p), p.st # "FREE"
    PROVE  /\ GoodPcb(ClosedPcb(p)) /\ ~ClosedPcb(p).errf
           /\ GoodPcb(WithFin(p)) /\ (WithFin(p).errf <=> p.errf) /\ WithFin(p).st # "FREE"
           /\ SendsFin(p) => Outstanding(h, WithFin(p)) \in SegType
<1>1. FinState(p) \in State /\ FinState(p) # "FREE"
  BY Zenon DEF FinState, GoodPcb, PcbType, State, Active
<1>2. p \in PcbType /\ p.nxt > 0 /\ p.nxt + 1 \in Nat
  BY DEF GoodPcb, PcbType
<1>3. GoodPcb(WithFin(p)) /\ (WithFin(p).errf <=> p.errf) /\ WithFin(p).st # "FREE"
  <2>1. CASE SendsFin(p)
    <3>1. p.nxt + 1 > 0
      BY <1>2 DEF PcbType
    <3>2. PICK st \in State, a \in Nat :
            st # "FREE" /\ a > 0 /\ WithFin(p) = [p EXCEPT !.st = st, !.nxt = a]
      BY <1>1, <1>2, <2>1, <3>1, Zenon DEF WithFin
    <3> QED
      BY <1>2, <3>2, Zenon DEF GoodPcb, PcbType
  <2>2. CASE ~SendsFin(p)
    BY <2>2, Zenon DEF WithFin
  <2> QED
    BY <2>1, <2>2, Zenon
<1>4. GoodPcb(ClosedPcb(p)) /\ ~ClosedPcb(p).errf
  <2>1. CASE p.st = "SYN_SENT"
    BY <2>1, FreeTypes, Zenon DEF ClosedPcb
  <2>2. CASE p.st # "SYN_SENT"
    BY <1>3, <2>2, Zenon DEF ClosedPcb, GoodPcb, PcbType
  <2> QED
    BY <2>1, <2>2, Zenon
<1> QED
  BY <1>3, <1>4, SegTypes, Zenon

\* A pcb and its netconn change together, and no other.
LEMMA BothSet ==
    ASSUME ConnInv, NEW h \in Host, NEW n \in Name, NEW q, GoodPcb(q), NEW c \in ConnType,
           OwnOK(q, c), SetPcb(h, n, q), SetConn(h, n, c),
           UNCHANGED <<lis, acceptmbox, made>>,
           NetGood'
    PROVE  ConnInv'
<1>1. /\ PcbsGood /\ ConnsGood /\ MboxGood
      /\ \A g \in Host, k \in Name : OwnOK(pcb[g][k], conn[g][k])
  BY EachGood, Zenon
<1>2. /\ PcbsGood'
      /\ \A g \in Host, k \in Name : pcb'[g][k] = IF g = h /\ k = n THEN q ELSE pcb[g][k]
  BY <1>1, PcbSet
<1>3. /\ ConnsGood'
      /\ \A g \in Host, k \in Name : conn'[g][k] = IF g = h /\ k = n THEN c ELSE conn[g][k]
  BY <1>1, ConnSet
<1>4. OwnInv' /\ MboxGood'
  BY <1>1, <1>2, <1>3 DEF OwnInv, MboxGood
<1> QED
  BY <1>2, <1>3, <1>4, Zenon DEF ConnInv, TypeInv

\* netconn_delete().
LEMMA CloseStep ==
    ASSUME ConnInv, NEW h \in Host, NEW n \in Name, Close(h, n)
    PROVE  ConnInv'
<1> DEFINE p == pcb[h][n]
<1>1. /\ GoodPcb(p) /\ OwnOK(p, conn[h][n]) /\ PcbsGood /\ NetGood
  BY EachGood, Zenon
<1>2. SetConn(h, n, FreeConn) /\ UNCHANGED <<lis, acceptmbox, made>>
  BY Zenon DEF Close
<1>3. CASE conn[h][n].ref
  <2>1. p.st # "FREE" /\ SetPcb(h, n, ClosedPcb(p)) /\ FinOut(h, n)
    BY <1>3, Zenon DEF Close, Held, Live
  <2>2. GoodPcb(ClosedPcb(p)) /\ ~ClosedPcb(p).errf
    BY <1>1, <2>1, ClosedTypes, Zenon
  <2>3. OwnOK(ClosedPcb(p), FreeConn) /\ FreeConn \in ConnType
    BY <2>2, FreeTypes, Zenon DEF OwnOK
  <2>4. NetGood'
    BY <1>1, <2>1, ClosedTypes, Transmitted DEF FinOut
  <2> QED
    BY <1>2, <2>1, <2>2, <2>3, <2>4, BothSet, Zenon
<1>4. CASE ~conn[h][n].ref
  <2>1. UNCHANGED <<pcb, net>>
    BY <1>4, Zenon DEF Close
  <2>2. SetPcb(h, n, p)
    BY <1>1, <2>1, Zenon DEF SetPcb, PcbsGood
  <2>3. OwnOK(p, FreeConn) /\ FreeConn \in ConnType
    BY <1>1, <1>4, FreeTypes, Zenon DEF OwnOK
  <2>4. NetGood'
    BY <1>1, <2>1, Zenon DEF NetGood
  <2> QED
    BY <1>1, <1>2, <2>2, <2>3, <2>4, BothSet, Zenon
<1> QED
  BY <1>3, <1>4, Zenon

\* lwip_netconn_do_close() for one direction.
LEMMA ShutdownStep ==
    ASSUME ConnInv, NEW h \in Host, NEW n \in Name, NEW how \in {"RD", "WR"},
           Shutdown(h, n, how)
    PROVE  ConnInv'
<1> DEFINE p == pcb[h][n]
           c == conn[h][n]
           q == IF ShutClose(p, how) THEN ClosedPcb(p)
                ELSE IF how = "RD" THEN [p EXCEPT !.rx = TRUE] ELSE WithFin(p)
           d == IF ShutClose(p, how) THEN LostConn ELSE [c EXCEPT !.half = @ \/ how = "WR"]
<1>1. GoodPcb(p) /\ c \in ConnType /\ OwnOK(p, c) /\ NetGood
  BY EachGood, Zenon
<1>2. /\ p.st # "FREE" /\ c.ref /\ c.st = "NONE"
      /\ SetPcb(h, n, q) /\ SetConn(h, n, d) /\ UNCHANGED <<lis, acceptmbox, made>>
      /\ IF how = "WR" THEN FinOut(h, n) ELSE UNCHANGED net
  BY Zenon DEF Shutdown, Held, Live
<1>3. NetGood'
  BY <1>1, <1>2, ClosedTypes, Transmitted DEF FinOut, NetGood
<1>4. GoodPcb(q) /\ d \in ConnType /\ OwnOK(q, d)
  <2>1. CASE ShutClose(p, how)
    BY <1>1, <1>2, <2>1, ClosedTypes, FreeTypes, Zenon DEF OwnOK
  <2>2. CASE ~ShutClose(p, how) /\ how = "RD"
    <3>1. Like(p, [p EXCEPT !.rx = TRUE], p.st)
      BY <1>1, Zenon DEF Like, GoodPcb, PcbType
    <3>2. q = [p EXCEPT !.rx = TRUE]
      BY <2>2, Zenon
    <3>3. d \in ConnType /\ (d.half <=> c.half) /\ (d.ref <=> c.ref) /\ d.st = c.st
      BY <1>1, <2>2, Zenon DEF ConnType
    <3> HIDE DEF q, d
    <3> QED
      BY <1>1, <3>1, <3>2, <3>3, Zenon DEF Like, OwnOK
  <2>3. CASE ~ShutClose(p, how) /\ how = "WR"
    <3>1. q = WithFin(p) /\ GoodPcb(q) /\ (q.errf <=> p.errf) /\ q.st # "FREE"
      BY <1>1, <1>2, <2>3, ClosedTypes, Zenon
    <3>2. d \in ConnType /\ d.half /\ (d.ref <=> c.ref) /\ d.st = c.st
      BY <1>1, <2>3, Zenon DEF ConnType
    <3> HIDE DEF q, d
    <3> QED
      BY <1>1, <1>2, <3>1, <3>2, Zenon DEF OwnOK
  <2> QED
    BY <2>1, <2>2, <2>3, Zenon
<1> HIDE DEF q, d
<1> QED
  BY <1>2, <1>3, <1>4, BothSet, Zenon

\* netconn_delete() of the listener.
LEMMA CloseListenerStep ==
    ASSUME ConnInv, CloseListener
    PROVE  ConnInv'
<1> DEFINE h == "server"
           waiting == {acceptmbox[i] : i \in 1..Len(acceptmbox)} \ {ErrMsg}
           aborted == {n \in waiting : conn[h][n].ref}
           q(n) == IF n \in aborted THEN FreePcb ELSE [pcb[h][n] EXCEPT !.lis = FALSE]
           d(n) == IF n \in waiting THEN FreeConn ELSE conn[h][n]
<1>1. /\ \A g \in Host, k \in Name : /\ GoodPcb(pcb[g][k]) /\ conn[g][k] \in ConnType
                                     /\ OwnOK(pcb[g][k], conn[g][k])
      /\ PcbsGood /\ ConnsGood /\ MboxGood /\ NetGood /\ h \in Host
  BY EachGood, Zenon DEF Host
<1>2. /\ lis' = FALSE /\ acceptmbox' = <<>> /\ UNCHANGED made
      /\ Transmit({}, {RstOf(h, pcb[h][n]) : n \in aborted})
      /\ pcb' = [pcb EXCEPT ![h] = [n \in Name |-> q(n)]]
      /\ conn' = [conn EXCEPT ![h] = [n \in Name |-> d(n)]]
  BY <1>1, Zenon DEF CloseListener, PcbsGood, ConnsGood
<1>3. waiting \subseteq Name
  <2>1. \A i \in 1..Len(acceptmbox) : acceptmbox[i] \in 0..NConn
    BY <1>1, MailNames, Zenon
  <2>2. \A x \in 0..NConn : x # ErrMsg => x \in Name
    BY ConnAssumption DEF ErrMsg, Name
  <2> QED
    BY <2>1, <2>2, Zenon
<1>4. ASSUME NEW n \in Name PROVE GoodPcb(q(n)) /\ d(n) \in ConnType /\ OwnOK(q(n), d(n))
  <2> DEFINE p == pcb[h][n]
  <2> HIDE DEF waiting
  <2>1. Like(p, [p EXCEPT !.lis = FALSE], p.st)
    BY <1>1, Zenon DEF Like, GoodPcb, PcbType
  <2>2. CASE n \in aborted
    BY <2>2, OwnFree, FreeTypes, Zenon
  <2>3. CASE n \notin aborted /\ n \in waiting
    <3>1. ~conn[h][n].ref /\ q(n) = [p EXCEPT !.lis = FALSE] /\ d(n) = FreeConn
      BY <2>3, Zenon
    <3> QED
      BY <1>1, <2>1, <3>1, FreeTypes, Zenon DEF Like, OwnOK
  <2>4. CASE n \notin waiting
    <3>1. q(n) = [p EXCEPT !.lis = FALSE] /\ d(n) = conn[h][n]
      BY <2>4, Zenon
    <3> HIDE DEF q, d
    <3> QED
      BY <1>1, <2>1, <3>1 DEF Like, OwnOK
  <2> QED
    BY <2>2, <2>3, <2>4, Zenon
<1>5. NetGood' /\ MboxGood' /\ lis' \in BOOLEAN /\ made' \in [Host -> 0..NConn]
  <2>1. {RstOf(h, pcb[h][n]) : n \in aborted} \in SUBSET SegType
    BY <1>1, <1>3, SegTypes, Zenon
  <2>2. MboxGood' /\ lis' \in BOOLEAN
    BY <1>2, NoMail, Zenon DEF MboxGood
  <2> QED
    BY <1>1, <1>2, <2>1, <2>2, Transmitted, Zenon DEF ConnInv, TypeInv
<1> HIDE DEF q, d
<1>6. \A g \in Host, k \in Name :
        /\ pcb'[g][k] = IF g = h THEN q(k) ELSE pcb[g][k]
        /\ conn'[g][k] = IF g = h THEN d(k) ELSE conn[g][k]
  BY <1>1, <1>2, Zenon DEF PcbsGood, ConnsGood
<1>7. PcbsGood' /\ ConnsGood'
  <2>1. pcb' \in [Host -> [Name -> PcbType]]
    BY <1>1, <1>2, <1>4, Zenon DEF PcbsGood, GoodPcb
  <2>2. conn' \in [Host -> [Name -> ConnType]]
    BY <1>1, <1>2, <1>4, Zenon DEF ConnsGood
  <2> QED
    BY <1>1, <1>4, <1>6, <2>1, <2>2, Zenon DEF PcbsGood, ConnsGood
<1>8. OwnInv'
  BY <1>1, <1>4, <1>6, Zenon DEF OwnInv
<1> QED
  BY <1>5, <1>7, <1>8, Zenon DEF ConnInv, TypeInv

----------------------------------------------------------------------------
\* The theorem

\* Before the first call there is nothing to know of.
LEMMA ConnStart == Init => ConnInv
<1> SUFFICES ASSUME Init PROVE ConnInv
  BY Zenon
<1>1. \A h \in Host, n \in Name : pcb[h][n] = FreePcb /\ conn[h][n] = FreeConn
  BY Zenon DEF Init
<1>2. PcbsGood /\ ConnsGood
  BY <1>1, FreeTypes, Zenon DEF Init, PcbsGood, ConnsGood, GoodPcb
<1>3. OwnInv
  BY <1>1, OwnFree, Zenon DEF OwnInv
<1>4. MboxGood
  BY NoMail, Zenon DEF Init, MboxGood
<1>5. NetGood /\ lis \in BOOLEAN
  BY Zenon DEF Init, NetGood
<1>6. made \in [Host -> 0..NConn]
  <2>1. 0 \in 0..NConn
    BY ConnAssumption
  <2> QED
    BY <2>1, Zenon DEF Init
<1> QED
  BY <1>2, <1>3, <1>4, <1>5, <1>6, Zenon DEF ConnInv, TypeInv

\* Every step of both hosts and of the network keeps the invariant.
LEMMA ConnStep == ConnInv /\ [Next]_vars => ConnInv'
<1> SUFFICES ASSUME ConnInv, [Next]_vars PROVE ConnInv'
  BY Zenon
<1>1. CASE UNCHANGED vars
  <2>1. NetGood' /\ MboxGood' /\ lis' \in BOOLEAN
    BY <1>1, Zenon DEF vars, ConnInv, TypeInv, NetGood, MboxGood
  <2> QED
    BY <1>1, <2>1, Elsewhere, Zenon DEF vars
<1>2. CASE Next
  BY <1>2, ActiveStep, TimeWaitStep, QuietSteps, SynStep, SlowStep, ConnectStep, CloseStep,
     ShutdownStep, CloseListenerStep, Zenon DEF Next
<1> QED
  BY <1>1, <1>2, Zenon

\* The types of both hosts' state are invariant, whatever the limits and timers.
THEOREM TypesStay == Spec => []TypeOK
<1>1. ConnInv => TypeOK
  BY Zenon DEF ConnInv, TypeInv, TypeOK, PcbsGood, PcbType, ConnsGood, ConnType, MboxGood,
     NetGood, SegType
<1> QED
  BY <1>1, ConnStart, ConnStep, PTL DEF Spec

\* Whoever frees a pcb, and in whichever order RSTs, time-outs, the allocation of
\* another pcb, close(), shutdown() and the listener's end come: a netconn that was
\* not half closed refers to no freed pcb, and no callback of a pcb leads to a
\* netconn that has gone.  For every number of ports, pcbs, netconns and segments.
THEOREM OwnersKnow == Spec => []OwnerKnows
<1>1. ConnInv => OwnerKnows
  BY Zenon DEF ConnInv, OwnInv, OwnOK, OwnerKnows, Dangles, Live
<1> QED
  BY <1>1, ConnStart, ConnStep, PTL DEF Spec

----------------------------------------------------------------------------
\* Sequence numbers, and who is connected to whom

\* The sequence number pcb n of h sends next once its SYN is out; its FIN adds one.
Base(h, n) == IF h = "client" THEN Iss(n) ELSE Iss(n) + 1
Num(h, n, x) == x = Base(h, n) \/ x = Base(h, n) + 1

\* The states in which the SYN or the FIN is not acknowledged.
Unsettled == {"SYN_SENT", "SYN_RCVD", "FIN_WAIT_1", "CLOSING", "LAST_ACK"}

One(b) == IF b THEN 1 ELSE 0

\* The sequence numbers of pcb n of h, when it is p: what it sent, what is
\* acknowledged, and what it expects of a pcb the other host has allocated.
SeqOK(M, h, n, p) ==
    p.st # "FREE" =>
      /\ n <= M[h]
      /\ p.nxt = Base(h, n) + One(SentFin(p))
      /\ p.lastack = p.nxt - One(p.st \in Unsettled)
      /\ p.st = "SYN_SENT" => h = "client"
      /\ p.st = "SYN_RCVD" => h = "server"
      /\ p.st # "SYN_SENT" =>
           /\ Peer(p) \in 1..M[Other(h)]
           /\ p.rcv = Base(Other(h), Peer(p)) + One(SawFin(p))

\* With the pcbs P: if pcb s of g is still there, it is connected to pcb t of the
\* other host (it has sent its FIN).
Linked(P, g, s, t) == P[g][s].st # "FREE" => P[g][s].st # "SYN_SENT" /\ Peer(P[g][s]) = t
SentEnd(P, g, s) == P[g][s].st # "FREE" => SentFin(P[g][s])

\* p can be pcb n of h: after the handshake its peer is connected to it, and the
\* FIN it saw was its peer's.
Fits(P, M, h, n, p) ==
    /\ SeqOK(M, h, n, p)
    /\ Synced(p) => Linked(P, Other(h), Peer(p), n)
    /\ SawFin(p) => SentEnd(P, Other(h), Peer(p))

\* The segment m comes from pcb s of the other host, and acknowledges pcb t.  A
\* client that acknowledges pcb t has seen its SYN|ACK, so t is connected to it.
From(P, M, m, s, t) ==
    LET g == Other(m.to)
    IN  /\ IF "SYN" \in m.f THEN m.seq = Base(g, s) - 1 ELSE Num(g, s, m.seq)
        /\ "FIN" \in m.f => m.seq = Base(g, s) /\ SentEnd(P, g, s)
        /\ IF "ACK" \in m.f
           THEN /\ t <= M[m.to] /\ Num(m.to, t, m.ack) /\ Linked(P, g, s, t)
                /\ g = "client" => "SYN" \notin m.f /\ Linked(P, "server", t, s)
           ELSE g = "client" /\ "SYN" \in m.f

SegOK(P, M, m) ==
    \/ "RST" \in m.f
    \/ \E s \in 1..M[Other(m.to)], t \in Name : From(P, M, m, s, t)

\* Every pcb fits, and every segment under way, however old, comes from the
\* connection its numbers say.
NumInv ==
    /\ \A h \in Host, n \in Name : Fits(pcb, made, h, n, pcb[h][n])
    /\ \A m \in net : SegOK(pcb, made, m)

\* A sequence number tells which pcb it belongs to.
LEMMA Numbered ==
    ASSUME NEW h \in Host, NEW n \in Name
    PROVE  /\ Base(h, n) \in Nat /\ Base(h, n) > 0 /\ Iss(n) \in Nat
           /\ \A x : Num(h, n, x) => x \div Stride = n
<1>1. n \in Nat /\ n >= 1 /\ Stride \in Nat /\ Stride >= 3
  BY ConnAssumption DEF Name
<1>2. \A a, b \in Nat : a >= 1 /\ b >= 3 => a * b \in Nat /\ a * b >= 1
  OBVIOUS
<1>3. Iss(n) \in Nat /\ Iss(n) >= 1
  BY <1>1, <1>2 DEF Iss
<1>4. \A c \in 0..2 : (Iss(n) + c) \div Stride = n
  BY <1>1 DEF Iss
<1>5. ASSUME NEW x, Num(h, n, x) PROVE x \div Stride = n
  <2>1. \E c \in 0..2 : x = Iss(n) + c
    BY <1>3, <1>5 DEF Num, Base
  <2> QED
    BY <1>4, <2>1, Zenon
<1>6. Base(h, n) \in Nat /\ Base(h, n) > 0
  BY <1>3 DEF Base
<1> QED
  BY <1>3, <1>5, <1>6, Zenon

\* One sequence number belongs to one pcb, and only the one after it is its FIN's.
LEMMA OneNumber ==
    ASSUME NEW h \in Host, NEW n \in Name, NEW k \in Name
    PROVE  /\ \A x : Num(h, n, x) /\ Num(h, k, x) => n = k
           /\ Base(h, n) # Base(h, k) + 1
<1>1. \A x : Num(h, n, x) /\ Num(h, k, x) => n = k
  BY Numbered, Zenon
<1>2. ASSUME Base(h, n) = Base(h, k) + 1 PROVE FALSE
  <2>1. n = k
    BY <1>1, <1>2, Zenon DEF Num
  <2> QED
    BY <1>2, <2>1, Numbered
<1> QED
  BY <1>1, <1>2, Zenon

\* p and q differ in timers, counts and callbacks only.
SameNum(p, q) ==
    /\ q.st = p.st /\ q.port = p.port
    /\ q.nxt = p.nxt /\ q.lastack = p.lastack /\ q.rcv = p.rcv

\* What may become of a pcb: it is freed, or it keeps its peer and its FIN.
Follows(p, q) ==
    q.st # "FREE" =>
      /\ p.st # "FREE"
      /\ p.st # "SYN_SENT" => q.st # "SYN_SENT" /\ Peer(q) = Peer(p)
      /\ SentFin(p) => SentFin(q)

\* The names of pcbs that were allocated are names.
LEMMA Allotted ==
    ASSUME NEW M \in [Host -> 0..NConn], NEW h \in Host
    PROVE  Other(h) \in Host /\ h # Other(h) /\ Other(Other(h)) = h /\ 1..M[h] \subseteq Name
<1>1. M[h] \in 0..NConn
  BY Zenon
<1>2. 1..M[h] \subseteq Name
  BY <1>1, ConnAssumption DEF Name
<1> QED
  BY <1>2 DEF Other, Host

\* Timers, counts and callbacks do not matter.
LEMMA SameFits ==
    ASSUME NEW P, NEW M, NEW h, NEW n, NEW p, NEW q, SameNum(p, q)
    PROVE  /\ Follows(p, q)
           /\ Fits(P, M, h, n, p) => Fits(P, M, h, n, q)
           /\ SentFin(q) = SentFin(p) /\ SawFin(q) = SawFin(p) /\ Synced(q) = Synced(p)
           /\ Peer(q) = Peer(p)
<1>1. /\ SentFin(q) = SentFin(p) /\ SawFin(q) = SawFin(p) /\ Synced(q) = Synced(p)
      /\ Peer(q) = Peer(p)
  BY Zenon DEF SameNum, SentFin, SawFin, Synced, Peer
<1>2. Follows(p, q)
  BY <1>1, Zenon DEF SameNum, Follows
<1>3. SeqOK(M, h, n, p) => SeqOK(M, h, n, q)
  BY <1>1, Zenon DEF SameNum, SeqOK
<1> QED
  BY <1>1, <1>2, <1>3, Zenon DEF Fits

\* A freed pcb fits everywhere.
LEMMA FreeFits ==
    ASSUME NEW P, NEW M, NEW h, NEW n, NEW p
    PROVE  Follows(p, FreePcb) /\ Fits(P, M, h, n, FreePcb) /\ ~Synced(FreePcb)
<1>1. ~Synced(FreePcb) /\ ~SawFin(FreePcb)
  BY FreeTypes, Zenon DEF Synced, SawFin
<1> QED
  BY <1>1, FreeTypes, Zenon DEF Follows, Fits, SeqOK

\* The names in a segment stay right whatever becomes of the pcbs.
LEMMA LinksStay ==
    ASSUME NEW P, NEW Q, NEW g, NEW s, Follows(P[g][s], Q[g][s])
    PROVE  /\ \A t : Linked(P, g, s, t) => Linked(Q, g, s, t)
           /\ SentEnd(P, g, s) => SentEnd(Q, g, s)
  BY Zenon DEF Follows, Linked, SentEnd

\* Pcbs become freed or go on, and new ones may be allocated: those that fitted
\* among the old pcbs P fit among the new ones Q, and so do the old segments.
LEMMA Onward ==
    ASSUME NEW M \in [Host -> 0..NConn], NEW K \in [Host -> 0..NConn],
           \A g \in Host : M[g] <= K[g],
           NEW P, NEW Q,
           \A g \in Host, s \in Name : s <= M[g] => Follows(P[g][s], Q[g][s])
    PROVE  /\ \A h \in Host, n \in Name : \A q : Fits(P, M, h, n, q) => Fits(Q, K, h, n, q)
           /\ \A m \in SegType : SegOK(P, M, m) => SegOK(Q, K, m)
<1>1. ASSUME NEW g \in Host, NEW s \in 1..M[g]
      PROVE  /\ s \in Name /\ s \in 1..K[g]
             /\ \A t : Linked(P, g, s, t) => Linked(Q, g, s, t)
             /\ SentEnd(P, g, s) => SentEnd(Q, g, s)
  <2>1. s \in Name
    BY Allotted, Zenon
  <2>2. M[g] \in Nat /\ K[g] \in Nat /\ M[g] <= K[g]
    BY ConnAssumption
  <2>3. s <= M[g] /\ s \in 1..K[g]
    BY <2>2
  <2> QED
    BY <2>1, <2>3, LinksStay, Zenon
<1>2. ASSUME NEW g \in Host, NEW s \in Name, s <= M[g]
      PROVE  s \in 1..M[g] /\ s <= K[g]
  BY <1>2, ConnAssumption DEF Name
<1>3. ASSUME NEW h \in Host, NEW n \in Name, NEW q, Fits(P, M, h, n, q)
      PROVE  Fits(Q, K, h, n, q)
  <2>1. Other(h) \in Host
    BY Allotted, Zenon
  <2>2. SeqOK(K, h, n, q)
    BY <1>1, <1>2, <1>3, <2>1, Zenon DEF Fits, SeqOK
  <2>3. Synced(q) \/ SawFin(q) => Peer(q) \in 1..M[Other(h)]
    BY <1>3, Zenon DEF Fits, SeqOK, Synced, SawFin
  <2> QED
    BY <1>1, <1>3, <2>1, <2>2, <2>3, Zenon DEF Fits
<1>4. ASSUME NEW m \in SegType, SegOK(P, M, m), "RST" \notin m.f
      PROVE  SegOK(Q, K, m)
  <2> DEFINE g == Other(m.to)
  <2>1. m.to \in Host /\ g \in Host
    BY Allotted, Zenon DEF SegType
  <2>2. PICK s \in 1..M[g], t \in Name : From(P, M, m, s, t)
    BY <1>4, Zenon DEF SegOK
  <2>3. "server" \in Host /\ (g = "client" => m.to = "server")
    BY <2>1 DEF Host, Other
  <2>4. From(Q, K, m, s, t)
    <3>1. IF "SYN" \in m.f THEN m.seq = Base(g, s) - 1 ELSE Num(g, s, m.seq)
      BY <2>2, Zenon DEF From
    <3>2. "FIN" \in m.f => m.seq = Base(g, s) /\ SentEnd(Q, g, s)
      BY <1>1, <2>1, <2>2, Zenon DEF From
    <3>3. CASE "ACK" \in m.f
      <4>1. /\ t <= M[m.to] /\ Num(m.to, t, m.ack) /\ Linked(P, g, s, t)
            /\ g = "client" => "SYN" \notin m.f /\ Linked(P, "server", t, s)
        BY <2>2, <3>3, Zenon DEF From
      <4>2. t \in 1..M[m.to] /\ t <= K[m.to]
        BY <1>2, <2>1, <4>1, Zenon
      <4>3. Linked(Q, g, s, t) /\ (g = "client" => Linked(Q, "server", t, s))
        BY <1>1, <2>1, <2>3, <4>1, <4>2, Zenon
      <4> HIDE DEF g
      <4> QED
        BY <3>1, <3>2, <3>3, <4>1, <4>2, <4>3, Zenon DEF From, g
    <3>4. CASE "ACK" \notin m.f
      BY <2>2, <3>1, <3>2, <3>4, Zenon DEF From
    <3> QED
      BY <3>3, <3>4, Zenon
  <2>5. s \in 1..K[g]
    BY <1>1, <2>1, Zenon
  <2> QED
    BY <2>4, <2>5, Zenon DEF SegOK
<1>5. \A m \in SegType : SegOK(P, M, m) => SegOK(Q, K, m)
  BY <1>4, Zenon DEF SegOK
<1> QED
  BY <1>3, <1>5, Zenon

\* What a pcb sends about itself comes from it.
LEMMA SentOK ==
    ASSUME NEW M \in [Host -> 0..NConn], NEW P, NEW h \in Host, NEW n \in Name, NEW p,
           p.st # "FREE", SameNum(p, P[h][n]), Fits(P, M, h, n, p)
    PROVE  /\ p.st # "SYN_SENT" => SegOK(P, M, EmptyAck(h, p))
           /\ p.st \in Unsettled => SegOK(P, M, Outstanding(h, p))
<1> DEFINE g == Other(h)
           t == Peer(p)
<1>1. g \in Host /\ h # g /\ Other(g) = h /\ 1..M[h] \subseteq Name /\ 1..M[g] \subseteq Name
  BY Allotted, Zenon
<1>2. n \in 1..M[h]
  <2>1. n <= M[h]
    BY Zenon DEF Fits, SeqOK
  <2> QED
    BY <2>1, ConnAssumption DEF Name
<1>3. p.nxt = Base(h, n) + One(SentFin(p)) /\ Base(h, n) \in Nat
  BY Numbered, Zenon DEF Fits, SeqOK
<1>4. Num(h, n, p.nxt)
  BY <1>3 DEF Num, One
<1>5. CASE p.st # "SYN_SENT"
  <2>1. /\ t \in 1..M[g] /\ p.rcv = Base(g, t) + One(SawFin(p))
        /\ h = "client" => p.st # "SYN_RCVD"
    <3>1. "client" # "server"
      OBVIOUS
    <3> QED
      BY <1>5, <3>1, Zenon DEF Fits, SeqOK
  <2>2. t \in Name /\ t <= M[g]
    BY <1>1, <2>1, ConnAssumption DEF Name
  <2>3. Num(g, t, p.rcv)
    <3>1. Base(g, t) \in Nat
      BY <1>1, <2>2, Numbered, Zenon
    <3> QED
      BY <2>1, <3>1 DEF Num, One
  <2>4. Linked(P, h, n, t)
    BY <1>5, SameFits, Zenon DEF Linked, SameNum
  <2>5. h = "client" => Synced(p) /\ Linked(P, g, t, n) /\ g = "server"
    BY <1>5, <2>1, Zenon DEF Synced, Fits, Other
  <2>6. ASSUME NEW m, m.to = g, m.ack = p.rcv, "ACK" \in m.f,
               IF "SYN" \in m.f THEN m.seq = Base(h, n) - 1 /\ p.st = "SYN_RCVD"
                                ELSE Num(h, n, m.seq),
               "FIN" \in m.f => m.seq = Base(h, n) /\ SentFin(p)
        PROVE  SegOK(P, M, m)
    <3>1. "FIN" \in m.f => SentEnd(P, h, n)
      BY <2>6, SameFits, Zenon DEF SentEnd
    <3>2. From(P, M, m, n, t)
      BY <1>1, <2>1, <2>2, <2>3, <2>4, <2>5, <2>6, <3>1 DEF From
    <3> QED
      BY <1>1, <1>2, <2>2, <2>6, <3>2, Zenon DEF SegOK
  <2>7. SegOK(P, M, EmptyAck(h, p))
    <3>1. /\ EmptyAck(h, p).to = g /\ EmptyAck(h, p).ack = p.rcv /\ EmptyAck(h, p).seq = p.nxt
          /\ EmptyAck(h, p).f = {"ACK"}
      BY Zenon DEF EmptyAck, Seg
    <3>2. "SYN" \notin {"ACK"} /\ "FIN" \notin {"ACK"} /\ "ACK" \in {"ACK"}
      OBVIOUS
    <3> QED
      BY <1>4, <2>6, <3>1, <3>2, Zenon
  <2>8. ASSUME p.st \in Unsettled PROVE SegOK(P, M, Outstanding(h, p))
    <3> DEFINE m == Outstanding(h, p)
    <3>1. /\ m.to = g /\ m.ack = p.rcv /\ m.seq = p.nxt - 1
          /\ m.f = IF p.st = "SYN_RCVD" THEN {"SYN", "ACK"} ELSE {"FIN", "ACK"}
      BY <1>5, Zenon DEF Outstanding, Seg
    <3> HIDE DEF m
    <3>2. (p.st = "SYN_RCVD" => ~SentFin(p)) /\ (p.st # "SYN_RCVD" => SentFin(p))
      BY <1>5, <2>8 DEF Unsettled, SentFin
    <3>3. CASE p.st = "SYN_RCVD"
      <4>1. m.seq = Base(h, n) - 1
        BY <1>3, <3>1, <3>2, <3>3 DEF One
      <4>2. "SYN" \in m.f /\ "ACK" \in m.f /\ "FIN" \notin m.f
        BY <3>1, <3>3
      <4> QED
        BY <2>6, <3>1, <3>3, <4>1, <4>2, Zenon DEF m
    <3>4. CASE p.st # "SYN_RCVD"
      <4>1. m.seq = Base(h, n) /\ SentFin(p)
        BY <1>3, <3>1, <3>2, <3>4 DEF One
      <4>2. "SYN" \notin m.f /\ "ACK" \in m.f /\ "FIN" \in m.f
        BY <3>1, <3>4
      <4> QED
        BY <2>6, <3>1, <4>1, <4>2, Zenon DEF m, Num
    <3> QED
      BY <3>3, <3>4, Zenon
  <2> QED
    BY <2>7, <2>8, Zenon
<1>6. CASE p.st = "SYN_SENT"
  <2> DEFINE m == Outstanding(h, p)
  <2>1. m.to = g /\ m.seq = p.nxt - 1 /\ m.f = {"SYN"}
    BY <1>6, Zenon DEF Outstanding, Seg
  <2> HIDE DEF m
  <2>2. ~SentFin(p) /\ h = "client"
    BY <1>6 DEF SentFin, Fits, SeqOK
  <2>3. m.seq = Base(h, n) - 1
    BY <1>3, <2>1, <2>2 DEF One
  <2>4. "SYN" \in m.f /\ "ACK" \notin m.f /\ "FIN" \notin m.f
    BY <2>1
  <2>5. From(P, M, m, n, n)
    BY <1>1, <2>1, <2>2, <2>3, <2>4, Zenon DEF From
  <2> QED
    BY <1>1, <1>2, <1>6, <2>1, <2>5, Zenon DEF SegOK, m
<1> QED
  BY <1>5, <1>6, Zenon

\* A FIN that is next in sequence is the peer's, and the first one.
LEMMA PeerFin ==
    ASSUME NEW M \in [Host -> 0..NConn], NEW P, NEW h \in Host, NEW n \in Name, NEW p,
           p.st \notin {"FREE", "SYN_SENT"}, Fits(P, M, h, n, p),
           NEW m \in SegType, m.to = h, "RST" \notin m.f, SegOK(P, M, m), GotFin(p, m)
    PROVE  ~SawFin(p) /\ SentEnd(P, Other(h), Peer(p)) /\ (p.rcv + 1) \div Stride = Peer(p)
<1> DEFINE g == Other(h)
           t == Peer(p)
<1>1. g \in Host /\ 1..M[g] \subseteq Name
  BY Allotted, Zenon
<1>2. t \in 1..M[g] /\ p.rcv = Base(g, t) + One(SawFin(p)) /\ t \in Name
  BY <1>1, Zenon DEF Fits, SeqOK
<1>3. PICK s \in 1..M[g] : m.seq = Base(g, s) /\ SentEnd(P, g, s)
  BY Zenon DEF SegOK, From, GotFin
<1>4. s \in Name /\ p.rcv = Base(g, s)
  BY <1>1, <1>3, Zenon DEF GotFin
<1>5. Base(g, t) \in Nat /\ Base(g, s) # Base(g, t) + 1
      /\ (Num(g, s, p.rcv) /\ Num(g, t, p.rcv) => s = t)
  BY <1>1, <1>2, <1>4, Numbered, OneNumber, Zenon
<1>6. ~SawFin(p) /\ p.rcv = Base(g, t)
  BY <1>2, <1>4, <1>5 DEF One
<1>7. s = t
  BY <1>4, <1>5, <1>6, Zenon DEF Num
<1>8. (p.rcv + 1) \div Stride = t
  BY <1>1, <1>2, <1>6, Numbered, Zenon DEF Num
<1> QED
  BY <1>3, <1>6, <1>7, <1>8, Zenon

\* What tcp_process() may make of pcb n of h, when tcp_input() does not free it: it
\* fits and follows p, and sends RSTs or what it says of itself.
Advances(P, M, h, n, p, r) ==
    r.then \in {"go on", "connected", "accept"} =>
      /\ Follows(p, r.p) /\ Fits(P, M, h, n, r.p)
      /\ \A x \in r.out : \/ "RST" \in x.f
                          \/ r.p.st # "SYN_SENT" /\ x = EmptyAck(h, r.p)
                          \/ r.p.st \in Unsettled /\ x = Outstanding(h, r.p)

\* What tcp_rst() sends is an RST.
LEMMA RstSent == \A h, m, p : "RST" \in RstFor(h, m).f /\ "RST" \in RstOf(h, p).f
  BY Zenon DEF RstFor, RstOf, Seg

\* The timers and counts of a pcb have no part in its numbers.
LEMMA SameNums ==
    ASSUME NEW p \in PcbType
    PROVE  SameNum(p, p) /\ SameNum(p, Recounted(p)) /\ SameNum(p, Touched(p))
  BY Zenon DEF SameNum, Recounted, Touched, PcbType

\* A pcb that stays as it is, but for timers and counts.
LEMMA Stays ==
    ASSUME NEW P, NEW M, NEW h, NEW n, NEW p, NEW q, Fits(P, M, h, n, p), SameNum(p, q),
           NEW out, NEW then,
           \A x \in out : \/ "RST" \in x.f
                          \/ p.st # "SYN_SENT" /\ x = EmptyAck(h, p)
                          \/ p.st \in Unsettled /\ x = Outstanding(h, p)
    PROVE  Advances(P, M, h, n, p, Outcome(q, out, then))
<1>1. EmptyAck(h, q) = EmptyAck(h, p) /\ Outstanding(h, q) = Outstanding(h, p) /\ q.st = p.st
  BY Zenon DEF SameNum, EmptyAck, Outstanding
<1>2. Follows(p, q) /\ Fits(P, M, h, n, q)
  BY SameFits, Zenon
<1> DEFINE r == Outcome(q, out, then)
<1>3. r.p = q /\ r.out = out
  BY Zenon DEF Outcome
<1> HIDE DEF r
<1>4. Advances(P, M, h, n, p, r)
  BY <1>1, <1>2, <1>3, Zenon DEF Advances
<1> QED
  BY <1>4, Zenon DEF r

\* tcp_process() for an RST.
LEMMA RstAdvance ==
    ASSUME NEW P, NEW M, NEW h, NEW n, NEW p \in PcbType, Fits(P, M, h, n, p), NEW m
    PROVE  Advances(P, M, h, n, p, ProcessRst(h, p, m))
<1>1. \E then \in {"reset", "go on"} :
        \/ ProcessRst(h, p, m) = Outcome(p, {}, then)
        \/ ProcessRst(h, p, m) = Outcome(p, {EmptyAck(h, p)}, then) /\ p.st # "SYN_SENT"
  BY Zenon DEF ProcessRst
<1>2. SameNum(p, p)
  BY SameNums, Zenon
<1>3. \A then : Advances(P, M, h, n, p, Outcome(p, {}, then))
  BY <1>2, Stays, Zenon
<1>4. \A then : p.st # "SYN_SENT" =>
        Advances(P, M, h, n, p, Outcome(p, {EmptyAck(h, p)}, then))
  BY <1>2, Stays, Zenon
<1> QED
  BY <1>1, <1>3, <1>4, Zenon

\* tcp_process() in SYN_SENT: the SYN|ACK that acknowledges this SYN is from a pcb
\* that is connected to this one.
LEMMA SynSentAdvance ==
    ASSUME NEW M \in [Host -> 0..NConn], NEW P, NEW h \in Host, NEW n \in Name,
           NEW p \in PcbType, p.st = "SYN_SENT", Fits(P, M, h, n, p),
           NEW m \in SegType, m.to = h, "RST" \notin m.f, SegOK(P, M, m)
    PROVE  Advances(P, M, h, n, p, ProcessSynSent(h, p, m))
<1> DEFINE g == Other(h)
           q == [p EXCEPT !.st = "ESTABLISHED", !.rcv = m.seq + 1, !.lastack = m.ack]
<1>1. CASE {"SYN", "ACK"} \subseteq m.f /\ m.ack = p.lastack + 1
  <2>1. ProcessSynSent(h, p, m) = Outcome(q, {EmptyAck(h, q)}, "connected")
    BY <1>1, Zenon DEF ProcessSynSent
  <2>2. q.st = "ESTABLISHED" /\ q.rcv = m.seq + 1 /\ q.lastack = m.ack /\ q.nxt = p.nxt
    BY Zenon DEF PcbType
  <2>3. g \in Host /\ 1..M[g] \subseteq Name
    BY Allotted, Zenon
  <2>4. /\ n <= M[h] /\ p.nxt = Base(h, n) + One(SentFin(p))
        /\ p.lastack = p.nxt - One(p.st \in Unsettled)
    BY Zenon DEF Fits, SeqOK
  <2>5. ~SentFin(p) /\ p.st \in Unsettled
    BY DEF SentFin, Unsettled
  <2>6. PICK s \in 1..M[g], t \in Name : From(P, M, m, s, t)
    BY Zenon DEF SegOK
  <2>7. m.seq = Base(g, s) - 1 /\ Num(h, t, m.ack) /\ Linked(P, g, s, t)
    BY <1>1, <2>6, Zenon DEF From
  <2>8. s \in Name /\ Base(g, s) \in Nat /\ Base(h, n) \in Nat
    BY <2>3, Numbered, Zenon
  <2>9. q.nxt = Base(h, n) /\ m.ack = Base(h, n) /\ q.rcv = Base(g, s)
    BY <1>1, <2>2, <2>4, <2>5, <2>7, <2>8 DEF One
  <2>10. t = n
    BY <2>7, <2>9, OneNumber, Zenon DEF Num
  <2>11. Peer(q) = s
    BY <2>3, <2>8, <2>9, Numbered, Zenon DEF Num, Peer
  <2>12. /\ ~SentFin(q) /\ ~SawFin(q) /\ q.st \notin Unsettled
         /\ q.st # "FREE" /\ q.st # "SYN_SENT" /\ q.st # "SYN_RCVD"
    BY <2>2 DEF SentFin, SawFin, Unsettled
  <2> HIDE DEF q
  <2>13. q.nxt = Base(h, n) + One(SentFin(q)) /\ q.lastack = q.nxt - One(q.st \in Unsettled)
         /\ q.rcv = Base(g, s) + One(SawFin(q))
    BY <2>2, <2>8, <2>9, <2>12 DEF One
  <2>14. Fits(P, M, h, n, q)
    BY <2>4, <2>7, <2>10, <2>11, <2>12, <2>13, Zenon DEF Fits, SeqOK
  <2>15. Follows(p, q)
    BY <2>5, <2>12, Zenon DEF Follows
  <2> DEFINE r == Outcome(q, {EmptyAck(h, q)}, "connected")
  <2>16. r.p = q /\ r.out = {EmptyAck(h, q)}
    BY Zenon DEF Outcome
  <2> HIDE DEF r
  <2>17. Advances(P, M, h, n, p, r)
    BY <2>12, <2>14, <2>15, <2>16, Zenon DEF Advances
  <2> QED
    BY <2>1, <2>17, Zenon DEF r
<1>2. CASE ~({"SYN", "ACK"} \subseteq m.f /\ m.ack = p.lastack + 1)
  <2>1. p.st \in Unsettled
    BY Zenon DEF Unsettled
  <2>2. ProcessSynSent(h, p, m)
          \in {Outcome(p, {}, "go on"), Outcome(p, {RstFor(h, m)}, "go on"),
               Outcome(Recounted(p), {RstFor(h, m), Outstanding(h, p)}, "go on")}
    BY <1>2, Zenon DEF ProcessSynSent
  <2>3. SameNum(p, p) /\ SameNum(p, Recounted(p)) /\ "RST" \in RstFor(h, m).f
    BY SameNums, RstSent, Zenon
  <2>4. \A x \in {RstFor(h, m), Outstanding(h, p)} :
           "RST" \in x.f \/ (p.st \in Unsettled /\ x = Outstanding(h, p))
    BY <2>1, <2>3, Zenon
  <2>5. /\ Advances(P, M, h, n, p, Outcome(p, {}, "go on"))
        /\ Advances(P, M, h, n, p, Outcome(p, {RstFor(h, m)}, "go on"))
    BY <2>3, Stays, Zenon
  <2>6. Advances(P, M, h, n, p,
                 Outcome(Recounted(p), {RstFor(h, m), Outstanding(h, p)}, "go on"))
    BY <2>3, <2>4, Stays, Zenon
  <2> QED
    BY <2>2, <2>5, <2>6, Zenon
<1> QED
  BY <1>1, <1>2, Zenon

\* tcp_receive() acknowledges the SYN or the FIN, if it is the one that is
\* missing, and counts the FIN that is next in sequence.
LEMMA ReceivedNums ==
    ASSUME NEW p \in PcbType, p.lastack = p.nxt - One(p.st \in Unsettled), NEW m \in SegType,
           NEW q, q = Received(p, m)
    PROVE  /\ q.nxt = p.nxt
           /\ q.rcv = p.rcv + One(GotFin(p, m))
           /\ q.lastack = p.nxt - One(p.st \in Unsettled /\ ~AcksAll(p, m))
<1> DEFINE e == IF "ACK" \in m.f /\ m.ack \in p.lastack + 1 .. p.nxt
                THEN [p EXCEPT !.lastack = m.ack, !.nrtx = 0] ELSE p
<1>1. p.nxt \in Nat /\ p.rcv \in Nat /\ m.ack \in Nat
  BY Zenon DEF PcbType, SegType
<1>2. q = IF GotFin(p, m) THEN [e EXCEPT !.rcv = @ + 1] ELSE e
  BY Zenon DEF Received
<1>3. /\ e.nxt = p.nxt /\ e.rcv = p.rcv
      /\ e.lastack = IF "ACK" \in m.f /\ m.ack \in p.lastack + 1 .. p.nxt
                     THEN m.ack ELSE p.lastack
      /\ [e EXCEPT !.rcv = @ + 1].nxt = e.nxt /\ [e EXCEPT !.rcv = @ + 1].lastack = e.lastack
      /\ [e EXCEPT !.rcv = @ + 1].rcv = e.rcv + 1
  BY Zenon DEF PcbType
<1> HIDE DEF e
<1>4. /\ q.nxt = p.nxt /\ q.lastack = e.lastack
      /\ q.rcv = IF GotFin(p, m) THEN p.rcv + 1 ELSE p.rcv
  BY <1>2, <1>3, Zenon
<1>5. q.rcv = p.rcv + One(GotFin(p, m))
  BY <1>1, <1>4 DEF One
<1>6. q.lastack = p.nxt - One(p.st \in Unsettled /\ ~AcksAll(p, m))
  <2>1. CASE p.st \in Unsettled
    <3>1. m.ack \in p.lastack + 1 .. p.nxt <=> m.ack = p.nxt
      BY <1>1, <2>1 DEF One
    <3> QED
      BY <1>1, <1>3, <1>4, <2>1, <3>1 DEF One, AcksAll
  <2>2. CASE p.st \notin Unsettled
    <3>1. p.lastack = p.nxt /\ m.ack \notin p.lastack + 1 .. p.nxt
      BY <1>1, <2>2 DEF One
    <3> QED
      BY <1>1, <1>3, <1>4, <2>2, <3>1 DEF One
  <2> QED
    BY <2>1, <2>2, Zenon
<1> QED
  BY <1>4, <1>5, <1>6, Zenon

\* A pcb that has received the segment m, in the state that goes with it.
LEMMA Moved ==
    ASSUME NEW M \in [Host -> 0..NConn], NEW P, NEW h \in Host, NEW n \in Name, NEW p,
           p.st \notin {"FREE", "SYN_SENT"}, Fits(P, M, h, n, p),
           NEW m \in SegType, m.to = h, "RST" \notin m.f, SegOK(P, M, m),
           Linked(P, Other(h), Peer(p), n),
           NEW q, q.st \notin {"FREE", "SYN_SENT", "SYN_RCVD"},
           q.nxt = p.nxt, q.rcv = p.rcv + One(GotFin(p, m)),
           q.lastack = q.nxt - One(q.st \in Unsettled),
           SentFin(q) <=> SentFin(p), SawFin(q) <=> SawFin(p) \/ GotFin(p, m)
    PROVE  Follows(p, q) /\ Fits(P, M, h, n, q)
<1> DEFINE g == Other(h)
           t == Peer(p)
<1>1. /\ n <= M[h] /\ p.nxt = Base(h, n) + One(SentFin(p)) /\ t \in 1..M[g]
      /\ p.rcv = Base(g, t) + One(SawFin(p))
      /\ SawFin(p) => SentEnd(P, g, t)
  BY Zenon DEF Fits, SeqOK
<1>2. g \in Host /\ t \in Name
  BY <1>1, Allotted, Zenon
<1>3. Base(g, t) \in Nat /\ Base(h, n) \in Nat
  BY <1>2, Numbered, Zenon
<1>4. /\ GotFin(p, m) => ~SawFin(p) /\ SentEnd(P, g, t) /\ (p.rcv + 1) \div Stride = t
  BY PeerFin, Zenon
<1>5. q.nxt = Base(h, n) + One(SentFin(q))
  BY <1>1 DEF One
<1>6. q.rcv = Base(g, t) + One(SawFin(q))
  BY <1>1, <1>3, <1>4 DEF One
<1>7. Peer(q) = t
  <2>1. Num(g, t, q.rcv)
    BY <1>3, <1>6 DEF Num, One
  <2> QED
    BY <1>2, <2>1, Numbered, Zenon DEF Peer
<1>8. SawFin(q) => SentEnd(P, g, t)
  BY <1>1, <1>4, Zenon
<1> HIDE DEF t
<1>9. SeqOK(M, h, n, q)
  BY <1>1, <1>5, <1>6, <1>7, Zenon DEF SeqOK
<1>10. Follows(p, q)
  BY <1>7, Zenon DEF Follows, t
<1> QED
  BY <1>7, <1>8, <1>9, <1>10, Zenon DEF Fits, t

\* tcp_process() in SYN_RCVD: the ACK of this SYN|ACK is from the peer, and the
\* peer has accepted the SYN|ACK.
LEMMA SynRcvdAdvance ==
    ASSUME NEW M \in [Host -> 0..NConn], NEW P, NEW h \in Host, NEW n \in Name,
           NEW p, GoodPcb(p), p.st = "SYN_RCVD", Fits(P, M, h, n, p), SameNum(p, P[h][n]),
           NEW m \in SegType, m.to = h, "RST" \notin m.f, SegOK(P, M, m)
    PROVE  Advances(P, M, h, n, p, ProcessSynRcvd(h, p, m))
<1> DEFINE g == Other(h)
           to == IF GotFin(p, m) THEN "CLOSE_WAIT" ELSE "ESTABLISHED"
           e == Received(p, m)
           q == [e EXCEPT !.st = to]
<1>1. p.st \in Unsettled /\ ~SentFin(p) /\ ~SawFin(p) /\ p.st # "FREE" /\ p.st # "SYN_SENT"
  BY DEF Unsettled, SentFin, SawFin
<1>p. p \in PcbType
  BY Zenon DEF GoodPcb
<1>2. CASE "SYN" \notin m.f /\ m.ack \in p.lastack + 1 .. p.nxt
  <2>1. ProcessSynRcvd(h, p, m)
          = Outcome(q, IF Answers(p, m) THEN {EmptyAck(h, q)} ELSE {}, "accept")
    BY <1>2, Zenon DEF ProcessSynRcvd
  <2>2. /\ p.nxt = Base(h, n) + One(SentFin(p)) /\ p.lastack = p.nxt - One(p.st \in Unsettled)
        /\ h = "server" /\ g = "client" /\ Peer(p) \in 1..M[g]
    BY <1>1, Zenon DEF Fits, SeqOK, Other
  <2>3. PICK s \in 1..M[g], t \in Name : From(P, M, m, s, t)
    BY Zenon DEF SegOK
  <2>4. /\ "ACK" \in m.f /\ Num(h, t, m.ack) /\ Linked(P, g, s, t) /\ Linked(P, "server", t, s)
    BY <1>2, <2>2, <2>3, Zenon DEF From
  <2>5. Base(h, n) \in Nat /\ m.ack \in Nat
    BY Numbered, Zenon DEF SegType
  <2>6. m.ack = Base(h, n) /\ m.ack = p.nxt
    BY <1>1, <1>2, <2>2, <2>5 DEF One
  <2>7. t = n
    BY <2>4, <2>6, OneNumber, Zenon DEF Num
  <2>8. Peer(p) = s
    BY <1>1, <2>2, <2>4, <2>7, SameFits, Zenon DEF Linked, SameNum
  <2>9. Linked(P, g, Peer(p), n)
    BY <2>4, <2>7, <2>8, Zenon
  <2>10. AcksAll(p, m)
    BY <2>4, <2>6, Zenon DEF AcksAll
  <2>11. /\ e.nxt = p.nxt /\ e.rcv = p.rcv + One(GotFin(p, m))
         /\ e.lastack = p.nxt - One(p.st \in Unsettled /\ ~AcksAll(p, m))
    BY <1>p, <2>2, ReceivedNums, Zenon
  <2>12. e \in PcbType
    BY SmallChanges, Zenon DEF Like, GoodPcb
  <2> HIDE DEF e, to
  <2>13. q.st = to /\ q.nxt = e.nxt /\ q.rcv = e.rcv /\ q.lastack = e.lastack
    BY <2>12, Zenon DEF PcbType
  <2>14. /\ q.st \notin {"FREE", "SYN_SENT", "SYN_RCVD"} /\ q.st \notin Unsettled
         /\ ~SentFin(q) /\ (SawFin(q) <=> GotFin(p, m))
    BY <2>13 DEF to, SentFin, SawFin, Unsettled
  <2> HIDE DEF q
  <2>15. q.lastack = q.nxt - One(q.st \in Unsettled)
    BY <2>10, <2>11, <2>13, <2>14 DEF One
  <2>16. Follows(p, q) /\ Fits(P, M, h, n, q)
    BY <1>1, <2>9, <2>11, <2>13, <2>14, <2>15, Moved, Zenon
  <2> DEFINE r == Outcome(q, IF Answers(p, m) THEN {EmptyAck(h, q)} ELSE {}, "accept")
  <2>17. r.p = q /\ r.out \subseteq {EmptyAck(h, q)}
    BY Zenon DEF Outcome
  <2> HIDE DEF r
  <2>18. Advances(P, M, h, n, p, r)
    BY <2>14, <2>16, <2>17, Zenon DEF Advances
  <2> QED
    BY <2>1, <2>18, Zenon DEF r
<1>3. CASE ~("SYN" \notin m.f /\ m.ack \in p.lastack + 1 .. p.nxt)
  <2>1. ProcessSynRcvd(h, p, m)
          \in {Outcome(Recounted(p), {Outstanding(h, p)}, "go on"), Outcome(p, {}, "go on"),
               Outcome(p, {RstFor(h, m)}, "go on")}
    BY <1>3, Zenon DEF ProcessSynRcvd
  <2>2. SameNum(p, p) /\ SameNum(p, Recounted(p)) /\ "RST" \in RstFor(h, m).f
    BY <1>p, SameNums, RstSent, Zenon
  <2>3. /\ Advances(P, M, h, n, p, Outcome(p, {}, "go on"))
        /\ Advances(P, M, h, n, p, Outcome(p, {RstFor(h, m)}, "go on"))
    BY <2>2, Stays, Zenon
  <2>4. Advances(P, M, h, n, p, Outcome(Recounted(p), {Outstanding(h, p)}, "go on"))
    BY <1>1, <2>2, Stays, Zenon
  <2> QED
    BY <2>1, <2>3, <2>4, Zenon
<1> QED
  BY <1>2, <1>3, Zenon

\* The state a segment leads to goes with what it acknowledges and whether it
\* ends the stream.
LEMMA NextStates ==
    ASSUME NEW p, p.st \in Active \ {"SYN_SENT", "SYN_RCVD"}, NEW m,
           GotFin(p, m) => ~SawFin(p), ~(p.st = "LAST_ACK" /\ AcksAll(p, m)),
           NEW q, q.st = NextState(p, m)
    PROVE  /\ q.st \notin {"FREE", "SYN_SENT", "SYN_RCVD"}
           /\ SentFin(q) <=> SentFin(p)
           /\ SawFin(q) <=> SawFin(p) \/ GotFin(p, m)
           /\ q.st # "TIME_WAIT" => (q.st \in Unsettled <=> p.st \in Unsettled /\ ~AcksAll(p, m))
<1>1. p.st \in {"ESTABLISHED", "FIN_WAIT_1", "FIN_WAIT_2", "CLOSE_WAIT", "CLOSING", "LAST_ACK"}
  BY Zenon DEF Active
<1>2. CASE p.st \in {"ESTABLISHED", "CLOSE_WAIT"}
  BY <1>2 DEF NextState, SentFin, SawFin, Unsettled
<1>3. CASE p.st \in {"FIN_WAIT_1", "FIN_WAIT_2"}
  BY <1>3 DEF NextState, SentFin, SawFin, Unsettled
<1>4. CASE p.st \in {"CLOSING", "LAST_ACK"}
  BY <1>4 DEF NextState, SentFin, SawFin, Unsettled
<1> QED
  BY <1>1, <1>2, <1>3, <1>4, Zenon

\* tcp_process() in the states after the handshake.
LEMMA SyncedAdvance ==
    ASSUME NEW M \in [Host -> 0..NConn], NEW P, NEW h \in Host, NEW n \in Name,
           NEW p, GoodPcb(p), p.st \in Active \ {"SYN_SENT", "SYN_RCVD"}, Fits(P, M, h, n, p),
           NEW m \in SegType, m.to = h, "RST" \notin m.f, SegOK(P, M, m)
    PROVE  Advances(P, M, h, n, p, ProcessSynced(h, p, m))
<1> DEFINE to == NextState(p, m)
           e == Received(p, m)
           q == [e EXCEPT !.st = to]
           k == IF q.st = "TIME_WAIT" THEN [q EXCEPT !.lastack = q.nxt, !.nrtx = 0] ELSE q
           out == IF Answers(p, m) THEN {EmptyAck(h, k)} ELSE {}
           then == IF p.st = "LAST_ACK" /\ AcksAll(p, m) THEN "closed" ELSE "go on"
           r == Outcome(k, out, then)
<1>1. ProcessSynced(h, p, m) = r
  BY Zenon DEF ProcessSynced
<1>2. /\ p \in PcbType /\ p.st \notin {"FREE", "SYN_SENT"} /\ Synced(p)
      /\ p.nxt \in Nat /\ p.lastack = p.nxt - One(p.st \in Unsettled)
      /\ Linked(P, Other(h), Peer(p), n)
  <2>1. p \in PcbType /\ p.st \notin {"FREE", "SYN_SENT", "SYN_RCVD"} /\ p.nxt \in Nat
    BY Zenon DEF GoodPcb, PcbType, Active
  <2> QED
    BY <2>1, Zenon DEF Synced, Fits, SeqOK
<1>3. /\ e.nxt = p.nxt /\ e.rcv = p.rcv + One(GotFin(p, m))
      /\ e.lastack = p.nxt - One(p.st \in Unsettled /\ ~AcksAll(p, m))
  BY <1>2, ReceivedNums, Zenon
<1>4. e \in PcbType
  BY SmallChanges, Zenon DEF Like, GoodPcb
<1>5. r.p = k /\ r.out \subseteq {EmptyAck(h, k)} /\ r.then = then
  BY Zenon DEF Outcome
<1> HIDE DEF e, to, then
<1>6. q.st = to /\ q.nxt = e.nxt /\ q.rcv = e.rcv /\ q.lastack = e.lastack
  BY <1>4, Zenon DEF PcbType
<1>7. [q EXCEPT !.lastack = q.nxt, !.nrtx = 0].lastack = q.nxt
      /\ [q EXCEPT !.lastack = q.nxt, !.nrtx = 0].st = q.st
      /\ [q EXCEPT !.lastack = q.nxt, !.nrtx = 0].nxt = q.nxt
      /\ [q EXCEPT !.lastack = q.nxt, !.nrtx = 0].rcv = q.rcv
  BY <1>4, Zenon DEF PcbType
<1>8. /\ k.st = to /\ k.nxt = p.nxt /\ k.rcv = p.rcv + One(GotFin(p, m))
      /\ k.lastack = IF k.st = "TIME_WAIT" THEN k.nxt ELSE e.lastack
  BY <1>3, <1>6, <1>7, Zenon
<1> HIDE DEF k, r
<1>9. CASE ~(p.st = "LAST_ACK" /\ AcksAll(p, m))
  <2>1. GotFin(p, m) => ~SawFin(p)
    BY <1>2, PeerFin, Zenon
  <2>2. /\ k.st \notin {"FREE", "SYN_SENT", "SYN_RCVD"}
        /\ SentFin(k) <=> SentFin(p)
        /\ SawFin(k) <=> SawFin(p) \/ GotFin(p, m)
        /\ k.st # "TIME_WAIT" => (k.st \in Unsettled <=> p.st \in Unsettled /\ ~AcksAll(p, m))
    BY <1>8, <1>9, <2>1, NextStates, Zenon DEF to
  <2>3. k.lastack = k.nxt - One(k.st \in Unsettled)
    <3>1. CASE k.st = "TIME_WAIT"
      <4>1. k.st \notin Unsettled
        BY <3>1 DEF Unsettled
      <4> QED
        BY <1>2, <1>8, <3>1, <4>1 DEF One
    <3>2. CASE k.st # "TIME_WAIT"
      BY <1>2, <1>3, <1>8, <2>2, <3>2 DEF One
    <3> QED
      BY <3>1, <3>2, Zenon
  <2>4. Follows(p, k) /\ Fits(P, M, h, n, k)
    BY <1>2, <1>8, <2>2, <2>3, Moved, Zenon
  <2>5. Advances(P, M, h, n, p, r)
    BY <1>5, <2>2, <2>4, Zenon DEF Advances
  <2> QED
    BY <1>1, <2>5, Zenon
<1>10. CASE p.st = "LAST_ACK" /\ AcksAll(p, m)
  <2>1. r.then \notin {"go on", "connected", "accept"}
    BY <1>5, <1>10 DEF then
  <2> QED
    BY <1>1, <2>1, Zenon DEF Advances
<1> QED
  BY <1>9, <1>10, Zenon

\* tcp_process() keeps the pcb's numbers, and its connection.
LEMMA ProcessAdvance ==
    ASSUME NEW M \in [Host -> 0..NConn], NEW P, NEW h \in Host, NEW n \in Name,
           NEW p, p = P[h][n], GoodPcb(p), p.st \in Active, Fits(P, M, h, n, p),
           NEW m \in SegType, m.to = h, SegOK(P, M, m)
    PROVE  Advances(P, M, h, n, p, Process(h, p, m))
<1> DEFINE q == Touched(p)
<1>1. p \in PcbType
  BY Zenon DEF GoodPcb
<1>2. SameNum(p, p) /\ SameNum(p, q) /\ GoodPcb(q)
  BY <1>1, SameNums, SmallChanges, Zenon DEF Like
<1> HIDE DEF q
<1>3. /\ q.st = p.st /\ q \in PcbType /\ Fits(P, M, h, n, q) /\ SameNum(q, P[h][n])
      /\ SentFin(q) = SentFin(p) /\ Peer(q) = Peer(p)
  BY <1>2, SameFits, Zenon DEF SameNum, GoodPcb
<1>4. \A r : Advances(P, M, h, n, q, r) => Advances(P, M, h, n, p, r)
  BY <1>3, Zenon DEF Advances, Follows
<1>5. CASE "RST" \in m.f
  BY <1>1, <1>5, RstAdvance, Zenon DEF Process
<1>6. CASE "RST" \notin m.f /\ "SYN" \in m.f /\ p.st \notin {"SYN_SENT", "SYN_RCVD"}
  <2>1. Process(h, p, m) = Outcome(p, {EmptyAck(h, p)}, "go on")
    BY <1>6, Zenon DEF Process
  <2>2. \A x \in {EmptyAck(h, p)} : p.st # "SYN_SENT" /\ x = EmptyAck(h, p)
    BY <1>6, Zenon
  <2>3. Advances(P, M, h, n, p, Outcome(p, {EmptyAck(h, p)}, "go on"))
    BY <1>2, <2>2, Stays, Zenon
  <2> QED
    BY <2>1, <2>3, Zenon
<1>7. CASE "RST" \notin m.f /\ ~("SYN" \in m.f /\ p.st \notin {"SYN_SENT", "SYN_RCVD"})
  <2>1. CASE p.st = "SYN_SENT"
    <3>1. Process(h, p, m) = ProcessSynSent(h, q, m)
      BY <1>7, <2>1, Zenon DEF Process, q
    <3> QED
      BY <1>3, <1>4, <1>7, <2>1, <3>1, SynSentAdvance, Zenon
  <2>2. CASE p.st = "SYN_RCVD"
    <3>1. Process(h, p, m) = ProcessSynRcvd(h, q, m)
      BY <1>7, <2>2, Zenon DEF Process, q
    <3> QED
      BY <1>2, <1>3, <1>4, <1>7, <2>2, <3>1, SynRcvdAdvance, Zenon
  <2>3. CASE p.st \notin {"SYN_SENT", "SYN_RCVD"}
    <3>1. Process(h, p, m) = ProcessSynced(h, q, m)
      BY <1>7, <2>3, Zenon DEF Process, q
    <3> QED
      BY <1>2, <1>3, <1>4, <1>7, <2>3, <3>1, SyncedAdvance, Zenon
  <2> QED
    BY <2>1, <2>2, <2>3, Zenon
<1> QED
  BY <1>5, <1>6, <1>7, Zenon

\* What is under way after a step was under way before, or was sent.
LEMMA UnderWay == \A S, out : Transmit(S, out) => net' \subseteq net \cup out
  BY Zenon DEF Transmit

\* Pcbs are freed or go on, in a step that allocates none.
LEMMA Goes ==
    ASSUME ConnInv, NumInv, made' = made,
           \A g \in Host, s \in Name : /\ Follows(pcb[g][s], pcb'[g][s])
                                       /\ Fits(pcb, made, g, s, pcb'[g][s]),
           \A m \in net' : \/ m \in net
                           \/ m \in SegType /\ SegOK(pcb, made, m)
                           \/ SegOK(pcb', made, m)
    PROVE  NumInv'
<1>1. made \in [Host -> 0..NConn] /\ net \subseteq SegType
  BY Zenon DEF ConnInv, TypeInv, NetGood
<1>2. \A g \in Host : made[g] <= made[g]
  BY <1>1, ConnAssumption
<1>3. /\ \A h \in Host, n \in Name : \A q :
           Fits(pcb, made, h, n, q) => Fits(pcb', made, h, n, q)
      /\ \A m \in SegType : SegOK(pcb, made, m) => SegOK(pcb', made, m)
  BY <1>1, <1>2, Onward, Zenon
<1>4. \A m \in net : SegOK(pcb, made, m)
  BY Zenon DEF NumInv
<1>5. \A m \in net' : SegOK(pcb', made, m)
  BY <1>1, <1>3, <1>4, Zenon
<1> QED
  BY <1>3, <1>5, Zenon DEF NumInv

\* Pcbs are freed, or only their timers, counts and callbacks change.
LEMMA Rests ==
    ASSUME ConnInv, NumInv, made' = made,
           \A g \in Host, s \in Name : pcb'[g][s] = FreePcb \/ SameNum(pcb[g][s], pcb'[g][s]),
           \A m \in net' : \/ m \in net \/ "RST" \in m.f
                           \/ m \in SegType /\ SegOK(pcb, made, m)
    PROVE  NumInv'
<1>1. ASSUME NEW g \in Host, NEW s \in Name
      PROVE  Follows(pcb[g][s], pcb'[g][s]) /\ Fits(pcb, made, g, s, pcb'[g][s])
  <2>1. CASE pcb'[g][s] = FreePcb
    BY <2>1, FreeFits, Zenon
  <2>2. CASE SameNum(pcb[g][s], pcb'[g][s])
    <3>1. Fits(pcb, made, g, s, pcb[g][s])
      BY Zenon DEF NumInv
    <3> QED
      BY <2>2, <3>1, SameFits, Zenon
  <2> QED
    BY <2>1, <2>2, Zenon
<1>2. \A m : "RST" \in m.f => SegOK(pcb', made, m)
  BY Zenon DEF SegOK
<1> QED
  BY <1>1, <1>2, Goes, Zenon

\* The pcb n of h becomes q, and the others stay.
LEMMA OneGoes ==
    ASSUME ConnInv, NumInv, made' = made, NEW h \in Host, NEW n \in Name, NEW q,
           GoodPcb(q), SetPcb(h, n, q), Follows(pcb[h][n], q), Fits(pcb, made, h, n, q),
           \A m \in net' :
             \/ m \in net \/ "RST" \in m.f
             \/ q.st \notin {"FREE", "SYN_SENT"} /\ m = EmptyAck(h, q)
             \/ q.st \in Unsettled /\ m = Outstanding(h, q)
    PROVE  NumInv'
<1>1. PcbsGood /\ \A g \in Host, s \in Name : pcb[g][s] \in PcbType
  BY EachGood, Zenon DEF GoodPcb
<1>2. \A g \in Host, s \in Name : pcb'[g][s] = IF g = h /\ s = n THEN q ELSE pcb[g][s]
  BY <1>1, PcbSet
<1>3. ASSUME NEW g \in Host, NEW s \in Name
      PROVE  Follows(pcb[g][s], pcb'[g][s]) /\ Fits(pcb, made, g, s, pcb'[g][s])
  <2>1. CASE g = h /\ s = n
    BY <1>2, <2>1, Zenon
  <2>2. CASE ~(g = h /\ s = n)
    <3>1. pcb'[g][s] = pcb[g][s]
      BY <1>2, <2>2, Zenon
    <3>2. SameNum(pcb[g][s], pcb[g][s])
      BY <1>1, SameNums, Zenon
    <3> QED
      BY <3>1, <3>2, SameFits, Zenon DEF NumInv
  <2> QED
    BY <2>1, <2>2, Zenon
<1>4. made \in [Host -> 0..NConn] /\ \A g \in Host : made[g] <= made[g]
  BY ConnAssumption DEF ConnInv, TypeInv
<1>5. Fits(pcb', made, h, n, q)
  BY <1>3, <1>4, Onward, Zenon
<1>6. q = pcb'[h][n] /\ SameNum(q, pcb'[h][n])
  <2>1. q = pcb'[h][n] /\ q \in PcbType
    BY <1>2, Zenon DEF GoodPcb
  <2> QED
    BY <2>1, SameNums, Zenon
<1>7. /\ q.st \notin {"FREE", "SYN_SENT"} => SegOK(pcb', made, EmptyAck(h, q))
      /\ q.st \in Unsettled => SegOK(pcb', made, Outstanding(h, q))
  <2>1. q.st \in Unsettled => q.st # "FREE"
    BY DEF Unsettled
  <2> QED
    BY <1>4, <1>5, <1>6, <2>1, SentOK, Zenon
<1>8. \A m \in net' : m \in net \/ SegOK(pcb', made, m)
  BY <1>7, Zenon DEF SegOK
<1> QED
  BY <1>3, <1>8, Goes, Zenon

\* tcp_input() for an active pcb.
LEMMA ActiveSame ==
    ASSUME ConnInv, NumInv, NEW h \in Host, NEW n \in Name, NEW m \in net,
           InputActive(h, n, m)
    PROVE  NumInv'
<1> DEFINE p == pcb[h][n]
           r == Process(h, p, m)
<1>1. /\ GoodPcb(p) /\ p \in PcbType /\ m \in SegType /\ PcbsGood /\ ConnsGood
      /\ made \in [Host -> 0..NConn]
  BY EachGood, Zenon DEF NetGood, GoodPcb, ConnInv, TypeInv
<1>2. p.st \in Active /\ m.to = h /\ made' = made
  BY Zenon DEF InputActive, On
<1>3. Fits(pcb, made, h, n, p) /\ SegOK(pcb, made, m)
  BY Zenon DEF NumInv
<1>4. ResultOK(p, r) /\ Advances(pcb, made, h, n, p, r)
  BY <1>1, <1>2, <1>3, Processed, ProcessAdvance, Zenon
<1>5. \/ InputGoesOn(h, n, m, r) \/ InputReset(h, n, m, r) \/ InputClosed(h, n, m, r)
      \/ InputAccepted(h, n, m, r) \/ InputNotAccepted(h, n, m, r)
  BY Zenon DEF InputActive
<1> HIDE DEF r
<1>6. GoodPcb(r.p) /\ r.p \in PcbType /\ r.p.st # "FREE"
  BY <1>4, Zenon DEF ResultOK, GoodPcb
<1>7. ASSUME r.then \in {"go on", "connected", "accept"}, NEW q, GoodPcb(q), SameNum(r.p, q),
             SetPcb(h, n, q), Transmit({m}, r.out)
      PROVE  NumInv'
  <2>1. Follows(p, r.p) /\ Fits(pcb, made, h, n, r.p)
    BY <1>4, <1>7, Zenon DEF Advances
  <2>2. Follows(p, q) /\ Fits(pcb, made, h, n, q)
    BY <1>7, <2>1, SameFits, Zenon DEF Follows, SameNum
  <2>3. EmptyAck(h, q) = EmptyAck(h, r.p) /\ Outstanding(h, q) = Outstanding(h, r.p)
        /\ q.st = r.p.st
    BY <1>7, Zenon DEF SameNum, EmptyAck, Outstanding
  <2>4. net' \subseteq net \cup r.out
    BY <1>7, UnderWay, Zenon
  <2>5. ASSUME NEW x \in net'
        PROVE  \/ x \in net \/ "RST" \in x.f
               \/ q.st \notin {"FREE", "SYN_SENT"} /\ x = EmptyAck(h, q)
               \/ q.st \in Unsettled /\ x = Outstanding(h, q)
    BY <1>4, <1>6, <1>7, <2>3, <2>4, Zenon DEF Advances
  <2> QED
    BY <1>2, <1>7, <2>2, <2>5, OneGoes, Zenon
<1>8. CASE InputGoesOn(h, n, m, r)
  <2>1. SameNum(r.p, r.p)
    BY <1>6, SameNums, Zenon
  <2> QED
    BY <1>6, <1>7, <1>8, <2>1, Zenon DEF InputGoesOn
<1>9. CASE InputAccepted(h, n, m, r)
  <2>1. SameNum(r.p, [r.p EXCEPT !.errf = TRUE, !.lis = FALSE])
        /\ GoodPcb([r.p EXCEPT !.errf = TRUE, !.lis = FALSE])
    BY <1>6, Zenon DEF SameNum, GoodPcb, PcbType
  <2> QED
    BY <1>7, <1>9, <2>1, Zenon DEF InputAccepted
<1>10. ASSUME InputReset(h, n, m, r) \/ InputClosed(h, n, m, r) \/ InputNotAccepted(h, n, m, r)
       PROVE  NumInv'
  <2>1. \A g \in Host, k \in Name :
           pcb'[g][k] = IF g = h /\ k \in {n} THEN FreePcb ELSE pcb[g][k]
    <3>1. PICK told : Release(h, {n}, told)
      BY <1>10, Zenon DEF InputReset, InputClosed, InputNotAccepted
    <3> QED
      BY <1>1, <3>1, Released
  <2>2. Transmit({m}, {}) \/ Transmit({m}, {RstOf(h, p)})
    BY <1>10, Zenon DEF InputReset, InputClosed, InputNotAccepted
  <2>3. \A x \in net' : x \in net \/ "RST" \in x.f
    <3>1. net' \subseteq net \cup {} \/ net' \subseteq net \cup {RstOf(h, p)}
      BY <2>2, UnderWay, Zenon
    <3>2. "RST" \in RstOf(h, p).f
      BY RstSent, Zenon
    <3> QED
      BY <3>1, <3>2, Zenon
  <2>4. \A g \in Host, k \in Name : pcb'[g][k] = FreePcb \/ SameNum(pcb[g][k], pcb'[g][k])
    BY <2>1, Zenon DEF SameNum
  <2> QED
    BY <1>2, <2>3, <2>4, Rests, Zenon
<1> QED
  BY <1>5, <1>8, <1>9, <1>10, Zenon

\* tcp_timewait_input().
LEMMA TimeWaitSame ==
    ASSUME ConnInv, NumInv, NEW h \in Host, NEW n \in Name, NEW m \in net,
           InputTimeWait(h, n, m)
    PROVE  NumInv'
<1> DEFINE p == pcb[h][n]
           q == IF "FIN" \in m.f /\ m.f \cap {"RST", "SYN"} = {}
                THEN [p EXCEPT !.age = 0] ELSE p
           out == CASE "RST" \in m.f -> {}
                    [] "SYN" \in m.f /\ m.seq \in p.rcv .. p.rcv + Wnd -> {RstFor(h, m)}
                    [] OTHER -> IF Len1(m) = 1 THEN {EmptyAck(h, p)} ELSE {}
<1>1. GoodPcb(p) /\ p \in PcbType
  BY EachGood, Zenon DEF GoodPcb
<1>2. /\ SetPcb(h, n, q) /\ Transmit({m}, out) /\ made' = made
      /\ p.st = "TIME_WAIT"
  BY Zenon DEF InputTimeWait, On
<1>3. GoodPcb(q)
  BY <1>1, ConnAssumption DEF GoodPcb, PcbType
<1>4. SameNum(p, q)
  BY <1>1, Zenon DEF SameNum, PcbType
<1>5. \A x \in out : "RST" \in x.f \/ x = EmptyAck(h, p)
  <2>1. out = {} \/ out = {RstFor(h, m)} \/ out = {EmptyAck(h, p)}
    BY Zenon
  <2>2. "RST" \in RstFor(h, m).f
    BY RstSent, Zenon
  <2> QED
    BY <2>1, <2>2, Zenon
<1> HIDE DEF q, out
<1>6. EmptyAck(h, q) = EmptyAck(h, p) /\ q.st \notin {"FREE", "SYN_SENT"}
  BY <1>2, <1>4 DEF SameNum, EmptyAck
<1>7. Follows(p, q) /\ Fits(pcb, made, h, n, q)
  <2>1. Fits(pcb, made, h, n, p)
    BY Zenon DEF NumInv
  <2> QED
    BY <1>4, <2>1, SameFits, Zenon
<1>8. net' \subseteq net \cup out
  BY <1>2, UnderWay, Zenon
<1>9. \A x \in net' :
        x \in net \/ "RST" \in x.f \/ (q.st \notin {"FREE", "SYN_SENT"} /\ x = EmptyAck(h, q))
  BY <1>5, <1>6, <1>8, Zenon
<1> QED
  BY <1>2, <1>3, <1>7, <1>9, OneGoes, Zenon

\* Steps that leave the pcbs alone.
LEMMA QuietSame ==
    ASSUME ConnInv, NumInv, UNCHANGED <<pcb, made>>,
           \A m \in net' : m \in net \/ "RST" \in m.f
    PROVE  NumInv'
<1>1. \A g \in Host, s \in Name : SameNum(pcb[g][s], pcb'[g][s])
  BY Zenon DEF SameNum
<1> QED
  BY <1>1, Rests, Zenon

\* A segment nobody waits for is answered with an RST at most.
LEMMA NoPcbSame ==
    ASSUME ConnInv, NumInv, NEW h \in Host, NEW m \in net, InputNoPcb(h, m)
    PROVE  NumInv'
<1>1. UNCHANGED <<pcb, made>> /\ (Transmit({m}, {}) \/ Transmit({m}, {RstFor(h, m)}))
  BY Zenon DEF InputNoPcb
<1>2. net' \subseteq net \cup {} \/ net' \subseteq net \cup {RstFor(h, m)}
  BY <1>1, UnderWay, Zenon
<1>3. "RST" \in RstFor(h, m).f
  BY RstSent, Zenon
<1> QED
  BY <1>1, <1>2, <1>3, QuietSame, Zenon

\* tcp_alloc(): the new pcb has its numbers, and the victim's connection is
\* nobody's any more.
LEMMA AllocSame ==
    ASSUME ConnInv, NumInv, NEW h \in Host, NEW p, GoodPcb(p), NEW c, Alloc(h, p, c),
           p.st \in {"SYN_SENT", "SYN_RCVD"}, SeqOK(made', h, made[h] + 1, p),
           \A m \in net' : m \in net \/ m = Outstanding(h, p)
    PROVE  NumInv'
<1> DEFINE n == made[h] + 1
<1>1. PcbsGood /\ net \subseteq SegType
  BY EachGood, Zenon DEF NetGood
<1>2. made \in [Host -> 0..NConn] /\ made[h] < NConn /\ n \in Name /\ n \in 0..NConn
      /\ ~(n <= made[h])
  BY ConnAssumption DEF ConnInv, TypeInv, Alloc, Name
<1>3. made' \in [Host -> 0..NConn] /\ \A g \in Host : made[g] <= made'[g]
  <2>1. made' = [made EXCEPT ![h] = n]
    BY Zenon DEF Alloc
  <2>2. made' \in [Host -> 0..NConn]
    BY <1>2, <2>1, Zenon
  <2>3. \A g \in Host : made'[g] = IF g = h THEN n ELSE made[g]
    BY <1>2, <2>1, Zenon
  <2>4. \A g \in Host : made[g] \in Nat
    BY <1>2, ConnAssumption
  <2> QED
    BY <2>2, <2>3, <2>4
<1>4. PICK v \in IF Full(h) THEN Victims(h) ELSE {n} :
         pcb' = [pcb EXCEPT ![h][v] = FreePcb, ![h][n] = p]
  BY Zenon DEF Alloc
<1>5. v \in Name
  BY <1>2, <1>4, Zenon DEF Victims, Oldest, In, Live
<1> HIDE DEF n
<1>6. \A g \in Host, k \in Name :
        pcb'[g][k] = IF g = h /\ k = n THEN p ELSE IF g = h /\ k = v THEN FreePcb ELSE pcb[g][k]
  BY <1>1, <1>2, <1>4, <1>5, Zenon DEF PcbsGood
<1>7. ASSUME NEW g \in Host, NEW s \in Name, ~(g = h /\ s = n)
      PROVE  Follows(pcb[g][s], pcb'[g][s]) /\ Fits(pcb, made, g, s, pcb'[g][s])
  <2>1. pcb'[g][s] = FreePcb \/ pcb'[g][s] = pcb[g][s]
    BY <1>6, <1>7, Zenon
  <2>2. Fits(pcb, made, g, s, pcb[g][s]) /\ SameNum(pcb[g][s], pcb[g][s])
    BY Zenon DEF NumInv, SameNum
  <2>3. CASE pcb'[g][s] = FreePcb
    BY <2>3, FreeFits, Zenon
  <2>4. CASE pcb'[g][s] = pcb[g][s]
    BY <2>2, <2>4, SameFits, Zenon
  <2> QED
    BY <2>1, <2>3, <2>4, Zenon
<1>8. \A g \in Host, s \in Name : s <= made[g] => Follows(pcb[g][s], pcb'[g][s])
  BY <1>2, <1>7, Zenon
<1>9. /\ \A g \in Host, s \in Name : \A q :
           Fits(pcb, made, g, s, q) => Fits(pcb', made', g, s, q)
      /\ \A m \in SegType : SegOK(pcb, made, m) => SegOK(pcb', made', m)
  BY <1>2, <1>3, <1>8, Onward, Zenon
<1>10. Fits(pcb', made', h, n, p)
  <2>1. ~Synced(p) /\ ~SawFin(p)
    BY DEF Synced, SawFin
  <2> QED
    BY <2>1, Zenon DEF Fits, n
<1>11. pcb'[h][n] = p
  BY <1>2, <1>6, Zenon
<1>12. SegOK(pcb', made', Outstanding(h, p))
  <2>1. p.st \in Unsettled /\ p.st # "FREE"
    BY DEF Unsettled
  <2>2. SameNum(p, pcb'[h][n])
    BY <1>11, Zenon DEF SameNum
  <2> QED
    BY <1>2, <1>3, <1>10, <2>1, <2>2, SentOK, Zenon
<1>13. \A g \in Host, s \in Name : Fits(pcb', made', g, s, pcb'[g][s])
  BY <1>7, <1>9, <1>10, <1>11, Zenon
<1>14. \A m \in net' : SegOK(pcb', made', m)
  <2>1. \A m \in net : SegOK(pcb, made, m)
    BY Zenon DEF NumInv
  <2> QED
    BY <1>1, <1>9, <1>12, <2>1, Zenon
<1> QED
  BY <1>13, <1>14, Zenon DEF NumInv

\* tcp_listen_input(): the SYN names the client's pcb.
LEMMA SynSame ==
    ASSUME ConnInv, NumInv, NEW h \in Host, NEW m \in net, InputSyn(h, m)
    PROVE  NumInv'
<1> DEFINE n == made[h] + 1
           p == SynRcvdPcb(n, m)
           g == Other(h)
<1>1. m \in SegType /\ made \in [Host -> 0..NConn]
  BY Zenon DEF ConnInv, TypeInv, NetGood
<1>2. \/ Alloc(h, p, FreeConn) /\ Transmit({m}, {Outstanding(h, p)})
      \/ Transmit({m}, {}) /\ UNCHANGED <<pcb, made>>
  BY Zenon DEF InputSyn
<1>3. h = "server" /\ g = "client" /\ m.f = {"SYN"} /\ m.to = h
  BY Zenon DEF InputSyn, Opening, Unmatched, Other
<1>4. CASE Alloc(h, p, FreeConn) /\ Transmit({m}, {Outstanding(h, p)})
  <2>1. n \in Name /\ n \in 0..NConn
    BY <1>1, <1>4, ConnAssumption DEF Alloc, Name
  <2>2. made' = [made EXCEPT ![h] = n]
    BY <1>4, Zenon DEF Alloc
  <2>3. made'[h] = n /\ made'[g] = made[g] /\ g \in Host
    BY <1>1, <1>3, <2>2 DEF Host
  <2>4. /\ p.st = "SYN_RCVD" /\ p.nxt = Iss(n) + 1 /\ p.lastack = Iss(n) /\ p.rcv = m.seq + 1
        /\ p \in PcbType
    <3>1. Iss(n) \in Nat /\ Iss(n) + 1 \in Nat
      BY <2>1, Numbered
    <3>2. m.seq + 1 \in Nat /\ m.port \in Ports
      BY <1>1 DEF SegType
    <3>3. FreePcb \in PcbType /\ "SYN_RCVD" \in State
      BY FreeTypes, Zenon DEF GoodPcb, State, Active
    <3> DEFINE begun == [FreePcb EXCEPT !.st = "SYN_RCVD", !.port = m.port, !.nxt = Iss(n) + 1]
    <3>4. p = [begun EXCEPT !.lastack = Iss(n), !.rcv = m.seq + 1, !.lis = TRUE]
      BY Zenon DEF SynRcvdPcb
    <3>5. p.st = "SYN_RCVD" /\ p.nxt = Iss(n) + 1 /\ p.lastack = Iss(n) /\ p.rcv = m.seq + 1
      BY DEF SynRcvdPcb, FreePcb
    <3> HIDE DEF p, n
    <3>6. begun \in PcbType
      BY <3>1, <3>2, <3>3, Zenon DEF PcbType
    <3> HIDE DEF begun
    <3>7. p \in PcbType
      BY <3>1, <3>2, <3>4, <3>6, Zenon DEF PcbType
    <3> QED
      BY <3>5, <3>7, Zenon
  <2> HIDE DEF p, n
  <2>5. PICK s \in 1..made[g] : m.seq = Base(g, s) - 1
    <3>1. "SYN" \in m.f /\ "RST" \notin m.f
      BY <1>3
    <3>2. SegOK(pcb, made, m)
      BY Zenon DEF NumInv
    <3> QED
      BY <1>3, <3>1, <3>2, Zenon DEF SegOK, From
  <2>6. s \in Name
    BY <1>1, <2>3, Allotted, Zenon
  <2>7. Base(g, s) \in Nat /\ Base(h, n) \in Nat /\ Iss(n) \in Nat
    BY <2>1, <2>3, <2>6, Numbered, Zenon
  <2>8. p.rcv = Base(g, s) /\ p.nxt = Base(h, n) /\ p.lastack = p.nxt - 1 /\ p.nxt > 0
    BY <1>3, <2>4, <2>5, <2>7 DEF Base
  <2>9. Peer(p) = s
    BY <2>3, <2>6, <2>8, Numbered, Zenon DEF Num, Peer
  <2>10. ~SentFin(p) /\ ~SawFin(p) /\ p.st \in Unsettled
    BY <2>4 DEF SentFin, SawFin, Unsettled
  <2>11. /\ p.nxt = Base(h, n) + One(SentFin(p)) /\ p.lastack = p.nxt - One(p.st \in Unsettled)
         /\ p.rcv = Base(g, s) + One(SawFin(p)) /\ n <= made'[h]
    BY <2>1, <2>3, <2>7, <2>8, <2>10 DEF One, Name
  <2>12. SeqOK(made', h, n, p)
    BY <1>3, <2>3, <2>4, <2>9, <2>11 DEF SeqOK
  <2>13. net' \subseteq net \cup {Outstanding(h, p)}
    BY <1>4, UnderWay, Zenon
  <2>14. GoodPcb(p)
    BY <2>4, <2>8, Zenon DEF GoodPcb
  <2> QED
    BY <1>4, <2>4, <2>12, <2>13, <2>14, AllocSame, Zenon DEF n
<1>5. CASE Transmit({m}, {}) /\ UNCHANGED <<pcb, made>>
  <2>1. net' \subseteq net \cup {}
    BY <1>5, UnderWay, Zenon
  <2> QED
    BY <1>5, <2>1, QuietSame, Zenon
<1> QED
  BY <1>2, <1>4, <1>5, Zenon

\* lwip_netconn_do_connect().
LEMMA ConnectSame ==
    ASSUME ConnInv, NumInv, NEW port \in Ports, Connect(port)
    PROVE  NumInv'
<1> DEFINE h == "client"
           n == made[h] + 1
           p == [FreePcb EXCEPT !.st = "SYN_SENT", !.port = port, !.nxt = Iss(n),
                                !.lastack = Iss(n) - 1, !.errf = TRUE]
           c == [FreeConn EXCEPT !.st = "CONNECT", !.ref = TRUE]
<1>1. h \in Host /\ made \in [Host -> 0..NConn]
  BY Zenon DEF Host, ConnInv, TypeInv
<1>2. Alloc(h, p, c) /\ Transmit({}, {Outstanding(h, p)})
  BY Zenon DEF Connect
<1>3. n \in Name /\ n \in 0..NConn /\ n <= n
  BY <1>1, <1>2, ConnAssumption DEF Alloc, Name
<1>4. made'[h] = n
  BY <1>1, <1>2, Zenon DEF Alloc
<1>5. Base(h, n) = Iss(n) /\ Iss(n) \in Nat /\ Iss(n) > 0
  BY <1>1, <1>3, Numbered, Zenon DEF Base
<1>6. Iss(n) - 1 \in Nat
  BY <1>5
<1> HIDE DEF n
<1>7. /\ p.st = "SYN_SENT" /\ p.nxt = Iss(n) /\ p.lastack = Iss(n) - 1 /\ p \in PcbType
  <2>1. FreePcb \in PcbType /\ "SYN_SENT" \in State
    BY FreeTypes, Zenon DEF GoodPcb, State, Active
  <2>2. \A a, b \in Nat, st \in State :
          [FreePcb EXCEPT !.st = st, !.port = port, !.nxt = a, !.lastack = b,
                          !.errf = TRUE] \in PcbType
    BY <2>1, Zenon DEF PcbType
  <2>3. p \in PcbType
    BY <1>5, <1>6, <2>1, <2>2, Zenon
  <2>4. p.st = "SYN_SENT" /\ p.nxt = Iss(n) /\ p.lastack = Iss(n) - 1
    BY DEF FreePcb
  <2> QED
    BY <2>3, <2>4, Zenon
<1> HIDE DEF p
<1>8. ~SentFin(p) /\ p.st \in Unsettled
  BY <1>7 DEF SentFin, Unsettled
<1>9. p.nxt = Base(h, n) + One(SentFin(p)) /\ p.lastack = p.nxt - One(p.st \in Unsettled)
  BY <1>5, <1>7, <1>8 DEF One
<1>10. SeqOK(made', h, n, p)
  BY <1>3, <1>4, <1>7, <1>9 DEF SeqOK
<1>11. net' \subseteq net \cup {Outstanding(h, p)}
  BY <1>2, UnderWay, Zenon
<1>12. GoodPcb(p)
  BY <1>5, <1>7, Zenon DEF GoodPcb
<1> QED
  BY <1>1, <1>2, <1>7, <1>10, <1>11, <1>12, AllocSame, Zenon DEF n

\* tcp_slowtmr(): what is sent again is what was sent, even of a pcb it removes.
LEMMA SlowSame ==
    ASSUME ConnInv, NumInv, NEW h \in Host, SlowTmr(h)
    PROVE  NumInv'
<1> DEFINE P == pcb[h]
           gone == {n \in Live(h) : GivesUp(P[n]) \/ Expires(P[n])}
           again == {n \in Live(h) : Rexmits(P[n])}
           Aged(n) == [(IF n \in again THEN Recounted(P[n]) ELSE P[n]) EXCEPT !.age = Age(P[n])]
           q(n) == CASE n \in gone -> FreePcb [] n \in Live(h) \ gone -> Aged(n) [] OTHER -> P[n]
<1>1. /\ \A g \in Host, k \in Name : GoodPcb(pcb[g][k]) /\ pcb[g][k] \in PcbType
      /\ PcbsGood /\ made \in [Host -> 0..NConn]
  BY EachGood, Zenon DEF GoodPcb, ConnInv, TypeInv
<1>2. /\ made' = made
      /\ Transmit({}, {Outstanding(h, P[n]) : n \in again})
      /\ pcb' = [pcb EXCEPT ![h] = [n \in Name |-> q(n)]]
  BY Zenon DEF SlowTmr
<1>3. ASSUME NEW n \in Name PROVE q(n) = FreePcb \/ SameNum(P[n], q(n))
  <2> DEFINE e == IF n \in again THEN Recounted(P[n]) ELSE P[n]
  <2> HIDE DEF again
  <2>1. SameNum(P[n], P[n]) /\ SameNum(P[n], e) /\ e \in PcbType
    BY <1>1, SameNums, SmallChanges, Zenon DEF Like, GoodPcb
  <2> HIDE DEF e
  <2>2. SameNum(P[n], [e EXCEPT !.age = Age(P[n])])
    BY <2>1, Zenon DEF SameNum, PcbType
  <2> HIDE DEF gone
  <2>3. q(n) = FreePcb \/ q(n) = Aged(n) \/ q(n) = P[n]
    BY Zenon
  <2> QED
    BY <2>1, <2>2, <2>3, Zenon DEF e
<1>4. ASSUME NEW n \in again
      PROVE  Outstanding(h, P[n]) \in SegType /\ SegOK(pcb, made, Outstanding(h, P[n]))
  <2>1. n \in Name /\ P[n].st # "FREE" /\ P[n].lastack # P[n].nxt
    BY Zenon DEF Live, Rexmits, Unacked
  <2>2. Fits(pcb, made, h, n, P[n]) /\ SameNum(P[n], P[n]) /\ GoodPcb(P[n])
    BY <1>1, <2>1, Zenon DEF NumInv, SameNum
  <2>3. P[n].lastack = P[n].nxt - One(P[n].st \in Unsettled) /\ P[n].nxt \in Nat
    BY <1>1, <2>1, <2>2, Zenon DEF Fits, SeqOK, PcbType
  <2>4. P[n].st \in Unsettled
    BY <2>1, <2>3 DEF One
  <2> QED
    BY <1>1, <2>1, <2>2, <2>4, SentOK, SegTypes, Zenon
<1> HIDE DEF q, again
<1>5. \A g \in Host, s \in Name : pcb'[g][s] = IF g = h THEN q(s) ELSE pcb[g][s]
  BY <1>1, <1>2, Zenon DEF PcbsGood
<1>6. \A g \in Host, s \in Name : pcb'[g][s] = FreePcb \/ SameNum(pcb[g][s], pcb'[g][s])
  BY <1>3, <1>5, Zenon DEF SameNum
<1>7. \A m \in net' : m \in net \/ (m \in SegType /\ SegOK(pcb, made, m))
  <2>1. net' \subseteq net \cup {Outstanding(h, P[n]) : n \in again}
    BY <1>2, UnderWay, Zenon
  <2> QED
    BY <1>4, <2>1, Zenon
<1> QED
  BY <1>2, <1>6, <1>7, Rests, Zenon

\* tcp_close_shutdown(): with its FIN a pcb keeps its peer.
LEMMA FinFits ==
    ASSUME ConnInv, NumInv, NEW h \in Host, NEW n \in Name, NEW p, p = pcb[h][n],
           NEW q, SameNum(WithFin(p), q)
    PROVE  /\ Follows(p, q) /\ Fits(pcb, made, h, n, q)
           /\ SendsFin(p) => q.st \in Unsettled
<1>1. p \in PcbType /\ Fits(pcb, made, h, n, p)
  BY EachGood, Zenon DEF GoodPcb, NumInv
<1>2. CASE ~SendsFin(p)
  BY <1>1, <1>2, SameFits, Zenon DEF WithFin
<1>3. CASE SendsFin(p)
  <2>1. /\ q.st = FinState(p) /\ q.nxt = p.nxt + 1 /\ q.lastack = p.lastack /\ q.rcv = p.rcv
    BY <1>1, <1>3, Zenon DEF WithFin, SameNum, PcbType
  <2>2. \/ p.st = "ESTABLISHED" /\ q.st = "FIN_WAIT_1"
        \/ p.st = "CLOSE_WAIT" /\ q.st = "LAST_ACK"
    BY <1>3, <2>1, Zenon DEF SendsFin, FinState
  <2>3. /\ ~SentFin(p) /\ SentFin(q) /\ (SawFin(q) <=> SawFin(p)) /\ Synced(p)
        /\ p.st \notin Unsettled /\ q.st \in Unsettled
        /\ q.st \notin {"FREE", "SYN_SENT", "SYN_RCVD"} /\ p.st \notin {"FREE", "SYN_SENT"}
    BY <2>2 DEF SentFin, SawFin, Synced, Unsettled
  <2>4. Peer(q) = Peer(p)
    BY <2>1, Zenon DEF Peer
  <2>5. /\ n <= made[h] /\ p.nxt = Base(h, n) + One(SentFin(p))
        /\ p.lastack = p.nxt - One(p.st \in Unsettled)
        /\ Peer(p) \in 1..made[Other(h)]
        /\ p.rcv = Base(Other(h), Peer(p)) + One(SawFin(p)) /\ p.nxt \in Nat
    BY <1>1, <2>3, Zenon DEF Fits, SeqOK, PcbType
  <2>6. Base(h, n) \in Nat
    BY Numbered, Zenon
  <2>7. q.nxt = Base(h, n) + One(SentFin(q)) /\ q.lastack = q.nxt - One(q.st \in Unsettled)
    BY <2>1, <2>3, <2>5, <2>6 DEF One
  <2>8. q.rcv = Base(Other(h), Peer(p)) + One(SawFin(q))
    BY <2>1, <2>3, <2>5 DEF One
  <2>9. SeqOK(made, h, n, q)
    BY <2>3, <2>4, <2>5, <2>7, <2>8, Zenon DEF SeqOK
  <2>10. Follows(p, q)
    BY <2>3, <2>4, Zenon DEF Follows
  <2> QED
    BY <1>1, <2>3, <2>4, <2>9, <2>10, Zenon DEF Fits
<1> QED
  BY <1>2, <1>3, Zenon

\* The application closes pcb n of h, in one direction or both.
LEMMA FinSame ==
    ASSUME ConnInv, NumInv, made' = made, NEW h \in Host, NEW n \in Name,
           pcb[h][n].st # "FREE", NEW q, GoodPcb(q), SetPcb(h, n, q),
           \/ SameNum(WithFin(pcb[h][n]), q) /\ (FinOut(h, n) \/ UNCHANGED net)
           \/ q = FreePcb /\ pcb[h][n].st = "SYN_SENT" /\ FinOut(h, n)
           \/ SameNum(pcb[h][n], q) /\ UNCHANGED net
    PROVE  NumInv'
<1> DEFINE p == pcb[h][n]
<1>1. p \in PcbType /\ Fits(pcb, made, h, n, p)
  BY EachGood, Zenon DEF GoodPcb, NumInv
<1>2. ASSUME Follows(p, q), Fits(pcb, made, h, n, q),
             \A m \in net' : m \in net \/ (q.st \in Unsettled /\ m = Outstanding(h, q))
      PROVE  NumInv'
  BY <1>2, OneGoes, Zenon
<1>3. CASE SameNum(p, q) /\ UNCHANGED net
  BY <1>1, <1>2, <1>3, SameFits, Zenon
<1>4. FinOut(h, n) => \/ SendsFin(p) /\ net' \subseteq net \cup {Outstanding(h, WithFin(p))}
                      \/ ~SendsFin(p) /\ net' \subseteq net \cup {}
  BY UnderWay, Zenon DEF FinOut
<1>5. CASE SameNum(WithFin(p), q) /\ (FinOut(h, n) \/ UNCHANGED net)
  <2>1. /\ Follows(p, q) /\ Fits(pcb, made, h, n, q)
        /\ SendsFin(p) => q.st \in Unsettled
    BY <1>5, FinFits, Zenon
  <2>2. Outstanding(h, q) = Outstanding(h, WithFin(p))
    BY <1>5, Zenon DEF SameNum, Outstanding
  <2> QED
    BY <1>2, <1>4, <1>5, <2>1, <2>2, Zenon
<1>6. CASE q = FreePcb /\ p.st = "SYN_SENT" /\ FinOut(h, n)
  <2>1. ~SendsFin(p)
    BY <1>6 DEF SendsFin, FinState
  <2>2. \A m \in net' : m \in net
    BY <1>4, <1>6, <2>1, Zenon
  <2>3. Follows(p, q) /\ Fits(pcb, made, h, n, q)
    BY <1>6, FreeFits, Zenon
  <2> QED
    BY <1>2, <2>2, <2>3, Zenon
<1> QED
  BY <1>3, <1>5, <1>6, Zenon

\* tcp_close() frees the pcb, or sends the FIN and clears the callbacks.
LEMMA ClosedNum ==
    ASSUME NEW h \in Host, NEW p, GoodPcb(p), p.st # "FREE"
    PROVE  /\ GoodPcb(ClosedPcb(p)) /\ GoodPcb(WithFin(p))
           /\ p.st = "SYN_SENT" => ClosedPcb(p) = FreePcb
           /\ p.st # "SYN_SENT" => SameNum(WithFin(p), ClosedPcb(p))
           /\ SameNum(WithFin(p), WithFin(p))
<1>1. GoodPcb(ClosedPcb(p)) /\ GoodPcb(WithFin(p)) /\ WithFin(p) \in PcbType
  BY ClosedTypes, Zenon DEF GoodPcb
<1>2. p.st # "SYN_SENT" => SameNum(WithFin(p), ClosedPcb(p))
  BY <1>1, Zenon DEF ClosedPcb, SameNum, PcbType
<1> QED
  BY <1>1, <1>2, Zenon DEF ClosedPcb, SameNum

\* netconn_delete().
LEMMA CloseSame ==
    ASSUME ConnInv, NumInv, NEW h \in Host, NEW n \in Name, Close(h, n)
    PROVE  NumInv'
<1> DEFINE p == pcb[h][n]
<1>1. GoodPcb(p) /\ made' = made
  BY EachGood, Zenon DEF Close
<1>2. CASE conn[h][n].ref
  <2>1. p.st # "FREE" /\ SetPcb(h, n, ClosedPcb(p)) /\ FinOut(h, n)
    BY <1>2, Zenon DEF Close, Held, Live
  <2>2. /\ GoodPcb(ClosedPcb(p))
        /\ \/ SameNum(WithFin(p), ClosedPcb(p)) /\ FinOut(h, n)
           \/ ClosedPcb(p) = FreePcb /\ p.st = "SYN_SENT" /\ FinOut(h, n)
    BY <1>1, <2>1, ClosedNum, Zenon
  <2> QED
    BY <1>1, <2>1, <2>2, FinSame, Zenon
<1>3. CASE ~conn[h][n].ref
  <2>1. UNCHANGED <<pcb, net>>
    BY <1>3, Zenon DEF Close
  <2> QED
    BY <1>1, <2>1, QuietSame, Zenon
<1> QED
  BY <1>2, <1>3, Zenon

\* lwip_netconn_do_close() for one direction.
LEMMA ShutdownSame ==
    ASSUME ConnInv, NumInv, NEW h \in Host, NEW n \in Name, NEW how \in {"RD", "WR"},
           Shutdown(h, n, how)
    PROVE  NumInv'
<1> DEFINE p == pcb[h][n]
           q == IF ShutClose(p, how) THEN ClosedPcb(p)
                ELSE IF how = "RD" THEN [p EXCEPT !.rx = TRUE] ELSE WithFin(p)
<1>1. GoodPcb(p) /\ p \in PcbType /\ made' = made
  BY EachGood, Zenon DEF Shutdown, GoodPcb
<1>2. /\ p.st # "FREE" /\ SetPcb(h, n, q)
      /\ IF how = "WR" THEN FinOut(h, n) ELSE UNCHANGED net
  BY Zenon DEF Shutdown, Held, Live
<1>3. /\ GoodPcb(ClosedPcb(p)) /\ GoodPcb(WithFin(p))
      /\ p.st = "SYN_SENT" => ClosedPcb(p) = FreePcb
      /\ p.st # "SYN_SENT" => SameNum(WithFin(p), ClosedPcb(p))
      /\ SameNum(WithFin(p), WithFin(p))
  BY <1>1, <1>2, ClosedNum, Zenon
<1>4. SameNum(p, [p EXCEPT !.rx = TRUE]) /\ GoodPcb([p EXCEPT !.rx = TRUE])
  BY <1>1, Zenon DEF SameNum, GoodPcb, PcbType
<1>5. how = "RD" /\ ShutClose(p, how) => p.st # "SYN_SENT"
  BY DEF ShutClose
<1>6. how = "RD" => how # "WR"
  OBVIOUS
<1>7. /\ GoodPcb(q)
      /\ \/ SameNum(WithFin(p), q) /\ (FinOut(h, n) \/ UNCHANGED net)
         \/ q = FreePcb /\ p.st = "SYN_SENT" /\ FinOut(h, n)
         \/ SameNum(p, q) /\ UNCHANGED net
  <2>1. CASE ShutClose(p, how)
    BY <1>2, <1>3, <1>5, <2>1, Zenon
  <2>2. CASE ~ShutClose(p, how) /\ how = "RD"
    BY <1>2, <1>4, <1>6, <2>2, Zenon
  <2>3. CASE ~ShutClose(p, how) /\ how = "WR"
    BY <1>2, <1>3, <1>6, <2>3, Zenon
  <2> QED
    BY <2>1, <2>2, <2>3, Zenon
<1> HIDE DEF q
<1> QED
  BY <1>1, <1>2, <1>7, FinSame, Zenon

\* netconn_delete() of the listener.
LEMMA CloseListenerSame ==
    ASSUME ConnInv, NumInv, CloseListener
    PROVE  NumInv'
<1> DEFINE h == "server"
           waiting == {acceptmbox[i] : i \in 1..Len(acceptmbox)} \ {ErrMsg}
           aborted == {n \in waiting : conn[h][n].ref}
           q(n) == IF n \in aborted THEN FreePcb ELSE [pcb[h][n] EXCEPT !.lis = FALSE]
<1>1. (\A g \in Host, k \in Name : pcb[g][k] \in PcbType) /\ PcbsGood /\ h \in Host
  BY EachGood, Zenon DEF Host, GoodPcb
<1>2. /\ made' = made
      /\ Transmit({}, {RstOf(h, pcb[h][n]) : n \in aborted})
      /\ pcb' = [pcb EXCEPT ![h] = [n \in Name |-> q(n)]]
  BY <1>1, Zenon DEF CloseListener, PcbsGood
<1> HIDE DEF aborted
<1>3. ASSUME NEW n \in Name PROVE q(n) = FreePcb \/ SameNum(pcb[h][n], q(n))
  <2>1. SameNum(pcb[h][n], [pcb[h][n] EXCEPT !.lis = FALSE])
    BY <1>1, Zenon DEF SameNum, PcbType
  <2> QED
    BY <2>1, Zenon
<1> HIDE DEF q
<1>4. \A g \in Host, s \in Name : pcb'[g][s] = IF g = h THEN q(s) ELSE pcb[g][s]
  BY <1>1, <1>2, Zenon DEF PcbsGood
<1>5. \A g \in Host, s \in Name : pcb'[g][s] = FreePcb \/ SameNum(pcb[g][s], pcb'[g][s])
  BY <1>3, <1>4, Zenon DEF SameNum
<1>6. \A m \in net' : m \in net \/ "RST" \in m.f
  <2>1. net' \subseteq net \cup {RstOf(h, pcb[h][n]) : n \in aborted}
    BY <1>2, UnderWay, Zenon
  <2>2. \A n \in aborted : "RST" \in RstOf(h, pcb[h][n]).f
    BY RstSent, Zenon
  <2> QED
    BY <2>1, <2>2, Zenon
<1> QED
  BY <1>2, <1>5, <1>6, Rests, Zenon

\* Before the first call nothing is connected or under way.
LEMMA NumStart == Init => NumInv
<1> SUFFICES ASSUME Init PROVE NumInv
  BY Zenon
<1>1. \A h \in Host, n \in Name : pcb[h][n] = FreePcb
  BY Zenon DEF Init
<1>2. \A h \in Host, n \in Name : Fits(pcb, made, h, n, FreePcb)
  BY FreeFits, Zenon
<1>3. net = {}
  BY Zenon DEF Init
<1> QED
  BY <1>1, <1>2, <1>3, Zenon DEF NumInv

\* Every step of both hosts and of the network keeps the numbers.
LEMMA NumStep == ConnInv /\ NumInv /\ [Next]_vars => NumInv'
<1> SUFFICES ASSUME ConnInv, NumInv, [Next]_vars PROVE NumInv'
  BY Zenon
<1>1. ASSUME UNCHANGED <<pcb, made>>, net' \subseteq net PROVE NumInv'
  BY <1>1, QuietSame, Zenon
<1>2. CASE UNCHANGED vars
  BY <1>1, <1>2, Zenon DEF vars
<1>3. \A m \in net : Lose(m) => NumInv'
  BY <1>1, Zenon DEF Lose
<1>4. Accept \/ Listen => NumInv'
  BY <1>1, Zenon DEF Accept, Listen
<1>5. CASE Next
  BY <1>3, <1>4, <1>5, ActiveSame, TimeWaitSame, NoPcbSame, SynSame, SlowSame, ConnectSame,
     CloseSame, ShutdownSame, CloseListenerSame, Zenon DEF Next
<1> QED
  BY <1>2, <1>5, Zenon

\* Segments of earlier connections, however long they are under way and in whatever
\* order they arrive, join no two pcbs that do not belong together: of two ends that
\* finished the handshake each is the other's peer or neither is, and an end of
\* stream was the peer's.  For every number of ports and pcbs, and with any pcb
\* killed, timed out or aborted at any time.
THEOREM EndsMatch == Spec => []SameConnection
<1>1. NumInv => SameConnection
  <2> SUFFICES ASSUME NumInv, NEW h \in Host, NEW n \in Name, NEW k \in Name,
                      Synced(pcb[h][n]), Synced(pcb[Other(h)][k])
               PROVE  /\ Peer(pcb[h][n]) = k <=> Peer(pcb[Other(h)][k]) = n
                      /\ Peer(pcb[h][n]) = k /\ SawFin(pcb[h][n]) => SentFin(pcb[Other(h)][k])
    BY Zenon DEF SameConnection
  <2>1. Other(h) \in Host /\ Other(Other(h)) = h
    BY DEF Host, Other
  <2>2. Fits(pcb, made, h, n, pcb[h][n]) /\ Fits(pcb, made, Other(h), k, pcb[Other(h)][k])
    BY <2>1, Zenon DEF NumInv
  <2>3. pcb[h][n].st # "FREE" /\ pcb[Other(h)][k].st # "FREE"
    BY Zenon DEF Synced
  <2>4. /\ Linked(pcb, Other(h), Peer(pcb[h][n]), n)
        /\ Linked(pcb, h, Peer(pcb[Other(h)][k]), k)
        /\ SawFin(pcb[h][n]) => SentEnd(pcb, Other(h), Peer(pcb[h][n]))
    BY <2>1, <2>2, Zenon DEF Fits
  <2> QED
    BY <2>3, <2>4, Zenon DEF Linked, SentEnd
<1>2. Init => ConnInv /\ NumInv
  BY ConnStart, NumStart, Zenon
<1>3. ConnInv /\ NumInv /\ [Next]_vars => (ConnInv /\ NumInv)'
  BY ConnStep, NumStep, Zenon
<1> QED
  BY <1>1, <1>2, <1>3, PTL DEF Spec
=============================================================================
