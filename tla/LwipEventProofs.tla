-------------------------- MODULE LwipEventProofs --------------------------
(***************************************************************************)
(* rcvevent, the messages that lwip_select() and lwip_recv() count on: for *)
(* any number of threads, sockets and connections it counts the messages   *)
(* of the netconn, if no socket number is given out again too early.       *)
(***************************************************************************)
EXTENDS LwipSelectProofs

\* Where a sequence of raised events has a RCVPLUS of the netconn, and how often.
PlusAt(todo, c) == {i \in DOMAIN todo : todo[i] = <<c, "RCVPLUS">>}
RaisedIn(todo, c) == Cardinality(PlusAt(todo, c))

\* The positions are finitely many.
LEMMA PlusAtFinite ==
    ASSUME NEW todo \in Seq(Conns \X Events), NEW c
    PROVE  /\ IsFiniteSet(PlusAt(todo, c)) /\ RaisedIn(todo, c) \in Nat
           /\ PlusAt(todo, c) \subseteq 1 .. Len(todo)
<1>1. DOMAIN todo = 1 .. Len(todo) /\ Len(todo) \in Nat
  OBVIOUS
<1>2. IsFiniteSet(1 .. Len(todo))
  BY <1>1, FS_Interval
<1>3. PlusAt(todo, c) \subseteq 1 .. Len(todo)
  BY <1>1, Zenon DEF PlusAt
<1>4. IsFiniteSet(PlusAt(todo, c))
  BY <1>2, <1>3, FS_Subset, Zenon
<1> QED
  BY <1>3, <1>4, FS_CardinalityType, Zenon DEF RaisedIn

\* No RCVPLUS of a netconn is none.
LEMMA RaisedNone ==
    ASSUME NEW todo, NEW c, \A i \in DOMAIN todo : todo[i] # <<c, "RCVPLUS">>
    PROVE  RaisedIn(todo, c) = 0
<1>1. PlusAt(todo, c) = {}
  BY Zenon DEF PlusAt
<1> QED
  BY <1>1, FS_EmptySet, Zenon DEF RaisedIn

\* Nothing is raised by nothing.
LEMMA RaisedEmpty == \A c : RaisedIn(<<>>, c) = 0
<1>1. DOMAIN <<>> = {}
  BY SMT
<1> QED
  BY <1>1, RaisedNone, Zenon

\* accept_function(), recv_tcp() and sent_tcp() raise one event.
LEMMA RaisedOne ==
    ASSUME NEW c, NEW evt, NEW x
    PROVE  RaisedIn(<<<<c, evt>>>>, x) = IF x = c /\ evt = "RCVPLUS" THEN 1 ELSE 0
<1> DEFINE todo == <<<<c, evt>>>>
<1>1. DOMAIN todo = {1} /\ todo[1] = <<c, evt>>
  BY SMT
<1> HIDE DEF todo
<1>2. <<c, evt>> = <<x, "RCVPLUS">> <=> x = c /\ evt = "RCVPLUS"
  BY Zenon
<1>3. CASE x = c /\ evt = "RCVPLUS"
  <2>1. PlusAt(todo, x) = {1}
    BY <1>1, <1>2, <1>3, Zenon DEF PlusAt
  <2> QED
    BY <1>3, <2>1, FS_Singleton, Zenon DEF RaisedIn, todo
<1>4. CASE ~(x = c /\ evt = "RCVPLUS")
  <2>1. \A i \in DOMAIN todo : todo[i] # <<x, "RCVPLUS">>
    BY <1>1, <1>2, <1>4, Zenon
  <2> QED
    BY <1>4, <2>1, RaisedNone, Zenon DEF todo
<1> QED
  BY <1>3, <1>4, Zenon

\* err_tcp() raises one RCVPLUS among others.
LEMMA RaisedError ==
    ASSUME NEW c, NEW x
    PROVE  RaisedIn(<<<<c, "ERROR">>, <<c, "RCVPLUS">>, <<c, "SENDPLUS">>>>, x)
           = IF x = c THEN 1 ELSE 0
<1> DEFINE todo == <<<<c, "ERROR">>, <<c, "RCVPLUS">>, <<c, "SENDPLUS">>>>
<1>1. DOMAIN todo = {1, 2, 3} /\ todo[1] = <<c, "ERROR">> /\ todo[2] = <<c, "RCVPLUS">>
      /\ todo[3] = <<c, "SENDPLUS">>
  BY SMT
<1> HIDE DEF todo
<1>2. /\ <<c, "ERROR">> # <<x, "RCVPLUS">> /\ <<c, "SENDPLUS">> # <<x, "RCVPLUS">>
      /\ <<c, "RCVPLUS">> = <<x, "RCVPLUS">> <=> x = c
  BY SMT
<1>3. CASE x = c
  <2>1. PlusAt(todo, x) = {2}
    BY <1>1, <1>2, <1>3, Zenon DEF PlusAt
  <2> QED
    BY <1>3, <2>1, FS_Singleton, Zenon DEF RaisedIn, todo
<1>4. CASE x # c
  <2>1. \A i \in DOMAIN todo : todo[i] # <<x, "RCVPLUS">>
    BY <1>1, <1>2, <1>4, Zenon
  <2> QED
    BY <1>4, <2>1, RaisedNone, Zenon DEF todo
<1> QED
  BY <1>3, <1>4, Zenon

\* lwip_accept() plays back as many as it took over.
LEMMA RaisedMany ==
    ASSUME NEW c, NEW n \in Nat, NEW x
    PROVE  RaisedIn(Repeat(n, <<c, "RCVPLUS">>), x) = IF x = c THEN n ELSE 0
<1> DEFINE todo == Repeat(n, <<c, "RCVPLUS">>)
<1>1. DOMAIN todo = 1 .. n /\ \A i \in 1 .. n : todo[i] = <<c, "RCVPLUS">>
  BY Zenon DEF Repeat
<1> HIDE DEF todo
<1>2. <<c, "RCVPLUS">> = <<x, "RCVPLUS">> <=> x = c
  BY Zenon
<1>3. CASE x = c
  <2>1. PlusAt(todo, x) = 1 .. n
    BY <1>1, <1>2, <1>3, Zenon DEF PlusAt
  <2>2. Cardinality(1 .. n) = n
    <3>1. Cardinality(1 .. n) = IF 1 > n THEN 0 ELSE n - 1 + 1
      BY FS_Interval
    <3> QED
      BY <3>1
  <2> QED
    BY <1>3, <2>1, <2>2, Zenon DEF RaisedIn, todo
<1>4. CASE x # c
  <2>1. \A i \in DOMAIN todo : todo[i] # <<x, "RCVPLUS">>
    BY <1>1, <1>2, <1>4, Zenon
  <2> QED
    BY <1>4, <2>1, RaisedNone, Zenon DEF todo
<1> QED
  BY <1>3, <1>4, Zenon

\* event_callback() delivers the first of them.
LEMMA RaisedTail ==
    ASSUME NEW todo \in Seq(Conns \X Events), todo # <<>>, NEW x
    PROVE  RaisedIn(Tail(todo), x)
           = RaisedIn(todo, x) - (IF Head(todo) = <<x, "RCVPLUS">> THEN 1 ELSE 0)
<1> DEFINE rest == Tail(todo)
           A == PlusAt(rest, x)
           B == PlusAt(todo, x) \ {1}
           g == [i \in A |-> i + 1]
<1>1. /\ rest \in Seq(Conns \X Events) /\ Len(todo) \in Nat /\ Len(todo) > 0
      /\ DOMAIN todo = 1 .. Len(todo) /\ DOMAIN rest = 1 .. (Len(todo) - 1)
      /\ Head(todo) = todo[1]
  OBVIOUS
<1>2. \A i \in 1 .. (Len(todo) - 1) : rest[i] = todo[i + 1]
  OBVIOUS
<1> HIDE DEF rest
<1>3. A \subseteq 1 .. (Len(todo) - 1) /\ \A i \in A : i + 1 \in B
  BY <1>1, <1>2 DEF PlusAt
<1>4. \A j \in B : j - 1 \in A /\ j \in Int
  BY <1>1, <1>2 DEF PlusAt
<1> HIDE DEF A, B
<1>5. \A i \in A : i \in Int
  BY <1>3
<1>6. g \in [A -> B] /\ \A i \in A : g[i] = i + 1
  BY <1>3, Zenon
<1> HIDE DEF g
<1>7. \A i, j \in A : g[i] = g[j] => i = j
  BY <1>5, <1>6
<1>8. \A j \in B : \E i \in A : g[i] = j
  <2>1. SUFFICES ASSUME NEW j \in B PROVE \E i \in A : g[i] = j
    OBVIOUS
  <2>2. j - 1 \in A /\ g[j - 1] = j
    BY <1>4, <1>6
  <2> QED
    BY <2>2, Zenon
<1>9. ExistsBijection(A, B)
  BY <1>6, <1>7, <1>8, Zenon DEF ExistsBijection, Bijection, Injection, Surjection, IsInjective
<1>10. IsFiniteSet(A) /\ IsFiniteSet(PlusAt(todo, x))
  BY <1>1, PlusAtFinite, Zenon DEF A
<1>11. Cardinality(B) = Cardinality(A)
  BY <1>9, <1>10, FS_Bijection, Zenon
<1>12. Cardinality(B) = IF 1 \in PlusAt(todo, x) THEN Cardinality(PlusAt(todo, x)) - 1
                        ELSE Cardinality(PlusAt(todo, x))
  BY <1>10, FS_RemoveElement, Zenon DEF B
<1>13. 1 \in PlusAt(todo, x) <=> Head(todo) = <<x, "RCVPLUS">>
  BY <1>1 DEF PlusAt
<1>14. RaisedIn(rest, x) = Cardinality(A) /\ RaisedIn(todo, x) = Cardinality(PlusAt(todo, x))
  BY Zenon DEF RaisedIn, A
<1>15. Cardinality(PlusAt(todo, x)) \in Nat
  BY <1>10, FS_CardinalityType, Zenon
<1> QED
  BY <1>11, <1>12, <1>13, <1>14, <1>15 DEF rest

\* The threads at a step of a call on the netconn, the events they still have
\* to play back, those that fetched a message and have not counted it down,
\* and whether one of them closes the netconn.
InsideOf(ap, c, p) == {a \in Apps : ap[a].c = c /\ ap[a].pc = p}
PlayedOf(ap, c) == IF InsideOf(ap, c, "replay") # {}
                   THEN ap[CHOOSE a \in InsideOf(ap, c, "replay") : TRUE].s ELSE 0
FetchedOf(ap, c) == Cardinality(InsideOf(ap, c, "minus"))
ClosingOf(ap, c) == \E p \in {"free", "delete", "netconn_free"} : InsideOf(ap, c, p) # {}

\* A netconn nobody uses is in no call.
LEMMA CallNone ==
    ASSUME NEW ap, NEW c, \A a \in Apps : ap[a].c # c
    PROVE  PlayedOf(ap, c) = 0 /\ FetchedOf(ap, c) = 0 /\ ~ClosingOf(ap, c)
<1>1. \A p : InsideOf(ap, c, p) = {}
  BY Zenon DEF InsideOf
<1> QED
  BY <1>1, FS_EmptySet, Zenon DEF PlayedOf, FetchedOf, ClosingOf

\* One that a single thread uses is in that thread's call.
LEMMA CallOne ==
    ASSUME NEW ap, NEW c, NEW a \in Apps, ap[a].c = c,
           \A b \in Apps : b # a => ap[b].c # c
    PROVE  /\ PlayedOf(ap, c) = IF ap[a].pc = "replay" THEN ap[a].s ELSE 0
           /\ FetchedOf(ap, c) = IF ap[a].pc = "minus" THEN 1 ELSE 0
           /\ ClosingOf(ap, c) <=> ap[a].pc \in {"free", "delete", "netconn_free"}
<1>1. \A p : InsideOf(ap, c, p) = IF ap[a].pc = p THEN {a} ELSE {}
  <2>1. ASSUME NEW p PROVE InsideOf(ap, c, p) = IF ap[a].pc = p THEN {a} ELSE {}
    BY Zenon DEF InsideOf
  <2> QED
    BY <2>1, Zenon
<1>2. (CHOOSE x \in {a} : TRUE) = a
  BY Zenon
<1>3. PlayedOf(ap, c) = IF ap[a].pc = "replay" THEN ap[a].s ELSE 0
  <2>1. CASE ap[a].pc = "replay"
    <3>1. InsideOf(ap, c, "replay") = {a}
      BY <1>1, <2>1, Zenon
    <3>2. (CHOOSE x \in InsideOf(ap, c, "replay") : TRUE) = a
      BY <1>2, <3>1, Zenon
    <3>3. InsideOf(ap, c, "replay") # {}
      BY <3>1, Zenon
    <3> QED
      BY <2>1, <3>2, <3>3, Zenon DEF PlayedOf
  <2>2. CASE ap[a].pc # "replay"
    <3>1. InsideOf(ap, c, "replay") = {}
      BY <1>1, <2>2, Zenon
    <3> QED
      BY <2>2, <3>1, Zenon DEF PlayedOf
  <2> QED
    BY <2>1, <2>2, Zenon
<1>4. FetchedOf(ap, c) = IF ap[a].pc = "minus" THEN 1 ELSE 0
  BY <1>1, FS_EmptySet, FS_Singleton, Zenon DEF FetchedOf
<1>5. ClosingOf(ap, c) <=> ap[a].pc \in {"free", "delete", "netconn_free"}
  BY <1>1, Zenon DEF ClosingOf
<1> QED
  BY <1>3, <1>4, <1>5, Zenon

\* The call of a thread leaves the netconns of the others alone.
LEMMA CallOther ==
    ASSUME NEW ap, NEW aq, NEW a, NEW c,
           \A b \in Apps : b # a => aq[b] = ap[b],
           ap[a].c # c, aq[a].c # c
    PROVE  /\ PlayedOf(aq, c) = PlayedOf(ap, c) /\ FetchedOf(aq, c) = FetchedOf(ap, c)
           /\ ClosingOf(aq, c) <=> ClosingOf(ap, c)
<1>1. \A p : InsideOf(aq, c, p) = InsideOf(ap, c, p)
  <2>1. ASSUME NEW p PROVE InsideOf(aq, c, p) = InsideOf(ap, c, p)
    BY Zenon DEF InsideOf
  <2> QED
    BY <2>1, Zenon
<1>2. PlayedOf(aq, c) = PlayedOf(ap, c)
  <2>1. CASE InsideOf(ap, c, "replay") = {}
    BY <1>1, <2>1, Zenon DEF PlayedOf
  <2>2. CASE InsideOf(ap, c, "replay") # {}
    <3> DEFINE x == CHOOSE b \in InsideOf(ap, c, "replay") : TRUE
    <3>1. x \in InsideOf(ap, c, "replay")
      BY <2>2, Zenon
    <3>2. PlayedOf(ap, c) = ap[x].s
      BY <2>2, Zenon DEF PlayedOf
    <3>3. PlayedOf(aq, c) = aq[x].s
      BY <1>1, <2>2, Zenon DEF PlayedOf
    <3> HIDE DEF x
    <3>4. aq[x] = ap[x]
      BY <3>1, Zenon DEF InsideOf
    <3> QED
      BY <3>2, <3>3, <3>4, Zenon
  <2> QED
    BY <2>1, <2>2, Zenon
<1> QED
  BY <1>1, <1>2, Zenon DEF FetchedOf, ClosingOf

\* What a socket owes to its mailbox, the message of err_tcp() included, and
\* EventCount of one netconn.
Owed(c) == mbox[c] + (IF failed[c] THEN 1 ELSE 0)
Balanced(c) ==
    ~ClosingOf(app, c) =>
        Seen(c) + RaisedIn(core.todo, c) + PlayedOf(app, c) = Owed(c) + FetchedOf(app, c)

\* EventCount is that of all.
LEMMA CountIsBalanced ==
    /\ EventCount <=> \A c \in Conns : Balanced(c)
    /\ EventCount' <=> \A c \in Conns : Balanced(c)'
<1>1. \A c : /\ Raised(c) = RaisedIn(core.todo, c) /\ Raised(c)' = RaisedIn(core'.todo, c)
             /\ \A p : Inside(c, p) = InsideOf(app, c, p) /\ Inside(c, p)' = InsideOf(app', c, p)
             /\ Closing(c) <=> ClosingOf(app, c)
             /\ Closing(c)' <=> ClosingOf(app', c)
  BY Zenon DEF Raised, RaisedIn, PlusAt, Inside, InsideOf, Closing, ClosingOf
<1>2. \A c : /\ (IF \E a \in Inside(c, "replay") : TRUE
                 THEN app[CHOOSE a \in Inside(c, "replay") : TRUE].s ELSE 0) = PlayedOf(app, c)
             /\ (IF \E a \in Inside(c, "replay") : TRUE
                 THEN app[CHOOSE a \in Inside(c, "replay") : TRUE].s ELSE 0)' = PlayedOf(app', c)
  BY Zenon DEF PlayedOf, Inside, InsideOf
<1>3. \A c : /\ Cardinality(Inside(c, "minus")) = FetchedOf(app, c)
             /\ Cardinality(Inside(c, "minus"))' = FetchedOf(app', c)
  BY Zenon DEF FetchedOf, Inside, InsideOf
<1>4. EventCount <=> \A c \in Conns : Balanced(c)
  BY <1>1, <1>2, <1>3, Zenon DEF EventCount, Balanced, Owed
<1>5. EventCount' <=> \A c \in Conns : Balanced(c)'
  BY <1>1, <1>2, <1>3, Zenon DEF EventCount, Balanced, Owed
<1> QED
  BY <1>4, <1>5, Zenon

\* The thread has freed the socket of its netconn, which still has its number.
Left(a) == app[a].pc \in {"delete", "netconn_free"}

\* Nobody has been given the number of a socket whose netconn is still being
\* deleted.
NoReuse ==
    \A a \in Apps : Left(a) /\ socket[app[a].c] >= 0 => conn[socket[app[a].c]] = None

\* A netconn with a socket number has that socket, or is being deleted.
AtHome(c) == socket[c] >= 0 => \/ conn[socket[c]] = c
                               \/ \E a \in Apps : app[a].c = c /\ Left(a)

\* A socket has counted nothing before its netconn knows of it, and a netconn
\* that is about to be freed has no message left and is not told of more.
CallOK(a) ==
    /\ app[a].pc = "assign" => ev[app[a].s].r = 0
    /\ app[a].pc = "netconn_free" =>
          /\ ~pcb[app[a].c] /\ mbox[app[a].c] = 0
          /\ RaisedIn(core.todo, app[a].c) # 0 => core.by = a

\* RCVMINUS is never raised under the core lock: a thread applies it itself.
NoDown(todo) == \A i \in DOMAIN todo : todo[i][2] # "RCVMINUS"

\* What rcvevent being right rests on.
CallsInv == \A a \in Apps : CallOK(a)
NetInv == \A c \in Conns : AtHome(c) /\ (pcb[c] => ~failed[c])
BalanceInv == \A c \in Conns : Balanced(c)
EventsInv == CallsInv /\ NetInv /\ BalanceInv /\ NoDown(core.todo)

\* The numbers of the balance are numbers.
LEMMA CountTypes ==
    ASSUME TypeOK, AppInv, PcbInv, NEW c \in Conns
    PROVE  /\ socket[c] \in Int /\ (socket[c] >= 0 => socket[c] \in Socks)
           /\ Seen(c) \in Int /\ RaisedIn(core.todo, c) \in Nat
           /\ PlayedOf(app, c) \in Int /\ FetchedOf(app, c) \in Nat
           /\ mbox[c] \in Nat /\ Owed(c) \in Nat
<1>t. NetType /\ EvType /\ core \in CoreSet /\ AppType
  BY TypeParts, Zenon
<1>1. socket[c] \in Int /\ mbox[c] \in Nat
  BY <1>t, Zenon DEF NetType
<1>6. Owed(c) \in Nat
  BY <1>1 DEF Owed
<1>2. socket[c] >= 0 => socket[c] \in Socks
  BY <1>1, SelectAssumption DEF PcbInv, Socks
<1>3. Seen(c) \in Int
  <2>1. \A s \in Socks : ev[s].r \in Int
    BY <1>t, Zenon DEF EvType
  <2>2. CASE socket[c] < 0
    BY <1>1, <2>2 DEF Seen
  <2>3. CASE ~(socket[c] < 0)
    <3>1. socket[c] \in Socks
      BY <1>1, <1>2, <2>3
    <3> QED
      BY <2>1, <2>3, <3>1, Zenon DEF Seen
  <2> QED
    BY <2>2, <2>3, Zenon
<1>4. RaisedIn(core.todo, c) \in Nat
  BY <1>t, PlusAtFinite, Zenon DEF CoreSet
<1>5. PlayedOf(app, c) \in Int /\ FetchedOf(app, c) \in Nat
  <2>0. 0 \in Int /\ 0 \in Nat /\ 1 \in Nat
    OBVIOUS
  <2>1. CASE \A b \in Apps : app[b].c # c
    BY <2>0, <2>1, CallNone, Zenon
  <2>2. ASSUME NEW a \in Apps, app[a].c = c PROVE PlayedOf(app, c) \in Int /\ FetchedOf(app, c) \in Nat
    <3>1. c # None
      BY SelectAssumption, Zenon DEF Conns
    <3>2. \A b \in Apps : b # a => app[b].c # c
      BY <2>2, <3>1, Zenon DEF AppInv, AppOK
    <3>3. app[a].s \in Int
      BY <1>t, Zenon DEF AppType
    <3> QED
      BY <2>0, <2>2, <3>2, <3>3, CallOne, Zenon
  <2> QED
    BY <2>1, <2>2, Zenon
<1> QED
  BY <1>1, <1>2, <1>3, <1>4, <1>5, <1>6, Zenon

\* A socket's number and its count make up what has been seen.
LEMMA SeenStays ==
    ASSUME NEW c, socket[c] \in Int, socket'[c] = socket[c],
           socket[c] >= 0 => ev'[socket[c]].r = ev[socket[c]].r
    PROVE  Seen(c)' = Seen(c)
<1>1. CASE socket[c] < 0
  BY <1>1, Zenon DEF Seen
<1>2. CASE ~(socket[c] < 0)
  <2>1. ev'[socket[c]].r = ev[socket[c]].r
    BY <1>2
  <2> QED
    BY <1>2, <2>1, Zenon DEF Seen
<1> QED
  BY <1>1, <1>2, Zenon

\* With the core lock free nothing is raised.
LEMMA RaisedFree ==
    ASSUME LockFree
    PROVE  \A c : RaisedIn(core.todo, c) = 0
  BY RaisedEmpty, Zenon DEF LockFree

\* The netconns are where they were, and so are the counts.
LEMMA EventsStay ==
    ASSUME EventsInv, UNCHANGED <<conn, socket, pcb, failed, mbox, ev, app>>,
           core'.todo = core.todo, core.todo # <<>> => core'.by = core.by
    PROVE  EventsInv'
<1>1. \A c : RaisedIn(core.todo, c) # 0 => core'.by = core.by
  BY RaisedEmpty, Zenon
<1>2. CallsInv'
  BY <1>1, Zenon DEF EventsInv, CallsInv, CallOK
<1>3. NetInv'
  BY Zenon DEF EventsInv, NetInv, AtHome, Left
<1>4. BalanceInv'
  BY Zenon DEF EventsInv, BalanceInv, Balanced, Seen, Owed
<1>5. NoDown(core'.todo)
  BY Zenon DEF EventsInv
<1> QED
  BY <1>2, <1>3, <1>4, <1>5, Zenon DEF EventsInv

\* A callback that raises what it puts into the mailboxes, or leaves behind.
LEMMA RaiseBalances ==
    ASSUME TypeOK, AppInv, PcbInv, EventsInv, LockFree, UNCHANGED <<conn, socket, ev, app>>,
           NEW events \in Seq(Conns \X Events), core' = Holding(None, events),
           NoDown(events), NEW n \in [Conns -> Nat],
           \A x \in Conns : RaisedIn(events, x) = n[x],
           \A x \in Conns : Owed(x)' = Owed(x) + n[x],
           \A x \in Conns : pcb'[x] => ~failed'[x],
           \A x \in Data : ~pcb[x] /\ ~Unused(x) => ~pcb'[x] /\ mbox'[x] = mbox[x] /\ n[x] = 0
    PROVE  EventsInv'
<1>1. core'.todo = events
  BY HoldingType, Zenon
<1>2. CallsInv'
  <2>1. SUFFICES ASSUME NEW a \in Apps PROVE CallOK(a)'
    BY Zenon DEF CallsInv
  <2>2. app[a].pc = "netconn_free" => app[a].c \in Data /\ app[a].c \in Conns /\ ~Unused(app[a].c)
    BY Zenon DEF AppInv, AppOK, Unused, Conns
  <2>3. CallOK(a)
    BY Zenon DEF EventsInv, CallsInv
  <2> QED
    BY <1>1, <2>2, <2>3, ZenonT(30) DEF CallOK
<1>3. NetInv'
  BY Zenon DEF EventsInv, NetInv, AtHome, Left
<1>4. BalanceInv'
  <2>1. SUFFICES ASSUME NEW x \in Conns, ~ClosingOf(app, x)
                 PROVE  Seen(x)' + RaisedIn(core'.todo, x) + PlayedOf(app, x)
                        = Owed(x)' + FetchedOf(app, x)
    BY Zenon DEF BalanceInv, Balanced
  <2>2. Seen(x)' = Seen(x)
    BY Zenon DEF Seen
  <2>3. RaisedIn(core.todo, x) = 0 /\ RaisedIn(core'.todo, x) = n[x]
    BY <1>1, RaisedFree, Zenon
  <2>4. Seen(x) + RaisedIn(core.todo, x) + PlayedOf(app, x) = Owed(x) + FetchedOf(app, x)
    BY <2>1, Zenon DEF EventsInv, BalanceInv, Balanced
  <2>5. /\ Seen(x) \in Int /\ PlayedOf(app, x) \in Int /\ FetchedOf(app, x) \in Nat
        /\ Owed(x) \in Nat /\ n[x] \in Nat
    BY CountTypes, Zenon
  <2>6. Seen(x) + n[x] + PlayedOf(app, x) = (Owed(x) + n[x]) + FetchedOf(app, x)
    <3>1. Seen(x) + 0 + PlayedOf(app, x) = Owed(x) + FetchedOf(app, x)
      BY <2>3, <2>4, Zenon
    <3> QED
      BY <2>5, <3>1, SMT
  <2> QED
    BY <2>2, <2>3, <2>6, Zenon
<1> QED
  BY <1>1, <1>2, <1>3, <1>4, Zenon DEF EventsInv

\* accept_function(): the netconn it takes is as new, and the listener has one
\* message more.
LEMMA AcceptEvents ==
    ASSUME TypeOK, OwnInv, EventsInv, NEW d \in Data, AcceptFunction(d)
    PROVE  EventsInv'
<1> USE DEF OwnInv
<1>l. Listener \in Conns /\ Data \subseteq Conns /\ Listener \notin Data /\ d \in Conns
      /\ d # Listener /\ None \in Apps \cup {None}
  BY SelectAssumption, Zenon DEF Conns
<1>t. NetType /\ core \in CoreSet
  BY TypeParts, Zenon
<1> DEFINE events == <<<<Listener, "RCVPLUS">>>>
           n == [x \in Conns |-> IF x = Listener THEN 1 ELSE 0]
<1>1. /\ LockFree /\ ~pcb[d] /\ socket[d] = -1
      /\ pcb' = [pcb EXCEPT ![d] = TRUE]
      /\ mbox' = [mbox EXCEPT ![Listener] = @ + 1]
      /\ core' = Holding(None, events)
      /\ UNCHANGED <<conn, socket, failed, ev, app>>
  BY Zenon DEF AcceptFunction
<1>2. events \in Seq(Conns \X Events)
  BY <1>l, RaiseOne, Zenon DEF Events
<1>3. NoDown(events)
  BY DEF NoDown
<1>4. \A x \in Conns : RaisedIn(events, x) = n[x]
  BY RaisedOne, Zenon
<1>5. n \in [Conns -> Nat]
  OBVIOUS
<1> HIDE DEF events
<1>6. \A x \in Conns : Owed(x)' = Owed(x) + n[x]
  BY <1>t, <1>1 DEF Owed, NetType
<1> HIDE DEF n
<1>7. \A x \in Data : ~pcb[x] /\ socket[x] = -1 => Unused(x)
  <2>1. \A e : ~InTodo(e)
    BY <1>t, <1>1, TodoEmpty, Zenon
  <2> QED
    BY <2>1, Zenon DEF PcbInv, Busy
<1>8. ~failed[d]
  <2>1. Unused(d)
    BY <1>1, <1>7, Zenon
  <2>2. PlayedOf(app, d) = 0 /\ FetchedOf(app, d) = 0 /\ ~ClosingOf(app, d)
    BY <2>1, CallNone, Zenon DEF Unused
  <2>3. Seen(d) + RaisedIn(core.todo, d) + PlayedOf(app, d) = Owed(d) + FetchedOf(app, d)
    BY <1>l, <2>2, Zenon DEF EventsInv, BalanceInv, Balanced
  <2>4. RaisedIn(core.todo, d) = 0
    BY <1>1, RaisedFree, Zenon
  <2>5. Seen(d) = 0
    BY <1>1 DEF Seen
  <2>6. mbox[d] \in Nat
    BY <1>l, <1>t, Zenon DEF NetType
  <2>7. Owed(d) = 0
    <3>1. 0 + 0 + 0 = Owed(d) + 0
      BY <2>2, <2>3, <2>4, <2>5, Zenon
    <3>2. Owed(d) \in Nat
      BY <1>l, CountTypes, Zenon
    <3> QED
      BY <3>1, <3>2
  <2> QED
    BY <2>6, <2>7 DEF Owed
<1>9. \A x \in Conns : pcb'[x] => ~failed'[x]
  BY <1>t, <1>1, <1>8, Zenon DEF EventsInv, NetInv, NetType
<1>10. ASSUME NEW x \in Data, ~pcb[x], ~Unused(x) PROVE ~pcb'[x] /\ mbox'[x] = mbox[x] /\ n[x] = 0
  <2>1. x # d /\ x # Listener /\ x \in Conns
    BY <1>l, <1>1, <1>7, <1>10, Zenon
  <2> QED
    BY <1>t, <1>1, <1>10, <2>1, Zenon DEF n, NetType
<1> QED
  BY <1>1, <1>2, <1>3, <1>4, <1>5, <1>6, <1>9, <1>10, RaiseBalances, Zenon

\* recv_tcp(), sent_tcp() and err_tcp() tell of what they leave in the mailbox.
LEMMA CallbackEvents ==
    ASSUME TypeOK, OwnInv, EventsInv, NEW d \in Data, NEW evt,
           RecvTcp(d) \/ SentTcp(d, evt) \/ ErrTcp(d)
    PROVE  EventsInv'
<1> USE DEF OwnInv
<1>l. Data \subseteq Conns /\ d \in Conns
  BY Zenon DEF Conns
<1>t. NetType /\ core \in CoreSet
  BY TypeParts, Zenon
<1>1. LockFree /\ pcb[d] /\ UNCHANGED <<conn, socket, ev, app>>
  BY Zenon DEF RecvTcp, SentTcp, ErrTcp, connVars
<1>2. ~failed[d]
  BY <1>l, <1>1, Zenon DEF EventsInv, NetInv
<1>3. \A x \in Data : ~pcb[x] => x # d /\ x \in Conns
  BY <1>l, <1>1, Zenon
<1>4. CASE RecvTcp(d)
  <2> DEFINE events == <<<<d, "RCVPLUS">>>>
             n == [x \in Conns |-> IF x = d THEN 1 ELSE 0]
  <2>1. /\ mbox' = [mbox EXCEPT ![d] = @ + 1] /\ core' = Holding(None, events)
        /\ UNCHANGED <<pcb, failed>>
    BY <1>4, Zenon DEF RecvTcp
  <2>2. events \in Seq(Conns \X Events)
    BY <1>l, RaiseOne, Zenon DEF Events
  <2>3. NoDown(events)
    BY DEF NoDown
  <2>4. \A x \in Conns : RaisedIn(events, x) = n[x]
    BY RaisedOne, Zenon
  <2>5. n \in [Conns -> Nat]
    OBVIOUS
  <2> HIDE DEF events
  <2>6. \A x \in Conns : Owed(x)' = Owed(x) + n[x]
    BY <1>l, <1>t, <2>1 DEF Owed, NetType
  <2>7. \A x \in Data : ~pcb[x] /\ ~Unused(x) => ~pcb'[x] /\ mbox'[x] = mbox[x] /\ n[x] = 0
    BY <1>t, <1>3, <2>1, Zenon DEF NetType
  <2>8. \A x \in Conns : pcb'[x] => ~failed'[x]
    BY <2>1, Zenon DEF EventsInv, NetInv
  <2> HIDE DEF n
  <2> QED
    BY <1>1, <2>1, <2>2, <2>3, <2>4, <2>5, <2>6, <2>7, <2>8, RaiseBalances, Zenon
<1>5. CASE SentTcp(d, evt)
  <2> DEFINE events == <<<<d, evt>>>>
             n == [x \in Conns |-> 0]
  <2>1. /\ evt \in {"SENDPLUS", "SENDMINUS"} /\ core' = Holding(None, events)
        /\ UNCHANGED <<mbox, pcb, failed>>
    BY <1>5, Zenon DEF SentTcp, connVars
  <2>2. events \in Seq(Conns \X Events)
    BY <1>l, <2>1, RaiseOne, Zenon DEF Events
  <2>3. NoDown(events)
    BY <2>1 DEF NoDown
  <2>4. \A x \in Conns : RaisedIn(events, x) = n[x]
    <3>1. evt # "RCVPLUS"
      BY <2>1
    <3> QED
      BY <3>1, RaisedOne, Zenon
  <2>5. n \in [Conns -> Nat]
    OBVIOUS
  <2> HIDE DEF events
  <2>6. \A x \in Conns : Owed(x)' = Owed(x) + n[x]
    BY <1>l, <1>t, <2>1 DEF Owed, NetType
  <2>7. \A x \in Data : ~pcb[x] /\ ~Unused(x) => ~pcb'[x] /\ mbox'[x] = mbox[x] /\ n[x] = 0
    BY <1>3, <2>1, Zenon
  <2>8. \A x \in Conns : pcb'[x] => ~failed'[x]
    BY <2>1, Zenon DEF EventsInv, NetInv
  <2> HIDE DEF n
  <2> QED
    BY <1>1, <2>1, <2>2, <2>3, <2>4, <2>5, <2>6, <2>7, <2>8, RaiseBalances, Zenon
<1>6. CASE ErrTcp(d)
  <2> DEFINE events == <<<<d, "ERROR">>, <<d, "RCVPLUS">>, <<d, "SENDPLUS">>>>
             n == [x \in Conns |-> IF x = d THEN 1 ELSE 0]
  <2>1. /\ pcb' = [pcb EXCEPT ![d] = FALSE] /\ failed' = [failed EXCEPT ![d] = TRUE]
        /\ core' = Holding(None, events) /\ UNCHANGED mbox
    BY <1>6, Zenon DEF ErrTcp
  <2>2. events \in Seq(Conns \X Events)
    BY <1>l, RaiseError, Zenon
  <2>3. NoDown(events)
    BY DEF NoDown
  <2>4. \A x \in Conns : RaisedIn(events, x) = n[x]
    BY RaisedError, Zenon
  <2>5. n \in [Conns -> Nat]
    OBVIOUS
  <2> HIDE DEF events
  <2>6. \A x \in Conns : Owed(x)' = Owed(x) + n[x]
    BY <1>l, <1>t, <1>2, <2>1 DEF Owed, NetType
  <2>7. \A x \in Data : ~pcb[x] /\ ~Unused(x) => ~pcb'[x] /\ mbox'[x] = mbox[x] /\ n[x] = 0
    BY <1>t, <1>3, <2>1, Zenon DEF NetType
  <2>8. \A x \in Conns : pcb'[x] => ~failed'[x]
    BY <1>t, <2>1, Zenon DEF EventsInv, NetInv, NetType
  <2> HIDE DEF n
  <2> QED
    BY <1>1, <2>1, <2>2, <2>3, <2>4, <2>5, <2>6, <2>7, <2>8, RaiseBalances, Zenon
<1> QED
  BY <1>4, <1>5, <1>6, Zenon

\* event_callback() counts in its own netconn only.
LEMMA CallbackSocket ==
    ASSUME TypeOK, EventCallback
    PROVE  LET c == Head(core.todo)[1]
               evt == Head(core.todo)[2]
           IN  /\ \A x \in Conns : x # c => socket'[x] = socket[x]
               /\ evt # "RCVPLUS" \/ ~(socket[c] < 0) => socket'[c] = socket[c]
<1> DEFINE c == Head(core.todo)[1]
           evt == Head(core.todo)[2]
<1>1. socket \in [Conns -> Int]
  BY Zenon DEF TypeOK
<1>2. \/ /\ socket[c] < 0
         /\ socket' = [socket EXCEPT ![c] = IF evt = "RCVPLUS" THEN @ - 1 ELSE @]
      \/ socket' = socket
  BY Zenon DEF EventCallback
<1> HIDE DEF c, evt
<1> QED
  BY <1>1, <1>2, Zenon DEF c, evt

\* A socket that event_callback() counts in belongs to the netconn of the event
\* and to no other, unless the number was given to somebody else.
LEMMA CallbackHome ==
    ASSUME NoReuse, EventsInv, NEW x \in Conns, socket[x] >= 0, conn[socket[x]] # None
    PROVE  conn[socket[x]] = x
<1>1. AtHome(x)
  BY Zenon DEF EventsInv, NetInv
<1> QED
  BY <1>1, Zenon DEF AtHome, NoReuse

\* rcvevent after an event.
LEMMA ApplyR ==
    ASSUME NEW e, e.r \in Int, NEW evt, evt # "RCVMINUS"
    PROVE  Apply(e, evt).r = e.r + (IF evt = "RCVPLUS" THEN 1 ELSE 0)
  BY DEF Apply

\* An event delivered is an event counted, before the netconn has a socket and
\* after.
LEMMA EventEvents ==
    ASSUME NoReuse, TypeOK, OwnInv, EventsInv, EventCallback
    PROVE  EventsInv'
<1> USE DEF OwnInv
<1>t. NetType /\ EvType /\ core \in CoreSet /\ AppType
  BY TypeParts, Zenon
<1>1. PICK c \in Conns, evt \in Events :
      /\ Head(core.todo) = <<c, evt>> /\ core.todo # <<>>
      /\ c = Head(core.todo)[1] /\ evt = Head(core.todo)[2]
      /\ core'.todo = Tail(core.todo)
      /\ core'.todo # <<>> => core'.by = core.by
      /\ evt = "RCVPLUS" /\ socket[c] < 0 => socket'[c] = socket[c] - 1
      /\ \A r \in Socks : r # socket[c] \/ conn[r] = None => ev'[r] = ev[r]
      /\ socket[c] >= 0 => socket[c] \in Socks
      /\ socket[c] \in Socks /\ conn[socket[c]] # None =>
            ev'[socket[c]] = Apply(ev[socket[c]], evt)
      /\ UNCHANGED <<conn, pcb, failed, mbox, app>>
  BY CallbackEffect, ZenonT(30)
<1>2. /\ \A x \in Conns : x # c => socket'[x] = socket[x]
      /\ evt # "RCVPLUS" \/ ~(socket[c] < 0) => socket'[c] = socket[c]
  BY <1>1, CallbackSocket, Zenon
<1>3. core.todo \in Seq(Conns \X Events)
  BY <1>t, Zenon DEF CoreSet
<1>4. evt # "RCVMINUS" /\ NoDown(core'.todo)
  <2>1. Head(core.todo) = core.todo[1] /\ 1 \in DOMAIN core.todo
    BY <1>1, <1>3, SMTT(30)
  <2>2. \A i \in DOMAIN Tail(core.todo) : i + 1 \in DOMAIN core.todo
                                          /\ Tail(core.todo)[i] = core.todo[i + 1]
    BY <1>1, <1>3
  <2>3. \A i \in DOMAIN core.todo : core.todo[i][2] # "RCVMINUS"
    BY Zenon DEF EventsInv, NoDown
  <2>4. evt # "RCVMINUS"
    BY <1>1, <2>1, <2>3, Zenon
  <2>5. NoDown(Tail(core.todo))
    BY <2>2, <2>3, Zenon DEF NoDown
  <2> QED
    BY <1>1, <2>4, <2>5, Zenon
<1>5. \A x \in Conns : socket[x] \in Int /\ (socket[x] >= 0 => socket[x] \in Socks)
  BY CountTypes, Zenon
<1>6. \A x \in Conns : \/ socket'[x] = socket[x]
                       \/ socket[x] < 0 /\ socket'[x] = socket[x] - 1
  BY <1>1, <1>2, Zenon
<1>7. ASSUME NEW x \in Conns, x # c, socket[x] >= 0 PROVE ev'[socket[x]] = ev[socket[x]]
  <2>1. socket[x] \in Socks
    BY <1>5, <1>7, Zenon
  <2>2. CASE socket[x] # socket[c] \/ conn[socket[x]] = None
    BY <1>1, <2>1, <2>2, Zenon
  <2>3. CASE socket[x] = socket[c] /\ conn[socket[x]] # None
    <3>1. conn[socket[x]] = x /\ conn[socket[c]] = c
      BY <1>1, <1>7, <2>3, CallbackHome, Zenon
    <3> QED
      BY <1>7, <2>3, <3>1, Zenon
  <2> QED
    BY <2>2, <2>3, Zenon
<1>8. \A x \in Conns : RaisedIn(core'.todo, x)
                       = RaisedIn(core.todo, x) - (IF <<c, evt>> = <<x, "RCVPLUS">> THEN 1 ELSE 0)
  BY <1>1, <1>3, RaisedTail, Zenon
<1>9. NetInv'
  <2>1. SUFFICES ASSUME NEW x \in Conns PROVE AtHome(x)' /\ (pcb'[x] => ~failed'[x])
    BY Zenon DEF NetInv
  <2>2. socket'[x] >= 0 => socket'[x] = socket[x]
    BY <1>5, <1>6
  <2> QED
    BY <1>1, <2>2, Zenon DEF EventsInv, NetInv, AtHome, Left
<1>10. CallsInv'
  <2>1. SUFFICES ASSUME NEW a \in Apps PROVE CallOK(a)'
    BY Zenon DEF CallsInv
  <2>2. CallOK(a) /\ AppOK(a)
    BY Zenon DEF EventsInv, CallsInv, AppInv
  <2>3. app[a].pc = "assign" => ev'[app[a].s] = ev[app[a].s]
    <3>1. HAVE app[a].pc = "assign"
    <3>2. app[a].s \in Socks /\ conn[app[a].s] = app[a].c /\ socket[app[a].c] < 0 /\ app[a].c \in Data
      BY <2>2, <3>1, Zenon DEF AppOK
    <3>3. CASE app[a].s # socket[c]
      BY <1>1, <3>2, <3>3, Zenon
    <3>4. CASE app[a].s = socket[c]
      <4>1. conn[socket[c]] # None /\ app[a].c \in Conns
        BY <3>2, <3>4, SelectAssumption, Zenon DEF Conns
      <4>2. socket[c] >= 0
        BY <3>2, <3>4, SelectAssumption DEF Socks
      <4>3. conn[socket[c]] = c
        BY <1>1, <4>1, <4>2, CallbackHome, Zenon
      <4> QED
        BY <1>5, <3>2, <3>4, <4>1, <4>2, <4>3, SMTT(30)
    <3> QED
      BY <3>3, <3>4, Zenon
  <2>4. app[a].pc = "netconn_free" => (RaisedIn(core'.todo, app[a].c) # 0 => core'.by = a)
    <3>1. SUFFICES ASSUME app[a].pc = "netconn_free", RaisedIn(core'.todo, app[a].c) # 0
                   PROVE  core'.by = a
      OBVIOUS
    <3>2. app[a].c \in Conns
      BY <2>2, <3>1, Zenon DEF AppOK, Conns
    <3>3. core'.todo # <<>>
      BY <3>1, RaisedEmpty, Zenon
    <3>4. RaisedIn(core.todo, app[a].c) # 0
      <4> DEFINE r == RaisedIn(core.todo, app[a].c)
                 q == RaisedIn(core'.todo, app[a].c)
      <4>1. Tail(core.todo) \in Seq(Conns \X Events)
        BY <1>1, <1>3
      <4>2. r \in Nat /\ q \in Nat
        BY <1>1, <1>3, <4>1, PlusAtFinite, Zenon
      <4>3. q = r - (IF <<c, evt>> = <<app[a].c, "RCVPLUS">> THEN 1 ELSE 0)
        BY <1>8, <3>2, Zenon
      <4> HIDE DEF r, q
      <4>4. q # 0 => r # 0
        BY <4>2, <4>3
      <4> QED
        BY <3>1, <4>4, Zenon DEF r, q
    <3> QED
      BY <1>1, <2>2, <3>1, <3>3, <3>4, Zenon DEF CallOK
  <2> QED
    BY <1>1, <2>2, <2>3, <2>4, Zenon DEF CallOK
<1>11. ASSUME NEW x \in Conns, x # c PROVE Balanced(x)'
  <2>1. Seen(x)' = Seen(x)
    BY <1>2, <1>5, <1>7, <1>11, SeenStays, Zenon
  <2>2. RaisedIn(core'.todo, x) = RaisedIn(core.todo, x)
    <3>1. <<c, evt>> # <<x, "RCVPLUS">>
      BY <1>11, Zenon
    <3>2. RaisedIn(core'.todo, x) = RaisedIn(core.todo, x) - 0
      BY <1>8, <3>1, Zenon
    <3>3. RaisedIn(core.todo, x) \in Nat
      BY <1>3, PlusAtFinite, Zenon
    <3> QED
      BY <3>2, <3>3
  <2> QED
    BY <1>1, <2>1, <2>2, Zenon DEF EventsInv, BalanceInv, Balanced, Owed
<1>12. Balanced(c)'
  <2>1. SUFFICES ASSUME ~ClosingOf(app, c)
                 PROVE  Seen(c)' + RaisedIn(core'.todo, c) + PlayedOf(app, c)
                        = Owed(c) + FetchedOf(app, c)
    BY <1>1, Zenon DEF Balanced, Owed
  <2>2. Seen(c) + RaisedIn(core.todo, c) + PlayedOf(app, c) = Owed(c) + FetchedOf(app, c)
    BY <1>1, <2>1, Zenon DEF EventsInv, BalanceInv, Balanced
  <2> DEFINE k == IF evt = "RCVPLUS" THEN 1 ELSE 0
  <2>3. RaisedIn(core'.todo, c) = RaisedIn(core.todo, c) - k
    <3>1. <<c, evt>> = <<c, "RCVPLUS">> <=> evt = "RCVPLUS"
      BY Zenon
    <3> QED
      BY <1>1, <1>8, <3>1, Zenon
  <2>4. Seen(c)' = Seen(c) + k
    <3>1. CASE socket[c] < 0
      <4>1. socket'[c] = socket[c] - k
        BY <1>1, <1>2, <1>5, <3>1
      <4>2. k \in {0, 1} /\ socket[c] \in Int
        BY <1>1, <1>5, Zenon
      <4> HIDE DEF k
      <4> QED
        BY <3>1, <4>1, <4>2, SMTT(30) DEF Seen
    <3>2. CASE ~(socket[c] < 0)
      <4>1. socket[c] \in Socks /\ socket[c] >= 0
        BY <1>1, <1>5, <3>2
      <4>2. conn[socket[c]] = c
        <5>1. ~\E a \in Apps : app[a].c = c /\ Left(a)
          BY <2>1, Zenon DEF ClosingOf, InsideOf, Left
        <5> QED
          BY <1>1, <4>1, <5>1, Zenon DEF EventsInv, NetInv, AtHome
      <4>3. c # None
        BY <1>1, SelectAssumption, Zenon DEF Conns
      <4>4. ev'[socket[c]] = Apply(ev[socket[c]], evt) /\ socket'[c] = socket[c]
        BY <1>1, <1>2, <3>2, <4>1, <4>2, <4>3, Zenon
      <4>5. ev[socket[c]].r \in Int
        BY <1>t, <4>1, Zenon DEF EvType
      <4>6. ev'[socket[c]].r = ev[socket[c]].r + k
        BY <1>4, <4>4, <4>5, ApplyR, Zenon
      <4> QED
        BY <3>2, <4>4, <4>6, Zenon DEF Seen
    <3> QED
      BY <3>1, <3>2, Zenon
  <2>5. /\ Seen(c) \in Int /\ PlayedOf(app, c) \in Int /\ RaisedIn(core.todo, c) \in Nat
        /\ k \in Nat
    BY <1>1, CountTypes
  <2> HIDE DEF k
  <2>6. Seen(c)' + RaisedIn(core'.todo, c) = Seen(c) + RaisedIn(core.todo, c)
    BY <2>3, <2>4, <2>5
  <2> QED
    BY <2>2, <2>6, Zenon
<1> QED
  BY <1>4, <1>9, <1>10, <1>11, <1>12, Zenon DEF EventsInv, BalanceInv

\* The threads in lwip_select() and lwip_poll() change nothing outside.
LEMMA WaiterOut ==
    ASSUME NEW t \in Threads, Waiter(t)
    PROVE  UNCHANGED outVars
  BY ZenonT(30) DEF Waiter, WaiterStep, Call, Scan, Scanned1, SemNewFails, Link, IncWaiting,
     WaitingFull, Counted, Scanned2, Wake, TimeOut, DecWaiting, Unlink, Scanned3

\* select_check_waiters() and the threads in lwip_select() change no count.
LEMMA QuietEvents ==
    ASSUME TypeOK, EventsInv,
           SelectCheckWaiters \/ (\E t \in Threads : Waiter(t)) \/ UNCHANGED vars
    PROVE  EventsInv'
<1>1. CASE SelectCheckWaiters
  <2>1. core' = Held(core.by, core.todo, None)
        /\ UNCHANGED <<conn, socket, pcb, failed, mbox, ev, app>>
    BY <1>1, Zenon DEF SelectCheckWaiters, Holding, connVars
  <2>2. core'.todo = core.todo /\ (core.todo # <<>> => core'.by = core.by)
    BY <2>1, HeldShape
  <2> QED
    BY <2>1, <2>2, EventsStay, Zenon
<1>2. ASSUME NEW t \in Threads, Waiter(t) PROVE EventsInv'
  <2>1. UNCHANGED outVars
    BY <1>2, WaiterOut, Zenon
  <2> QED
    BY <2>1, EventsStay, Zenon DEF outVars, connVars
<1>3. CASE UNCHANGED vars
  BY <1>3, EventsStay, Zenon DEF vars, connVars
<1> QED
  BY <1>1, <1>2, <1>3, Zenon

\* lwip_netconn_do_delconn() raises events of its netconn only.
LEMMA RaisedDelete ==
    ASSUME NEW c
    PROVE  /\ NoDown(DelEvents(c))
           /\ \A x : x # c => RaisedIn(DelEvents(c), x) = 0
<1> DEFINE S == {<<c, "ERROR">>, <<c, "RCVPLUS">>, <<c, "SENDPLUS">>}
<1>1. (IF pcb[c] THEN <<<<c, "ERROR">>>> ELSE <<>>) \in Seq(S)
  OBVIOUS
<1>2. <<<<c, "RCVPLUS">>, <<c, "SENDPLUS">>>> \in Seq(S)
  OBVIOUS
<1>3. \A e \in S : e[2] # "RCVMINUS" /\ \A x : x # c => e # <<x, "RCVPLUS">>
  OBVIOUS
<1> HIDE DEF S
<1>4. DelEvents(c) \in Seq(S)
  BY <1>1, <1>2 DEF DelEvents
<1>5. \A i \in DOMAIN DelEvents(c) : DelEvents(c)[i] \in S
  BY <1>4
<1>6. NoDown(DelEvents(c))
  BY <1>3, <1>5, Zenon DEF NoDown
<1>7. ASSUME NEW x, x # c PROVE RaisedIn(DelEvents(c), x) = 0
  BY <1>3, <1>5, <1>7, RaisedNone, Zenon
<1> QED
  BY <1>6, <1>7, Zenon

\* A netconn whose socket somebody else has is being closed.
LEMMA AwayCloses ==
    ASSUME EventsInv, NEW x \in Conns, socket[x] >= 0, conn[socket[x]] # x
    PROVE  ClosingOf(app, x)
<1>1. \E a \in Apps : app[a].c = x /\ Left(a)
  BY Zenon DEF EventsInv, NetInv, AtHome
<1> QED
  BY <1>1, Zenon DEF ClosingOf, InsideOf, Left

\* What a thread does to netconns that are not its own.
LEMMA OthersBalance ==
    ASSUME EventsInv, NEW a \in Apps, \A b \in Apps : b # a => app'[b] = app[b],
           NEW x \in Conns, app[a].c # x, app'[a].c # x,
           ~ClosingOf(app, x) => Seen(x)' = Seen(x),
           RaisedIn(core'.todo, x) = RaisedIn(core.todo, x), Owed(x)' = Owed(x)
    PROVE  Balanced(x)'
<1>1. /\ PlayedOf(app', x) = PlayedOf(app, x) /\ FetchedOf(app', x) = FetchedOf(app, x)
      /\ ClosingOf(app', x) <=> ClosingOf(app, x)
  BY CallOther, Zenon
<1> QED
  BY <1>1, Zenon DEF EventsInv, BalanceInv, Balanced

\* And to the calls of other threads.
LEMMA OthersCall ==
    ASSUME EventsInv, NEW b \in Apps, app'[b] = app[b],
           app[b].pc = "assign" => ev'[app[b].s].r = ev[app[b].s].r,
           app[b].pc = "netconn_free" =>
               /\ pcb'[app[b].c] => pcb[app[b].c]
               /\ mbox'[app[b].c] = mbox[app[b].c]
               /\ core' = core \/ RaisedIn(core'.todo, app[b].c) = 0
    PROVE  CallOK(b)'
  BY Zenon DEF EventsInv, CallsInv, CallOK

\* And to where the netconns are.
LEMMA OthersHome ==
    ASSUME EventsInv, NEW a \in Apps, \A b \in Apps : b # a => app'[b] = app[b],
           Left(a) => Left(a)' /\ app'[a].c = app[a].c,
           NEW x \in Conns, socket'[x] = socket[x],
           socket[x] >= 0 /\ conn[socket[x]] = x => conn'[socket[x]] = x,
           pcb'[x] => pcb[x], failed'[x] = failed[x]
    PROVE  AtHome(x)' /\ (pcb'[x] => ~failed'[x])
<1>1. \A b \in Apps : app[b].c = x /\ Left(b) => app'[b].c = x /\ Left(b)'
  BY Zenon DEF Left
<1> QED
  BY <1>1, Zenon DEF EventsInv, NetInv, AtHome

\* The netconn of a thread is in no other call.
LEMMA OwnCall ==
    ASSUME AppInv, NEW a \in Apps, app[a].c # None
    PROVE  \A b \in Apps : b # a => app[b].c # app[a].c
  BY Zenon DEF AppInv, AppOK

\* sys_arch_mbox_fetch(): the message is out of the mailbox and not counted
\* down yet.
LEMMA FetchEvents ==
    ASSUME TypeOK, OwnInv, EventsInv, NEW a \in Apps, NEW c \in Conns, Fetch(a, c)
    PROVE  EventsInv'
<1> USE DEF OwnInv
<1>l. \A x \in Conns : x # None
  BY SelectAssumption, Zenon DEF Conns
<1>t. NetType /\ AppType
  BY TypeParts, Zenon
<1>1. /\ app[a].pc = "idle" /\ Unused(c) /\ mbox[c] > 0
      /\ mbox' = [mbox EXCEPT ![c] = @ - 1]
      /\ AppTo(a, "minus", c, socket[c])
      /\ UNCHANGED <<conn, socket, pcb, failed, ev, core>>
  BY ZenonT(30) DEF Fetch, At
<1>2. socket[c] \in Int
  BY CountTypes, Zenon
<1>3. /\ app'[a].pc = "minus" /\ app'[a].c = c
      /\ \A b \in Apps : b # a => app'[b] = app[b]
  BY <1>t, <1>1, <1>2, AppMoves, Zenon
<1>4. app[a].c = None /\ ~Left(a)
  BY <1>1, Zenon DEF AppInv, AppOK, Left
<1>5. CallsInv'
  <2>1. CallOK(a)'
    BY <1>3, Zenon DEF CallOK
  <2>2. ASSUME NEW b \in Apps, b # a PROVE CallOK(b)'
    <3>1. app[b].pc = "netconn_free" => mbox'[app[b].c] = mbox[app[b].c]
      <4>1. HAVE app[b].pc = "netconn_free"
      <4>2. app[b].c \in Conns /\ app[b].c # c
        BY <1>1, <4>1, Zenon DEF AppInv, AppOK, Conns, Unused
      <4> QED
        BY <1>t, <1>1, <4>2, Zenon DEF NetType
    <3> QED
      BY <1>1, <1>3, <2>2, <3>1, OthersCall, Zenon
  <2> QED
    BY <2>1, <2>2, Zenon DEF CallsInv
<1>6. NetInv'
  BY <1>1, <1>3, <1>4, OthersHome, Zenon DEF NetInv
<1>7. ASSUME NEW x \in Conns, x # c PROVE Balanced(x)'
  <2>1. Seen(x)' = Seen(x) /\ Owed(x)' = Owed(x)
    BY <1>t, <1>1, <1>7, Zenon DEF Seen, Owed, NetType
  <2> QED
    BY <1>l, <1>1, <1>3, <1>4, <1>7, <2>1, OthersBalance, Zenon
<1>8. Balanced(c)'
  <2>1. PlayedOf(app, c) = 0 /\ FetchedOf(app, c) = 0 /\ ~ClosingOf(app, c)
    BY <1>1, CallNone, Zenon DEF Unused
  <2>2. PlayedOf(app', c) = 0 /\ FetchedOf(app', c) = 1
    <3>1. \A b \in Apps : b # a => app'[b].c # c
      BY <1>1, <1>3, Zenon DEF Unused
    <3>2. /\ PlayedOf(app', c) = IF app'[a].pc = "replay" THEN app'[a].s ELSE 0
          /\ FetchedOf(app', c) = IF app'[a].pc = "minus" THEN 1 ELSE 0
      BY <1>3, <3>1, CallOne, Zenon
    <3>3. app'[a].pc = "minus" /\ app'[a].pc # "replay"
      BY <1>3, Zenon
    <3> QED
      BY <3>2, <3>3, Zenon
  <2>3. Seen(c)' = Seen(c) /\ RaisedIn(core'.todo, c) = RaisedIn(core.todo, c)
    BY <1>1, Zenon DEF Seen
  <2>4. Owed(c)' = Owed(c) - 1
    BY <1>t, <1>1 DEF Owed, NetType
  <2>5. Seen(c) + RaisedIn(core.todo, c) + 0 = Owed(c) + 0
    BY <2>1, Zenon DEF EventsInv, BalanceInv, Balanced
  <2>6. Owed(c) \in Nat
    BY CountTypes, Zenon
  <2>7. Seen(c) + RaisedIn(core.todo, c) + 0 = (Owed(c) - 1) + 1
    BY <2>5, <2>6
  <2> QED
    BY <2>2, <2>3, <2>4, <2>7, Zenon DEF Balanced
<1>9. NoDown(core'.todo)
  BY <1>1, Zenon DEF EventsInv
<1> QED
  BY <1>5, <1>6, <1>7, <1>8, <1>9, Zenon DEF EventsInv, BalanceInv

\* The RCVMINUS event counts the fetched message down; the netconn that
\* netconn_accept() returns keeps its count.
LEMMA MinusEvents ==
    ASSUME TypeOK, OwnInv, EventsInv, NEW a \in Apps, Minus(a)
    PROVE  EventsInv'
<1> USE DEF OwnInv
<1>l. Listener \in Conns /\ Data \subseteq Conns /\ Listener \notin Data
      /\ \A x \in Conns : x # None
  BY SelectAssumption, Zenon DEF Conns
<1>t. NetType /\ AppType /\ EvType
  BY TypeParts, Zenon
<1>1. /\ app[a].pc = "minus"
      /\ ev' = [ev EXCEPT ![app[a].s] = Apply(@, "RCVMINUS")]
      /\ UNCHANGED <<conn, socket, pcb, failed, mbox, core>>
      /\ \/ app[a].c = Listener /\ AppTo(a, "alloc", Head(backlog), 0)
         \/ app[a].c # Listener /\ AppTo(a, "idle", None, 0)
  BY Zenon DEF Minus, At
<1>2. PICK c \in Conns : c = app[a].c
  BY <1>t, <1>1, Zenon DEF AppType, AppInv, AppOK
<1>3. PICK s \in Socks : s = app[a].s /\ conn[s] = c /\ socket[c] = s
  BY <1>1, <1>2, Zenon DEF AppInv, AppOK
<1>4. \A b \in Apps : b # a => app[b].c # c
  BY <1>l, <1>2, OwnCall, Zenon
<1>5. PICK d : /\ AppTo(a, IF d = None THEN "idle" ELSE "alloc", d, 0)
               /\ d \in Data \cup {None} /\ d # c
               /\ d # None => Unused(d) /\ socket[d] < 0
  <2>1. CASE app[a].c = Listener /\ AppTo(a, "alloc", Head(backlog), 0)
    <3>1. ~Unused(Listener) /\ mbox[Listener] \in Nat
      BY <1>l, <1>t, <2>1, Zenon DEF Unused, NetType
    <3>2. Len(backlog) = mbox[Listener] + 1
      BY <3>1, Zenon DEF BacklogInv
    <3>3. backlog \in Seq(Data)
      BY <1>t, Zenon DEF NetType
    <3>4. 1 \in 1 .. Len(backlog) /\ Head(backlog) = backlog[1] /\ Head(backlog) \in Data
      BY <3>1, <3>2, <3>3
    <3>5. Unused(Head(backlog)) /\ socket[Head(backlog)] < 0
      BY <3>4, Zenon DEF BacklogInv
    <3>6. Head(backlog) # None /\ Head(backlog) # c
      BY <1>l, <1>2, <2>1, <3>4, Zenon
    <3> QED
      BY <2>1, <3>4, <3>5, <3>6, Zenon
  <2>2. CASE app[a].c # Listener /\ AppTo(a, "idle", None, 0)
    BY <1>l, <2>2, Zenon
  <2> QED
    BY <1>1, <2>1, <2>2, Zenon
<1>6. d \in Conns \cup {None}
  BY <1>l, <1>5, Zenon
<1>7. /\ app'[a].pc = (IF d = None THEN "idle" ELSE "alloc") /\ app'[a].c = d
      /\ \A b \in Apps : b # a => app'[b] = app[b]
  <2>1. (IF d = None THEN "idle" ELSE "alloc") \in
          {"idle", "minus", "alloc", "assign", "replay", "free", "delete", "netconn_free"}
    BY Zenon
  <2> QED
    BY <1>t, <1>5, <1>6, <2>1, ZeroIsInt, AppMoves, Zenon
<1>8. /\ app'[a].pc # "assign" /\ app'[a].pc # "netconn_free"
      /\ app'[a].pc # "replay" /\ app'[a].pc # "minus" /\ ~Left(a)
  <2>1. app'[a].pc \in {"idle", "alloc"}
    BY <1>7, Zenon
  <2> QED
    BY <1>1, <2>1 DEF Left
<1>9. ev[s].r \in Int /\ ev'[s].r = ev[s].r - 1 /\ \A r \in Socks : r # s => ev'[r] = ev[r]
  <2>1. ev[s].r \in Int
    BY <1>t, Zenon DEF EvType
  <2>2. ev'[s] = Apply(ev[s], "RCVMINUS") /\ \A r \in Socks : r # s => ev'[r] = ev[r]
    BY <1>t, <1>1, <1>3, Zenon DEF EvType
  <2>3. Apply(ev[s], "RCVMINUS").r = ev[s].r - 1
    BY <2>1 DEF Apply
  <2> QED
    BY <2>1, <2>2, <2>3, Zenon
<1>10. \A x \in Conns : socket[x] \in Int /\ (socket[x] >= 0 => socket[x] \in Socks)
  BY CountTypes, Zenon
<1>11. s \in Int /\ s >= 0
  BY SelectAssumption DEF Socks
<1>12. CallsInv'
  <2>1. CallOK(a)'
    BY <1>8, Zenon DEF CallOK
  <2>2. ASSUME NEW b \in Apps, b # a PROVE CallOK(b)'
    <3>1. app[b].pc = "assign" => app[b].s \in Socks /\ app[b].s # s
      BY <1>3, <1>4, <2>2, Zenon DEF AppInv, AppOK
    <3> QED
      BY <1>1, <1>7, <1>9, <2>2, <3>1, OthersCall, Zenon
  <2> QED
    BY <2>1, <2>2, Zenon DEF CallsInv
<1>13. NetInv'
  BY <1>1, <1>7, <1>8, OthersHome, Zenon DEF NetInv
<1>14. ASSUME NEW x \in Conns, x # c PROVE ~ClosingOf(app, x) => Seen(x)' = Seen(x)
  <2>1. HAVE ~ClosingOf(app, x)
  <2>2. socket[x] >= 0 => socket[x] # s
    BY <1>3, <1>14, <2>1, AwayCloses, Zenon
  <2> QED
    BY <1>1, <1>9, <1>10, <2>2, SeenStays, Zenon
<1>15. \A x : RaisedIn(core'.todo, x) = RaisedIn(core.todo, x) /\ Owed(x)' = Owed(x)
  BY <1>1, Zenon DEF Owed
<1>16. ASSUME NEW x \in Conns, x # c, x # d PROVE Balanced(x)'
  BY <1>2, <1>7, <1>14, <1>15, <1>16, OthersBalance, Zenon
<1>17. ASSUME NEW x \in Conns, x = d PROVE Balanced(x)'
  <2>1. Unused(x) /\ x # c
    BY <1>l, <1>5, <1>17, Zenon
  <2>2. PlayedOf(app, x) = 0 /\ FetchedOf(app, x) = 0 /\ ~ClosingOf(app, x)
    BY <2>1, CallNone, Zenon DEF Unused
  <2>3. /\ PlayedOf(app', x) = IF app'[a].pc = "replay" THEN app'[a].s ELSE 0
        /\ FetchedOf(app', x) = IF app'[a].pc = "minus" THEN 1 ELSE 0
    <3>1. app'[a].c = x /\ \A b \in Apps : b # a => app'[b].c # x
      BY <1>7, <1>17, <2>1, Zenon DEF Unused
    <3> QED
      BY <3>1, CallOne, Zenon
  <2>4. PlayedOf(app', x) = 0 /\ FetchedOf(app', x) = 0
    BY <1>8, <2>3, Zenon
  <2>5. Seen(x)' = Seen(x)
    BY <1>14, <2>1, <2>2, Zenon
  <2> QED
    BY <1>15, <2>2, <2>4, <2>5, Zenon DEF EventsInv, BalanceInv, Balanced
<1>18. Balanced(c)'
  <2>1. PlayedOf(app, c) = 0 /\ FetchedOf(app, c) = 1 /\ ~ClosingOf(app, c)
    <3>1. /\ PlayedOf(app, c) = IF app[a].pc = "replay" THEN app[a].s ELSE 0
          /\ FetchedOf(app, c) = IF app[a].pc = "minus" THEN 1 ELSE 0
          /\ ClosingOf(app, c) <=> app[a].pc \in {"free", "delete", "netconn_free"}
      BY <1>2, <1>4, CallOne, Zenon
    <3> QED
      BY <1>1, <3>1, SMT
  <2>2. PlayedOf(app', c) = 0 /\ FetchedOf(app', c) = 0
    <3>1. \A b \in Apps : app'[b].c # c
      BY <1>4, <1>5, <1>7, Zenon
    <3> QED
      BY <3>1, CallNone, Zenon
  <2>3. Seen(c)' = Seen(c) - 1
    <3>1. Seen(c) = ev[s].r /\ Seen(c)' = ev'[s].r
      BY <1>1, <1>3, <1>11 DEF Seen
    <3> QED
      BY <1>9, <3>1, Zenon
  <2>4. Seen(c) + RaisedIn(core.todo, c) + 0 = Owed(c) + 1
    BY <2>1, Zenon DEF EventsInv, BalanceInv, Balanced
  <2>5. Seen(c) \in Int /\ RaisedIn(core.todo, c) \in Nat /\ Owed(c) \in Nat
    BY CountTypes, Zenon
  <2>6. (Seen(c) - 1) + RaisedIn(core.todo, c) + 0 = Owed(c) + 0
    BY <2>4, <2>5
  <2> QED
    BY <1>15, <2>2, <2>3, <2>6, Zenon DEF Balanced
<1>19. NoDown(core'.todo)
  BY <1>1, Zenon DEF EventsInv
<1> QED
  BY <1>12, <1>13, <1>16, <1>17, <1>18, <1>19, Zenon DEF EventsInv, BalanceInv

\* alloc_socket(): a new socket has counted nothing.
LEMMA AllocEvents ==
    ASSUME TypeOK, OwnInv, EventsInv, NEW a \in Apps, AllocSocket(a)
    PROVE  EventsInv'
<1> USE DEF OwnInv
<1>l. Data \subseteq Conns /\ \A x \in Conns : x # None
  BY SelectAssumption, Zenon DEF Conns
<1>t. NetType /\ AppType /\ EvType
  BY TypeParts, Zenon
<1>1. /\ app[a].pc = "alloc"
      /\ UNCHANGED <<socket, pcb, failed, mbox, core>>
  BY Zenon DEF AllocSocket, At
<1>2. PICK c \in Conns : c = app[a].c /\ c \in Data /\ socket[c] < 0
  BY <1>l, <1>1, Zenon DEF AppInv, AppOK
<1>3. PICK q, s : /\ AppTo(a, q, c, s) /\ s \in Int
                  /\ \/ q = "delete" /\ UNCHANGED <<conn, ev>>
                     \/ /\ q = "assign" /\ s \in Socks /\ conn[s] = None
                        /\ conn' = [conn EXCEPT ![s] = c]
                        /\ ev' = [ev EXCEPT ![s] = [r |-> 0, w |-> TRUE, e |-> FALSE]]
  <2> DEFINE free == {x \in Socks : conn[x] = None}
             new == CHOOSE x \in free : \A y \in free : x <= y
  <2>1. \/ AppTo(a, "delete", c, 0) /\ UNCHANGED <<conn, ev>>
        \/ /\ free # {}
           /\ conn' = [conn EXCEPT ![new] = c]
           /\ ev' = [ev EXCEPT ![new] = [r |-> 0, w |-> TRUE, e |-> FALSE]]
           /\ AppTo(a, "assign", c, new)
    BY <1>2, ZenonT(30) DEF AllocSocket
  <2>2. free # {} => new \in Socks /\ conn[new] = None
    BY FreeSocketIs, Zenon
  <2>3. \A x \in Socks : x \in Int
    BY DEF Socks
  <2> HIDE DEF free, new
  <2> QED
    BY <2>1, <2>2, <2>3, ZeroIsInt, Zenon
<1>4. /\ app'[a].pc = q /\ app'[a].c = c /\ app'[a].s = s
      /\ \A b \in Apps : b # a => app'[b] = app[b]
  <2>1. app' = [app EXCEPT ![a] = [pc |-> q, c |-> c, s |-> s]]
    BY <1>3, Zenon DEF AppTo
  <2>2. app'[a] = [pc |-> q, c |-> c, s |-> s] /\ \A b \in Apps : b # a => app'[b] = app[b]
    BY <1>t, <2>1, Zenon DEF AppType
  <2> QED
    BY <2>2
<1>5. \A b \in Apps : b # a => app[b].c # c
  BY <1>l, <1>2, OwnCall, Zenon
<1>6. ~Left(a) /\ q # "netconn_free" /\ q # "replay" /\ q # "minus"
  BY <1>1, <1>3 DEF Left
<1>7. \A r \in Socks : conn[r] # None => conn'[r] = conn[r] /\ ev'[r] = ev[r]
  BY <1>t, <1>3, Zenon DEF NetType, EvType
<1>8. \A x \in Conns : socket[x] \in Int /\ (socket[x] >= 0 => socket[x] \in Socks)
  BY CountTypes, Zenon
<1>9. CallsInv'
  <2>1. CallOK(a)'
    <3>1. q = "assign" => ev'[s].r = 0
      BY <1>t, <1>3 DEF EvType
    <3> QED
      BY <1>4, <1>6, <3>1, Zenon DEF CallOK
  <2>2. ASSUME NEW b \in Apps, b # a PROVE CallOK(b)'
    <3>1. app[b].pc = "assign" => app[b].s \in Socks /\ conn[app[b].s] # None
      BY <1>l, Zenon DEF AppInv, AppOK
    <3> QED
      BY <1>1, <1>4, <1>7, <2>2, <3>1, OthersCall, Zenon
  <2> QED
    BY <2>1, <2>2, Zenon DEF CallsInv
<1>10. NetInv'
  <2>1. SUFFICES ASSUME NEW x \in Conns PROVE AtHome(x)' /\ (pcb'[x] => ~failed'[x])
    BY Zenon DEF NetInv
  <2>2. socket[x] >= 0 /\ conn[socket[x]] = x => conn'[socket[x]] = x
    BY <1>l, <1>7, <1>8, Zenon
  <2> QED
    BY <1>1, <1>4, <1>6, <2>2, OthersHome, Zenon
<1>11. ASSUME NEW x \in Conns PROVE ~ClosingOf(app, x) => Seen(x)' = Seen(x)
  <2>1. HAVE ~ClosingOf(app, x)
  <2>2. socket[x] >= 0 => conn[socket[x]] # None
    BY <1>l, <2>1, AwayCloses, Zenon
  <2> QED
    BY <1>1, <1>7, <1>8, <2>2, SeenStays, Zenon
<1>12. \A x : RaisedIn(core'.todo, x) = RaisedIn(core.todo, x) /\ Owed(x)' = Owed(x)
  BY <1>1, Zenon DEF Owed
<1>13. ASSUME NEW x \in Conns, x # c PROVE Balanced(x)'
  BY <1>2, <1>4, <1>11, <1>12, <1>13, OthersBalance, Zenon
<1>14. Balanced(c)'
  <2>1. PlayedOf(app, c) = 0 /\ FetchedOf(app, c) = 0 /\ ~ClosingOf(app, c)
    <3>1. /\ PlayedOf(app, c) = IF app[a].pc = "replay" THEN app[a].s ELSE 0
          /\ FetchedOf(app, c) = IF app[a].pc = "minus" THEN 1 ELSE 0
          /\ ClosingOf(app, c) <=> app[a].pc \in {"free", "delete", "netconn_free"}
      BY <1>2, <1>5, CallOne, Zenon
    <3> QED
      BY <1>1, <3>1, SMT
  <2>2. PlayedOf(app', c) = 0 /\ FetchedOf(app', c) = 0
    <3>1. /\ PlayedOf(app', c) = IF app'[a].pc = "replay" THEN app'[a].s ELSE 0
          /\ FetchedOf(app', c) = IF app'[a].pc = "minus" THEN 1 ELSE 0
      <4>1. app'[a].c = c /\ \A b \in Apps : b # a => app'[b].c # c
        BY <1>4, <1>5, Zenon
      <4> QED
        BY <4>1, CallOne, Zenon
    <3> QED
      BY <1>4, <1>6, <3>1, Zenon
  <2> QED
    BY <1>11, <1>12, <2>1, <2>2, Zenon DEF EventsInv, BalanceInv, Balanced
<1>15. NoDown(core'.todo)
  BY <1>1, Zenon DEF EventsInv
<1> QED
  BY <1>9, <1>10, <1>13, <1>14, <1>15, Zenon DEF EventsInv, BalanceInv

\* free_socket(), in lwip_close() and when netconn_peer() fails: the netconn
\* keeps the number, and is being closed.
LEMMA FreeEvents ==
    ASSUME TypeOK, OwnInv, EventsInv, NEW a \in Apps, PeerGone(a) \/ FreeSocket(a)
    PROVE  EventsInv'
<1> USE DEF OwnInv
<1>l. Data \subseteq Conns /\ \A x \in Conns : x # None
  BY SelectAssumption, Zenon DEF Conns
<1>t. NetType /\ AppType
  BY TypeParts, Zenon
<1>1. /\ app[a].pc \in {"assign", "free"}
      /\ conn' = [conn EXCEPT ![app[a].s] = None]
      /\ AppTo(a, "delete", app[a].c, 0)
      /\ UNCHANGED <<socket, pcb, failed, mbox, ev, core>>
  BY ZenonT(30) DEF PeerGone, FreeSocket, At
<1>2. PICK c \in Conns : c = app[a].c
  BY <1>l, <1>1, Zenon DEF AppInv, AppOK
<1>3. PICK s \in Socks : s = app[a].s /\ conn[s] = c
  BY <1>1, <1>2, Zenon DEF AppInv, AppOK
<1>4. /\ app'[a].pc = "delete" /\ app'[a].c = c
      /\ \A b \in Apps : b # a => app'[b] = app[b]
  BY <1>t, <1>1, <1>2, ZeroIsInt, AppMoves, Zenon
<1>5. Left(a)' /\ ~Left(a)
  BY <1>1, <1>4 DEF Left
<1>6. CallsInv'
  <2>1. CallOK(a)'
    BY <1>4 DEF CallOK
  <2>2. ASSUME NEW b \in Apps, b # a PROVE CallOK(b)'
    BY <1>1, <1>4, <2>2, OthersCall, Zenon
  <2> QED
    BY <2>1, <2>2, Zenon DEF CallsInv
<1>7. NetInv'
  <2>1. SUFFICES ASSUME NEW x \in Conns PROVE AtHome(x)' /\ (pcb'[x] => ~failed'[x])
    BY Zenon DEF NetInv
  <2>2. CASE x = c
    <3>1. AtHome(x)'
      BY <1>4, <1>5, <2>2, Zenon DEF AtHome
    <3> QED
      BY <1>1, <3>1, Zenon DEF EventsInv, NetInv
  <2>3. CASE x # c
    <3>1. socket[x] \in Int /\ (socket[x] >= 0 => socket[x] \in Socks)
      BY CountTypes, Zenon
    <3>2. socket[x] >= 0 /\ conn[socket[x]] = x => conn'[socket[x]] = x
      BY <1>t, <1>1, <1>3, <2>3, <3>1, Zenon DEF NetType
    <3> QED
      BY <1>1, <1>4, <1>5, <3>2, OthersHome, Zenon
  <2> QED
    BY <2>2, <2>3, Zenon
<1>8. ASSUME NEW x \in Conns PROVE Balanced(x)'
  <2>1. CASE x = c
    <3>1. ClosingOf(app', c)
      BY <1>4, Zenon DEF ClosingOf, InsideOf
    <3> QED
      BY <2>1, <3>1, Zenon DEF Balanced
  <2>2. CASE x # c
    <3>1. Seen(x)' = Seen(x) /\ Owed(x)' = Owed(x)
      BY <1>1, Zenon DEF Seen, Owed
    <3> QED
      BY <1>1, <1>2, <1>4, <2>2, <3>1, OthersBalance, Zenon
  <2> QED
    BY <2>1, <2>2, Zenon
<1>9. NoDown(core'.todo)
  BY <1>1, Zenon DEF EventsInv
<1> QED
  BY <1>6, <1>7, <1>8, <1>9, Zenon DEF EventsInv, BalanceInv

\* lwip_accept() takes the events over that were counted before the socket.
LEMMA AssignEvents ==
    ASSUME TypeOK, OwnInv, EventsInv, NEW a \in Apps, Assign(a)
    PROVE  EventsInv'
<1> USE DEF OwnInv
<1>l. Data \subseteq Conns /\ \A x \in Conns : x # None
  BY SelectAssumption, Zenon DEF Conns
<1>t. NetType /\ AppType
  BY TypeParts, Zenon
<1>1. /\ app[a].pc = "assign"
      /\ socket' = [socket EXCEPT ![app[a].c] = app[a].s]
      /\ AppTo(a, "replay", app[a].c, -1 - socket[app[a].c])
      /\ UNCHANGED <<conn, pcb, failed, mbox, ev, core>>
  BY ZenonT(30) DEF Assign, At
<1>2. PICK c \in Conns : c = app[a].c /\ socket[c] < 0 /\ conn[app[a].s] = c
  BY <1>l, <1>1, Zenon DEF AppInv, AppOK
<1>3. PICK s \in Socks : s = app[a].s /\ conn[s] = c /\ ev[s].r = 0
  BY <1>1, <1>2, Zenon DEF AppInv, AppOK, EventsInv, CallsInv, CallOK
<1>4. socket[c] \in Int /\ -1 - socket[c] \in Int
  <2>1. socket[c] \in Int
    BY CountTypes, Zenon
  <2> QED
    BY <2>1
<1>5. /\ app'[a].pc = "replay" /\ app'[a].c = c /\ app'[a].s = -1 - socket[c]
      /\ \A b \in Apps : b # a => app'[b] = app[b]
  <2>1. AppTo(a, "replay", c, -1 - socket[c])
    BY <1>1, <1>2, Zenon
  <2> DEFINE k == -1 - socket[c]
  <2>2. AppTo(a, "replay", c, k) /\ k \in Int /\ c \in Conns \cup {None}
    BY <1>4, <2>1, Zenon
  <2>3. k = -1 - socket[c]
    OBVIOUS
  <2> HIDE DEF k
  <2> QED
    BY <1>t, <2>2, <2>3, AppMoves, ZenonT(30)
<1>6. \A b \in Apps : b # a => app[b].c # c
  BY <1>l, <1>2, OwnCall, Zenon
<1>7. ~Left(a)
  BY <1>1, SMTT(30) DEF Left
<1>8. CallsInv'
  <2>1. CallOK(a)'
    BY <1>5 DEF CallOK
  <2>2. ASSUME NEW b \in Apps, b # a PROVE CallOK(b)'
    BY <1>1, <1>5, <2>2, OthersCall, Zenon
  <2> QED
    BY <2>1, <2>2, Zenon DEF CallsInv
<1>9. socket'[c] = s /\ \A x \in Conns : x # c => socket'[x] = socket[x]
  BY <1>t, <1>1, <1>2, <1>3, Zenon DEF NetType
<1>10. NetInv'
  <2>1. SUFFICES ASSUME NEW x \in Conns PROVE AtHome(x)' /\ (pcb'[x] => ~failed'[x])
    BY Zenon DEF NetInv
  <2>2. CASE x = c
    <3>1. AtHome(x)'
      BY <1>1, <1>3, <1>9, <2>2, Zenon DEF AtHome
    <3> QED
      BY <1>1, <3>1, Zenon DEF EventsInv, NetInv
  <2>3. CASE x # c
    BY <1>1, <1>5, <1>7, <1>9, <2>3, OthersHome, Zenon
  <2> QED
    BY <2>2, <2>3, Zenon
<1>11. ASSUME NEW x \in Conns, x # c PROVE Balanced(x)'
  <2>1. Seen(x)' = Seen(x) /\ Owed(x)' = Owed(x)
    <3>1. socket'[x] = socket[x]
      BY <1>9, <1>11, Zenon
    <3>2. socket[x] \in Int
      BY CountTypes, Zenon
    <3>3. Seen(x)' = Seen(x)
      BY <1>1, <3>1, <3>2, SeenStays, Zenon
    <3> QED
      BY <1>1, <3>3, Zenon DEF Owed
  <2> QED
    BY <1>1, <1>2, <1>5, <1>11, <2>1, OthersBalance, Zenon
<1>12. Balanced(c)'
  <2>1. PlayedOf(app, c) = 0 /\ FetchedOf(app, c) = 0 /\ ~ClosingOf(app, c)
    <3>1. /\ PlayedOf(app, c) = IF app[a].pc = "replay" THEN app[a].s ELSE 0
          /\ FetchedOf(app, c) = IF app[a].pc = "minus" THEN 1 ELSE 0
          /\ ClosingOf(app, c) <=> app[a].pc \in {"free", "delete", "netconn_free"}
      BY <1>2, <1>6, CallOne, Zenon
    <3> QED
      BY <1>1, <3>1, SMT
  <2>2. PlayedOf(app', c) = -1 - socket[c] /\ FetchedOf(app', c) = 0
    <3>1. app'[a].c = c /\ \A b \in Apps : b # a => app'[b].c # c
      BY <1>5, <1>6, Zenon
    <3>2. /\ PlayedOf(app', c) = IF app'[a].pc = "replay" THEN app'[a].s ELSE 0
          /\ FetchedOf(app', c) = IF app'[a].pc = "minus" THEN 1 ELSE 0
      BY <3>1, CallOne, Zenon
    <3> QED
      BY <1>5, <3>2, SMT
  <2>3. Seen(c) = -1 - socket[c] /\ Seen(c)' = 0
    <3>1. s >= 0 /\ s \in Int
      BY SelectAssumption DEF Socks
    <3> QED
      BY <1>1, <1>2, <1>3, <1>9, <3>1, SMTT(30) DEF Seen
  <2>4. Owed(c)' = Owed(c) /\ RaisedIn(core'.todo, c) = RaisedIn(core.todo, c)
    BY <1>1, Zenon DEF Owed
  <2>5. Seen(c) + RaisedIn(core.todo, c) + 0 = Owed(c) + 0
    BY <2>1, Zenon DEF EventsInv, BalanceInv, Balanced
  <2>6. RaisedIn(core.todo, c) \in Nat /\ Owed(c) \in Nat
    BY CountTypes, Zenon
  <2>7. 0 + RaisedIn(core.todo, c) + (-1 - socket[c]) = Owed(c) + 0
    BY <1>4, <2>3, <2>5, <2>6
  <2> QED
    BY <2>2, <2>3, <2>4, <2>7, Zenon DEF Balanced
<1>13. NoDown(core'.todo)
  BY <1>1, Zenon DEF EventsInv
<1> QED
  BY <1>8, <1>10, <1>11, <1>12, <1>13, Zenon DEF EventsInv, BalanceInv

\* And plays them back.
LEMMA ReplayEvents ==
    ASSUME TypeOK, OwnInv, EventsInv, NEW a \in Apps, Replay(a)
    PROVE  EventsInv'
<1> USE DEF OwnInv
<1>l. Data \subseteq Conns /\ None \in Conns \cup {None} /\ \A x \in Conns : x # None
  BY SelectAssumption, Zenon DEF Conns
<1>t. NetType /\ AppType
  BY TypeParts, Zenon
<1>1. /\ app[a].pc = "replay" /\ LockFree
      /\ core' = Holding(a, Repeat(app[a].s, <<app[a].c, "RCVPLUS">>))
      /\ AppTo(a, "idle", None, 0)
      /\ UNCHANGED <<conn, socket, pcb, failed, mbox, ev>>
  BY ZenonT(30) DEF Replay, At, connVars
<1>2. PICK c \in Conns : c = app[a].c
  BY <1>l, <1>1, Zenon DEF AppInv, AppOK
<1>3. PICK n \in Nat : n = app[a].s
  <2>1. app[a].s \in Int /\ app[a].s >= 0
    BY <1>t, <1>1, Zenon DEF AppType, AppInv, AppOK
  <2> QED
    BY <2>1
<1>4. /\ app'[a].pc = "idle" /\ app'[a].c = None
      /\ \A b \in Apps : b # a => app'[b] = app[b]
  BY <1>l, <1>t, <1>1, ZeroIsInt, AppMoves, Zenon
<1>5. \A b \in Apps : b # a => app[b].c # c
  BY <1>l, <1>2, OwnCall, Zenon
<1>6. ~Left(a)
  BY <1>1 DEF Left
<1>7. core'.todo = Repeat(n, <<c, "RCVPLUS">>)
  <2>1. Repeat(n, <<c, "RCVPLUS">>) \in Seq(Conns \X Events)
    BY RaiseMany
  <2> QED
    BY <1>1, <1>2, <1>3, <2>1, HoldingType, Zenon
<1>8. RaisedIn(core'.todo, c) = n /\ \A x : x # c => RaisedIn(core'.todo, x) = 0
  <2>1. \A x : RaisedIn(Repeat(n, <<c, "RCVPLUS">>), x) = IF x = c THEN n ELSE 0
    BY RaisedMany, Zenon
  <2> QED
    BY <1>7, <2>1, Zenon
<1>9. \A x : RaisedIn(core.todo, x) = 0
  BY <1>1, RaisedFree, Zenon
<1>10. CallsInv'
  <2>1. CallOK(a)'
    BY <1>4 DEF CallOK
  <2>2. ASSUME NEW b \in Apps, b # a PROVE CallOK(b)'
    <3>1. app[b].c # c
      BY <1>5, <2>2, Zenon
    <3> QED
      BY <1>1, <1>4, <1>8, <2>2, <3>1, OthersCall, Zenon
  <2> QED
    BY <2>1, <2>2, Zenon DEF CallsInv
<1>11. NetInv'
  BY <1>1, <1>4, <1>6, OthersHome, Zenon DEF NetInv
<1>12. \A x : Seen(x)' = Seen(x) /\ Owed(x)' = Owed(x)
  BY <1>1, Zenon DEF Seen, Owed
<1>13. ASSUME NEW x \in Conns, x # c PROVE Balanced(x)'
  BY <1>l, <1>2, <1>4, <1>8, <1>9, <1>12, <1>13, OthersBalance, Zenon
<1>14. Balanced(c)'
  <2>1. PlayedOf(app, c) = n /\ FetchedOf(app, c) = 0 /\ ~ClosingOf(app, c)
    <3>1. /\ PlayedOf(app, c) = IF app[a].pc = "replay" THEN app[a].s ELSE 0
          /\ FetchedOf(app, c) = IF app[a].pc = "minus" THEN 1 ELSE 0
          /\ ClosingOf(app, c) <=> app[a].pc \in {"free", "delete", "netconn_free"}
      BY <1>2, <1>5, CallOne, Zenon
    <3> QED
      BY <1>1, <1>3, <3>1, SMT, SMTT(30)
  <2>2. PlayedOf(app', c) = 0 /\ FetchedOf(app', c) = 0
    <3>1. \A b \in Apps : app'[b].c # c
      BY <1>l, <1>4, <1>5, Zenon
    <3> QED
      BY <3>1, CallNone, Zenon
  <2>3. Seen(c) + 0 + n = Owed(c) + 0
    BY <1>9, <2>1, Zenon DEF EventsInv, BalanceInv, Balanced
  <2>4. Seen(c) \in Int
    BY CountTypes, Zenon
  <2>5. Seen(c) + n + 0 = Owed(c) + 0
    BY <2>3, <2>4
  <2> QED
    BY <1>8, <1>12, <2>2, <2>5, Zenon DEF Balanced
<1>15. NoDown(core'.todo)
  <2>1. \A i \in DOMAIN core'.todo : core'.todo[i] = <<c, "RCVPLUS">>
    BY <1>7, Zenon DEF Repeat
  <2>2. <<c, "RCVPLUS">>[2] # "RCVMINUS"
    OBVIOUS
  <2> QED
    BY <2>1, <2>2, Zenon DEF NoDown
<1> QED
  BY <1>10, <1>11, <1>13, <1>14, <1>15, Zenon DEF EventsInv, BalanceInv

\* lwip_netconn_do_delconn(), the first time and the second: nothing is left in
\* the mailbox, and what it still raises is its own.
LEMMA DeleteEvents ==
    ASSUME TypeOK, OwnInv, EventsInv, NEW a \in Apps, NEW c \in Conns, DelConn(a, c),
           NEW q \in {"free", "netconn_free"}, NEW s \in Int, AppTo(a, q, c, s),
           UNCHANGED <<conn, socket, failed, ev>>,
           app[a].c # c => app[a].c = None /\ Unused(c),
           Left(a) => q = "netconn_free" /\ app[a].c = c
    PROVE  EventsInv'
<1> USE DEF OwnInv
<1>l. c \in Conns \cup {None} /\ \A x \in Conns : x # None
  BY SelectAssumption, Zenon DEF Conns
<1>t. NetType /\ AppType
  BY TypeParts, Zenon
<1>1. /\ LockFree /\ mbox' = [mbox EXCEPT ![c] = 0] /\ pcb' = [pcb EXCEPT ![c] = FALSE]
      /\ core' = Holding(a, DelEvents(c))
  BY Zenon DEF DelConn, DelEvents
<1>2. core'.todo = DelEvents(c)
  <2>1. DelEvents(c) \in Seq(Conns \X Events)
    BY RaiseDelete, Zenon
  <2> QED
    BY <1>1, <2>1, HoldingType, Zenon
<1>3. core'.by = a
  BY <1>1, TodoDelete, Zenon
<1>4. NoDown(core'.todo) /\ \A x : x # c => RaisedIn(core'.todo, x) = 0
  BY <1>2, RaisedDelete, Zenon
<1>5. \A x : RaisedIn(core.todo, x) = 0
  BY <1>1, RaisedFree, Zenon
<1>6. /\ app'[a].pc = q /\ app'[a].c = c
      /\ \A b \in Apps : b # a => app'[b] = app[b]
  <2>1. app' = [app EXCEPT ![a] = [pc |-> q, c |-> c, s |-> s]]
    BY Zenon DEF AppTo
  <2>2. app'[a] = [pc |-> q, c |-> c, s |-> s] /\ \A b \in Apps : b # a => app'[b] = app[b]
    BY <1>t, <2>1, Zenon DEF AppType
  <2> QED
    BY <2>2
<1>7. \A b \in Apps : b # a => app[b].c # c
  <2>1. CASE app[a].c = c
    BY <1>l, <2>1, OwnCall, Zenon
  <2>2. CASE app[a].c # c
    BY <2>2, Zenon DEF Unused
  <2> QED
    BY <2>1, <2>2, Zenon
<1>8. /\ mbox'[c] = 0 /\ ~pcb'[c]
      /\ \A x \in Conns : x # c => mbox'[x] = mbox[x] /\ pcb'[x] = pcb[x]
  BY <1>t, <1>1, Zenon DEF NetType
<1>9. CallsInv'
  <2>1. CallOK(a)'
    BY <1>3, <1>6, <1>8 DEF CallOK
  <2>2. ASSUME NEW b \in Apps, b # a PROVE CallOK(b)'
    <3>1. app[b].pc = "netconn_free" => app[b].c \in Conns /\ app[b].c # c
      BY <1>7, <2>2, Zenon DEF AppInv, AppOK, Conns
    <3> QED
      BY <1>4, <1>6, <1>8, <2>2, <3>1, OthersCall, Zenon
  <2> QED
    BY <2>1, <2>2, Zenon DEF CallsInv
<1>10. NetInv'
  <2>1. SUFFICES ASSUME NEW x \in Conns PROVE AtHome(x)' /\ (pcb'[x] => ~failed'[x])
    BY Zenon DEF NetInv
  <2>2. pcb'[x] => pcb[x]
    BY <1>8, Zenon
  <2>3. Left(a) => Left(a)' /\ app'[a].c = app[a].c
    BY <1>6, Zenon DEF Left
  <2> QED
    BY <1>6, <2>2, <2>3, OthersHome, Zenon
<1>11. ASSUME NEW x \in Conns, x # c PROVE Balanced(x)'
  <2>1. Seen(x)' = Seen(x) /\ Owed(x)' = Owed(x)
    BY <1>8, <1>11, Zenon DEF Seen, Owed
  <2>2. app[a].c # x
    BY <1>l, <1>11, Zenon
  <2> QED
    BY <1>4, <1>5, <1>6, <1>11, <2>1, <2>2, OthersBalance, Zenon
<1>12. Balanced(c)'
  <2>1. ClosingOf(app', c)
    BY <1>6, Zenon DEF ClosingOf, InsideOf
  <2> QED
    BY <2>1, Zenon DEF Balanced
<1> QED
  BY <1>4, <1>9, <1>10, <1>11, <1>12, Zenon DEF EventsInv, BalanceInv

\* netconn_free(): the netconn is as new.
LEMMA NetconnFreeEvents ==
    ASSUME TypeOK, OwnInv, EventsInv, NEW a \in Apps, NetconnFree(a)
    PROVE  EventsInv'
<1> USE DEF OwnInv
<1>l. Data \subseteq Conns /\ None \in Conns \cup {None} /\ \A x \in Conns : x # None
  BY SelectAssumption, Zenon DEF Conns
<1>t. NetType /\ AppType
  BY TypeParts, Zenon
<1>1. /\ app[a].pc = "netconn_free" /\ core.by # a
      /\ socket' = [socket EXCEPT ![app[a].c] = -1]
      /\ failed' = [failed EXCEPT ![app[a].c] = FALSE]
      /\ AppTo(a, "idle", None, 0)
      /\ UNCHANGED <<conn, pcb, mbox, ev, core>>
  BY ZenonT(30) DEF NetconnFree, At, Done
<1>2. PICK c \in Conns : c = app[a].c
  BY <1>l, <1>1, Zenon DEF AppInv, AppOK
<1>3. ~pcb[c] /\ mbox[c] = 0 /\ RaisedIn(core.todo, c) = 0
  BY <1>1, <1>2, Zenon DEF EventsInv, CallsInv, CallOK
<1>4. /\ app'[a].pc = "idle" /\ app'[a].c = None
      /\ \A b \in Apps : b # a => app'[b] = app[b]
  BY <1>l, <1>t, <1>1, ZeroIsInt, AppMoves, Zenon
<1>5. \A b \in Apps : b # a => app[b].c # c
  BY <1>l, <1>2, OwnCall, Zenon
<1>6. /\ socket'[c] = -1 /\ ~failed'[c]
      /\ \A x \in Conns : x # c => socket'[x] = socket[x] /\ failed'[x] = failed[x]
  BY <1>t, <1>1, <1>2, Zenon DEF NetType
<1>7. CallsInv'
  <2>1. CallOK(a)'
    BY <1>4 DEF CallOK
  <2>2. ASSUME NEW b \in Apps, b # a PROVE CallOK(b)'
    BY <1>1, <1>4, <2>2, OthersCall, Zenon
  <2> QED
    BY <2>1, <2>2, Zenon DEF CallsInv
<1>8. NetInv'
  <2>1. SUFFICES ASSUME NEW x \in Conns PROVE AtHome(x)' /\ (pcb'[x] => ~failed'[x])
    BY Zenon DEF NetInv
  <2>2. CASE x = c
    BY <1>6, <2>2 DEF AtHome
  <2>3. CASE x # c
    <3>1. \A b \in Apps : app[b].c = x /\ Left(b) => app'[b].c = x /\ Left(b)'
      BY <1>2, <1>4, <2>3, Zenon DEF Left
    <3> QED
      BY <1>1, <1>6, <2>3, <3>1, Zenon DEF EventsInv, NetInv, AtHome
  <2> QED
    BY <2>2, <2>3, Zenon
<1>9. ASSUME NEW x \in Conns, x # c PROVE Balanced(x)'
  <2>1. socket'[x] = socket[x] /\ failed'[x] = failed[x]
    BY <1>6, <1>9, Zenon
  <2>2. Seen(x)' = Seen(x) /\ Owed(x)' = Owed(x)
    <3>1. socket[x] \in Int
      BY CountTypes, Zenon
    <3>2. Seen(x)' = Seen(x)
      BY <1>1, <2>1, <3>1, SeenStays, Zenon
    <3> QED
      BY <1>1, <2>1, <3>2, Zenon DEF Owed
  <2> QED
    BY <1>l, <1>1, <1>2, <1>4, <1>9, <2>2, OthersBalance, Zenon
<1>10. Balanced(c)'
  <2>1. PlayedOf(app', c) = 0 /\ FetchedOf(app', c) = 0
    <3>1. \A b \in Apps : app'[b].c # c
      BY <1>l, <1>4, <1>5, Zenon
    <3> QED
      BY <3>1, CallNone, Zenon
  <2>2. Seen(c)' = 0 /\ Owed(c)' = 0
    BY <1>1, <1>3, <1>6 DEF Seen, Owed
  <2>3. RaisedIn(core'.todo, c) = 0
    BY <1>1, <1>3, Zenon
  <2>4. 0 + 0 + 0 = 0 + 0
    OBVIOUS
  <2> QED
    BY <2>1, <2>2, <2>3, <2>4, Zenon DEF Balanced
<1>11. NoDown(core'.todo)
  BY <1>1, Zenon DEF EventsInv
<1> QED
  BY <1>7, <1>8, <1>9, <1>10, <1>11, Zenon DEF EventsInv, BalanceInv

\* Every step counts right, as long as no socket number is given out while a
\* netconn with that number is still being deleted.
LEMMA EventsStep ==
    ASSUME NoReuse, TypeOK, OwnInv, EventsInv, [Next]_vars
    PROVE  EventsInv'
<1>l. Data \subseteq Conns
  BY Zenon DEF Conns
<1>1. CASE UNCHANGED vars
  BY <1>1, QuietEvents, Zenon
<1>2. CASE Stack
  <2>1. ASSUME NEW d \in Data, NEW evt \in Events,
               AcceptFunction(d) \/ RecvTcp(d) \/ ErrTcp(d) \/ SentTcp(d, evt)
        PROVE  EventsInv'
    BY <2>1, AcceptEvents, CallbackEvents, Zenon
  <2>2. "ERROR" \in Events
    BY Zenon DEF Events
  <2> QED
    BY <1>2, <2>1, <2>2, EventEvents, QuietEvents, Zenon DEF Stack
<1>3. ASSUME NEW a \in Apps, App(a) PROVE EventsInv'
  <2>1. ASSUME NEW c \in Conns, Fetch(a, c) PROVE EventsInv'
    BY <2>1, FetchEvents, Zenon
  <2>2. ASSUME NEW c \in Conns, Close(a, c) PROVE EventsInv'
    <3>1. /\ app[a].pc = "idle" /\ Unused(c) /\ DelConn(a, c) /\ AppTo(a, "free", c, socket[c])
          /\ UNCHANGED <<conn, socket, failed, ev>>
      BY <2>2, ZenonT(30) DEF Close, At
    <3>2. app[a].c = None /\ ~Left(a)
      BY <3>1, Zenon DEF OwnInv, AppInv, AppOK, Left
    <3>3. socket[c] \in Int /\ "free" \in {"free", "netconn_free"}
      BY CountTypes, Zenon DEF OwnInv
    <3> QED
      BY <3>1, <3>2, <3>3, DeleteEvents, Zenon
  <2>3. CASE NetconnDelete(a)
    <3>1. /\ app[a].pc = "delete" /\ DelConn(a, app[a].c)
          /\ AppTo(a, "netconn_free", app[a].c, 0) /\ UNCHANGED <<conn, socket, failed, ev>>
      BY <2>3, ZenonT(30) DEF NetconnDelete, At
    <3>2. PICK c \in Conns : c = app[a].c
      BY <1>l, <3>1, Zenon DEF OwnInv, AppInv, AppOK
    <3>3. DelConn(a, c) /\ AppTo(a, "netconn_free", c, 0)
      BY <3>1, <3>2, Zenon
    <3>4. "netconn_free" \in {"free", "netconn_free"}
      BY Zenon
    <3> QED
      BY <3>1, <3>2, <3>3, <3>4, ZeroIsInt, DeleteEvents, Zenon
  <2>4. CASE Minus(a) \/ AllocSocket(a) \/ PeerGone(a) \/ FreeSocket(a)
    BY <2>4, MinusEvents, AllocEvents, FreeEvents, Zenon
  <2>5. CASE Assign(a) \/ Replay(a) \/ NetconnFree(a)
    BY <2>5, AssignEvents, ReplayEvents, NetconnFreeEvents, Zenon
  <2> QED
    BY <1>3, <2>1, <2>2, <2>3, <2>4, <2>5, Zenon DEF App, AppStep
<1>4. CASE \E t \in Threads : Waiter(t)
  BY <1>4, QuietEvents, Zenon
<1> QED
  BY <1>1, <1>2, <1>3, <1>4, Zenon DEF Next

\* The counts are right when the listener has just been opened.
LEMMA EventsStart ==
    ASSUME Init
    PROVE  EventsInv
<1>l. Listener \in Conns /\ Listener \notin Data /\ None \notin Conns /\ 0 \in Socks
  BY SelectAssumption DEF Conns, Socks
<1>1. core.todo = <<>>
  <2>1. core = Held(None, <<>>, None)
    BY Zenon DEF Init, Holding
  <2> QED
    BY <2>1, HeldShape
<1>2. \A a \in Apps : app[a].pc = "idle" /\ app[a].c = None
  BY Zenon DEF Init
<1>3. CallsInv
  BY <1>2 DEF CallsInv, CallOK
<1>4. NetInv
  <2>1. SUFFICES ASSUME NEW c \in Conns PROVE AtHome(c) /\ (pcb[c] => ~failed[c])
    BY Zenon DEF NetInv
  <2>2. ~failed[c]
    BY Zenon DEF Init
  <2>3. c # Listener => ~(socket[c] >= 0)
    BY DEF Init
  <2>4. socket[Listener] = 0 /\ conn[0] = Listener
    BY <1>l, Zenon DEF Init
  <2> QED
    BY <2>2, <2>3, <2>4, Zenon DEF AtHome
<1>5. BalanceInv
  <2>1. SUFFICES ASSUME NEW c \in Conns PROVE Balanced(c)
    BY Zenon DEF BalanceInv
  <2>2. PlayedOf(app, c) = 0 /\ FetchedOf(app, c) = 0
    <3>1. \A a \in Apps : app[a].c # c
      BY <1>l, <1>2, Zenon
    <3> QED
      BY <3>1, CallNone, Zenon
  <2>3. RaisedIn(core.todo, c) = 0
    BY <1>1, RaisedEmpty, Zenon
  <2>4. Owed(c) = 0
    BY DEF Init, Owed
  <2>5. Seen(c) = 0
    <3>1. CASE c = Listener
      <4>1. socket[c] = 0 /\ ev[0].r = 0
        BY <1>l, <3>1 DEF Init
      <4> QED
        BY <4>1 DEF Seen
    <3>2. CASE c # Listener
      <4>1. socket[c] = -1
        BY <3>2, Zenon DEF Init
      <4> QED
        BY <4>1 DEF Seen
    <3> QED
      BY <3>1, <3>2, Zenon
  <2>6. 0 + 0 + 0 = 0 + 0
    OBVIOUS
  <2> QED
    BY <2>2, <2>3, <2>4, <2>5, <2>6, Zenon DEF Balanced
<1>6. NoDown(core.todo)
  <2>1. DOMAIN <<>> = {}
    BY SMT
  <2> QED
    BY <1>1, <2>1, Zenon DEF NoDown
<1> QED
  BY <1>3, <1>4, <1>5, <1>6, Zenon DEF EventsInv

\* EventCount is one conjunct of the invariant.
LEMMA EventsCount ==
    ASSUME EventsInv
    PROVE  EventCount
  BY CountIsBalanced, Zenon DEF EventsInv, BalanceInv

\* rcvevent counts the messages in the mailbox, for any number of threads,
\* sockets and connections, as long as alloc_socket() gives out no number that a
\* netconn still being deleted has in its callback_arg.
THEOREM MessagesCounted == Spec /\ []NoReuse => []EventCount
<1>1. Init => EventsInv
  BY EventsStart, Zenon
<1>2. TypeOK /\ OwnInv /\ NoReuse /\ EventsInv /\ [Next]_vars => EventsInv'
  BY EventsStep, Zenon
<1>3. EventsInv => EventCount
  BY EventsCount, Zenon
<1> HIDE DEF TypeOK, OwnInv, NoReuse, EventsInv, EventCount
<1> QED
  BY <1>1, <1>2, <1>3, SocketsOwned, PTL DEF Spec

\* With one application thread the number of a netconn that is being deleted
\* stays free.
LEMMA AloneStep ==
    ASSUME \A a, b \in Apps : a = b, TypeOK, OwnInv, NoReuse, [Next]_vars
    PROVE  NoReuse'
<1> USE DEF OwnInv
<1>l. Data \subseteq Conns /\ \A x \in Conns : x # None
  BY SelectAssumption, Zenon DEF Conns
<1>t. NetType /\ AppType
  BY TypeParts, Zenon
<1>1. CASE UNCHANGED <<app, conn, socket>>
  BY <1>1, Zenon DEF NoReuse, Left
<1>2. CASE EventCallback
  <2>1. UNCHANGED <<app, conn>> /\ \A x \in Conns : \/ socket'[x] = socket[x]
                                                    \/ socket[x] < 0 /\ socket'[x] = socket[x] - 1
    BY <1>2, CallbackEffect, Zenon
  <2>2. SUFFICES ASSUME NEW a \in Apps, Left(a), socket'[app[a].c] >= 0
                 PROVE  conn[socket'[app[a].c]] = None
    BY <2>1, Zenon DEF NoReuse, Left
  <2>3. app[a].c \in Conns
    BY <1>l, <2>2, Zenon DEF AppInv, AppOK, Left
  <2>4. socket[app[a].c] \in Int
    BY <1>t, <2>3, Zenon DEF NetType
  <2>5. socket'[app[a].c] = socket[app[a].c]
    BY <2>1, <2>2, <2>3, <2>4
  <2> QED
    BY <2>2, <2>5, Zenon DEF NoReuse
<1>3. ASSUME NEW a \in Apps, App(a) PROVE NoReuse'
  <2>0. \A b \in Apps : b = a
    BY Zenon
  <2>1. SUFFICES ASSUME app'[a].pc \in {"delete", "netconn_free"}, socket'[app'[a].c] >= 0
                 PROVE  conn'[socket'[app'[a].c]] = None
    BY <2>0, Zenon DEF NoReuse, Left
  <2>2. ASSUME NEW p, NEW c, NEW s, AppTo(a, p, c, s)
        PROVE  app'[a].pc = p /\ app'[a].c = c
    <3>1. app'[a] = [pc |-> p, c |-> c, s |-> s]
      BY <1>t, <2>2, Zenon DEF AppTo, AppType
    <3> QED
      BY <3>1
  <2>3. CASE \/ Minus(a) \/ Assign(a) \/ Replay(a) \/ NetconnFree(a)
             \/ \E c \in Conns : Fetch(a, c) \/ Close(a, c)
    <3>1. \E p, c, s : AppTo(a, p, c, s) /\ p \in {"alloc", "idle", "replay", "minus", "free"}
      BY <2>3, Zenon DEF Minus, Assign, Replay, NetconnFree, Fetch, Close
    <3>2. app'[a].pc \in {"alloc", "idle", "replay", "minus", "free"}
      BY <2>2, <3>1, Zenon
    <3> QED
      BY <2>1, <3>2
  <2>4. CASE AllocSocket(a)
    <3>1. /\ app[a].pc = "alloc" /\ UNCHANGED socket
          /\ \E p, s : AppTo(a, p, app[a].c, s)
      BY <2>4, Zenon DEF AllocSocket, At
    <3>2. app'[a].c = app[a].c
      BY <2>2, <3>1, Zenon
    <3>3. app[a].c \in Conns /\ socket[app[a].c] < 0
      BY <1>l, <3>1, Zenon DEF AppInv, AppOK
    <3>4. socket[app[a].c] \in Int
      BY <1>t, <3>3, Zenon DEF NetType
    <3> QED
      BY <2>1, <3>1, <3>2, <3>3, <3>4, SMTT(30)
  <2>5. CASE PeerGone(a) \/ FreeSocket(a)
    <3>1. /\ app[a].pc \in {"assign", "free"} /\ UNCHANGED socket
          /\ conn' = [conn EXCEPT ![app[a].s] = None]
          /\ AppTo(a, "delete", app[a].c, 0)
      BY <2>5, Zenon DEF PeerGone, FreeSocket, At
    <3>2. app'[a].c = app[a].c
      BY <2>2, <3>1, Zenon
    <3>3. app[a].c \in Conns /\ app[a].s \in Socks
          /\ (socket[app[a].c] < 0 \/ socket[app[a].c] = app[a].s)
      BY <1>l, <3>1, Zenon DEF AppInv, AppOK
    <3>4. socket[app[a].c] \in Int
      BY <1>t, <3>3, Zenon DEF NetType
    <3>5. socket[app[a].c] = app[a].s
      BY <2>1, <3>1, <3>2, <3>3, <3>4, SMTT(30)
    <3> QED
      BY <1>t, <3>1, <3>2, <3>3, <3>5, Zenon DEF NetType
  <2>6. CASE NetconnDelete(a)
    <3>1. /\ app[a].pc = "delete" /\ UNCHANGED <<conn, socket>>
          /\ AppTo(a, "netconn_free", app[a].c, 0)
      BY <2>6, Zenon DEF NetconnDelete, At
    <3>2. app'[a].c = app[a].c
      BY <2>2, <3>1, Zenon
    <3> QED
      BY <2>1, <3>1, <3>2, Zenon DEF NoReuse, Left
  <2> QED
    BY <1>3, <2>3, <2>4, <2>5, <2>6, Zenon DEF App, AppStep
<1>4. CASE Stack /\ ~EventCallback
  BY <1>1, <1>4, Zenon DEF Stack, AcceptFunction, RecvTcp, SentTcp, ErrTcp, SelectCheckWaiters,
     connVars
<1>5. CASE UNCHANGED vars
  BY <1>1, <1>5, Zenon DEF vars, connVars
<1>6. ASSUME NEW t \in Threads, Waiter(t) PROVE NoReuse'
  <2>1. UNCHANGED outVars
    BY <1>6, WaiterOut, Zenon
  <2> QED
    BY <1>1, <2>1, Zenon DEF outVars, connVars
<1> QED
  BY <1>2, <1>3, <1>4, <1>5, <1>6, Zenon DEF Next

\* So with one application thread rcvevent counts right without a condition.
THEOREM MessagesCountedAlone ==
    ASSUME \A a, b \in Apps : a = b
    PROVE  Spec => []EventCount
<1>1. Init => NoReuse
  <2>1. ASSUME Init PROVE \A a \in Apps : app[a].pc = "idle"
    BY <2>1, Zenon DEF Init
  <2>2. \A a \in Apps : app[a].pc = "idle" => ~Left(a)
    BY DEF Left
  <2> QED
    BY <2>1, <2>2, Zenon DEF NoReuse
<1>2. TypeOK /\ OwnInv /\ NoReuse /\ [Next]_vars => NoReuse'
  BY AloneStep, Zenon
<1>3. Spec => []NoReuse
  <2> HIDE DEF TypeOK, OwnInv, NoReuse
  <2> QED
    BY <1>1, <1>2, SocketsOwned, PTL DEF Spec
<1> HIDE DEF NoReuse, EventCount
<1> QED
  BY <1>3, MessagesCounted, PTL

=============================================================================
