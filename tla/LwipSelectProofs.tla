-------------------------- MODULE LwipSelectProofs --------------------------
(***************************************************************************)
(* For any number of threads, sockets and connections: who owns the        *)
(* netconns and the sockets; then lwip_select() and lwip_poll():           *)
(* select_waiting counts the threads that wait, and no wake-up is lost.    *)
(***************************************************************************)
EXTENDS LwipSelect, FiniteSetTheorems, TLAPS

\* An event is raised and not delivered yet.
InTodo(e) == \E i \in 1 .. Len(core.todo) : core.todo[i] = e

\* A netconn that an application thread, the acceptmbox or a socket has.
Waits(c) == \E i \in 1 .. Len(backlog) : backlog[i] = c
Busy(c) == Waits(c) \/ ~Unused(c) \/ \E s \in Socks : conn[s] = c

\* Which netconn and socket a thread has at each step.
AppOK(a) ==
    LET c == app[a].c
        s == app[a].s
    IN  /\ app[a].pc = "idle" <=> c = None
        /\ c # None => \A b \in Apps : b # a => app[b].c # c
        /\ app[a].pc \notin {"idle", "minus"} => c \in Data
        /\ app[a].pc \in {"minus", "free"} => s \in Socks /\ conn[s] = c /\ socket[c] = s
        /\ app[a].pc = "assign" => s \in Socks /\ conn[s] = c /\ socket[c] < 0 /\ ev[s].w
        /\ app[a].pc = "alloc" => socket[c] < 0
        /\ app[a].pc \in {"alloc", "delete", "netconn_free"} => \A r \in Socks : conn[r] # c
        /\ app[a].pc = "replay" => s >= 0
        /\ app[a].pc = "free" =>
              ~pcb[c] /\ (ev[s].w \/ (core.by = a /\ InTodo(<<c, "SENDPLUS">>)))

AppInv == \A a \in Apps : AppOK(a)

\* The netconns in the acceptmbox are those that listener messages stand for;
\* nobody else has one.
BacklogInv ==
    /\ \A i, j \in 1 .. Len(backlog) : i # j => backlog[i] # backlog[j]
    /\ \A i \in 1 .. Len(backlog) :
          /\ socket[backlog[i]] < 0 /\ Unused(backlog[i])
          /\ \A s \in Socks : conn[s] # backlog[i]
    /\ Len(backlog) = mbox[Listener] + (IF Unused(Listener) THEN 0 ELSE 1)

\* A netconn is on one socket.  One with a pcb and a socket number owns that
\* socket; only such a one can be told that there is too little room to write.
\* A netconn that lost its pcb is not taken for a free one before it has been
\* deleted.
PcbInv ==
    /\ \A r, s \in Socks : conn[r] = conn[s] /\ conn[r] # None => r = s
    /\ \A d \in Conns : pcb[d] /\ socket[d] >= 0 => socket[d] \in Socks /\ conn[socket[d]] = d
    /\ \A d \in Conns : socket[d] < NSock
    /\ \A d \in Conns : InTodo(<<d, "SENDMINUS">>) => pcb[d]
    /\ \A d \in Data : ~pcb[d] /\ Busy(d) => socket[d] # -1 \/ InTodo(<<d, "RCVPLUS">>)

\* A socket number that was given back is writable for whoever still waits on
\* it: lwip_close() signals before it frees the socket.
FreeInv == \A s \in Socks : conn[s] = None /\ ~ev[s].w => \A t \in Threads : s \notin SocksOf(want[t])

\* Every netconn, socket and listener message has the owner it should have.
OwnInv == AppInv /\ BacklogInv /\ PcbInv /\ FreeInv

-----------------------------------------------------------------------------
(* Types.                                                                  *)

\* A non-empty set of naturals has a least element.
LEMMA Least ==
    ASSUME NEW S \in SUBSET Nat, S # {}
    PROVE  \E x \in S : \A y \in S : x <= y
<1> DEFINE R == OpToRel(<, Nat)
<1>1. IsWellFoundedOn(R, Nat)
  BY NatLessThanWellFounded, Zenon
<1>2. \A x, y \in Nat : <<x, y>> \in R <=> x < y
  BY Zenon DEF OpToRel
<1> HIDE DEF R
<1>3. \E x \in S : \A y \in S : ~(<<y, x>> \in R)
  BY <1>1, WFMin, Zenon
<1>4. PICK x \in S : \A y \in S : ~(<<y, x>> \in R)
  BY <1>3, Zenon
<1>5. \A y \in S : ~(y < x)
  BY <1>2, <1>4, Zenon
<1>6. \A y \in S : x <= y
  BY <1>5
<1> QED
  BY <1>6, Zenon

\* The loops of lwip_select() and lwip_poll() take a socket they still have.
LEMMA FirstIn ==
    ASSUME NEW S \in SUBSET Socks, S # {}
    PROVE  First(S) \in S
<1>1. S \in SUBSET Nat
  BY SelectAssumption DEF Socks
<1> QED
  BY <1>1, Least, Zenon DEF First

\* The sockets of a call are sockets.
LEMMA SocksOfType ==
    ASSUME NEW w \in SUBSET (Socks \X Kinds)
    PROVE  SocksOf(w) \in SUBSET Socks
  BY Zenon DEF SocksOf

\* What the parts of the core lock's record are.
LEMMA HeldParts ==
    ASSUME NEW by \in Apps \cup {None}, NEW events \in Seq(Conns \X Events),
           NEW check \in [s : Socks, has : SUBSET Kinds] \cup {None}
    PROVE  /\ Held(by, events, check) \in
                [by : Apps \cup {None}, todo : Seq(Conns \X Events),
                 check : [s : Socks, has : SUBSET Kinds] \cup {None}]
           /\ Held(by, events, check).todo = events
           /\ Held(by, events, check).check = check
           /\ events # <<>> \/ check # None => Held(by, events, check).by = by
  BY Zenon DEF Held

\* An event applied gives counters again.
LEMMA ApplyType ==
    ASSUME NEW e \in [r : Int, w : BOOLEAN, e : BOOLEAN], NEW evt
    PROVE  Apply(e, evt) \in [r : Int, w : BOOLEAN, e : BOOLEAN]
  BY DEF Apply

\* TypeOK by who changes what: the netconns, the sockets, the core lock, the
\* application threads, and the calls of lwip_select() and lwip_poll().
NetType ==
    /\ conn \in [Socks -> Conns \cup {None}]
    /\ socket \in [Conns -> Int] /\ mbox \in [Conns -> Nat]
    /\ pcb \in [Conns -> BOOLEAN] /\ failed \in [Conns -> BOOLEAN]
    /\ backlog \in Seq(Data)
EvType == ev \in [Socks -> [r : Int, w : BOOLEAN, e : BOOLEAN]]
WaitingType == waiting \in [Socks -> 0 .. SelWaitMod - 1]
CoreSet == [by : Apps \cup {None}, todo : Seq(Conns \X Events),
            check : [s : Socks, has : SUBSET Kinds] \cup {None}]
AppType ==
    app \in [Apps -> [pc : {"idle", "minus", "alloc", "assign", "replay", "free", "delete",
                            "netconn_free"},
                      c : Conns \cup {None}, s : Int]]
CallType ==
    /\ pc \in [Threads -> {"idle", "scan1", "link", "inc", "scan2", "wait", "dec", "scan3"}]
    /\ want \in [Threads -> SUBSET (Socks \X Kinds)]
    /\ tmo \in [Threads -> Timeouts \cup {"poll"}]
    /\ left \in [Threads -> SUBSET Socks] /\ counted \in [Threads -> SUBSET Socks]
    /\ nready \in [Threads -> BOOLEAN]
    /\ res \in [Threads -> {"none", "timeout", "error"}]
CbType == linked \subseteq Threads /\ signalled \in [Threads -> BOOLEAN] /\ sem \in [Threads -> Nat]

\* The parts make up the whole.
LEMMA TypeParts ==
    /\ TypeOK <=> /\ NetType /\ EvType /\ WaitingType /\ core \in CoreSet
                  /\ AppType /\ CallType /\ CbType
    /\ TypeOK' <=> /\ NetType' /\ EvType' /\ WaitingType' /\ core' \in CoreSet
                   /\ AppType' /\ CallType' /\ CbType'
  BY Zenon DEF TypeOK, NetType, EvType, WaitingType, CoreSet, AppType, CallType, CbType

\* A part whose variables do not change keeps its type.
LEMMA TypeStays ==
    /\ NetType /\ UNCHANGED connVars => NetType'
    /\ EvType /\ UNCHANGED ev => EvType'
    /\ WaitingType /\ UNCHANGED waiting => WaitingType'
    /\ AppType /\ UNCHANGED app => AppType'
    /\ CallType /\ UNCHANGED callVars => CallType'
    /\ CbType /\ UNCHANGED <<linked, cbVars>> => CbType'
  BY Zenon DEF NetType, EvType, WaitingType, AppType, CallType, CbType, connVars,
     callVars, cbVars

\* The netconns and the events that the callbacks and netconn calls raise.
LEMMA RaiseOne ==
    ASSUME NEW c \in Conns, NEW evt \in Events
    PROVE  <<<<c, evt>>>> \in Seq(Conns \X Events)
<1>1. <<c, evt>> \in Conns \X Events
  BY Zenon
<1> QED
  BY <1>1

\* What err_tcp() raises is a sequence of events.
LEMMA RaiseError ==
    ASSUME NEW c \in Conns
    PROVE  <<<<c, "ERROR">>, <<c, "RCVPLUS">>, <<c, "SENDPLUS">>>> \in Seq(Conns \X Events)
<1>1. <<c, "ERROR">> \in Conns \X Events /\ <<c, "RCVPLUS">> \in Conns \X Events
      /\ <<c, "SENDPLUS">> \in Conns \X Events
  BY Zenon DEF Events
<1> QED
  BY <1>1

\* So is what lwip_accept() plays back.
LEMMA RaiseMany ==
    ASSUME NEW c \in Conns, NEW n \in Int
    PROVE  Repeat(n, <<c, "RCVPLUS">>) \in Seq(Conns \X Events)
<1>1. <<c, "RCVPLUS">> \in Conns \X Events
  BY Zenon DEF Events
<1>2. CASE n \in Nat
  BY <1>1, <1>2 DEF Repeat
<1>3. CASE n \notin Nat
  <2>1. 1 .. n = 1 .. 0
    BY <1>3
  <2>2. Repeat(n, <<c, "RCVPLUS">>) = [i \in 1 .. 0 |-> <<c, "RCVPLUS">>]
    BY <2>1, Zenon DEF Repeat
  <2> QED
    BY <1>1, <2>2
<1> QED
  BY <1>2, <1>3, Zenon

\* What lwip_netconn_do_delconn() raises.
DelEvents(c) == (IF pcb[c] THEN <<<<c, "ERROR">>>> ELSE <<>>)
                \o <<<<c, "RCVPLUS">>, <<c, "SENDPLUS">>>>

\* And what lwip_netconn_do_delconn() raises.
LEMMA RaiseDelete ==
    ASSUME NEW c \in Conns
    PROVE  DelEvents(c) \in Seq(Conns \X Events)
<1>1. <<c, "ERROR">> \in Conns \X Events /\ <<c, "RCVPLUS">> \in Conns \X Events
      /\ <<c, "SENDPLUS">> \in Conns \X Events
  BY Zenon DEF Events
<1>2. (IF pcb[c] THEN <<<<c, "ERROR">>>> ELSE <<>>) \in Seq(Conns \X Events)
  BY <1>1
<1>3. <<<<c, "RCVPLUS">>, <<c, "SENDPLUS">>>> \in Seq(Conns \X Events)
  BY <1>1
<1> QED
  BY <1>2, <1>3 DEF DelEvents

\* Who raises them holds the core lock.
LEMMA HoldingType ==
    ASSUME NEW by \in Apps \cup {None}, NEW events \in Seq(Conns \X Events)
    PROVE  /\ Holding(by, events) \in CoreSet
           /\ Holding(by, events).todo = events /\ Holding(by, events).check = None
           /\ Holding(by, events).by = IF events = <<>> THEN None ELSE by
  BY Zenon DEF Holding, Held, CoreSet

\* The callbacks of the stack keep the types.
LEMMA StackTypes ==
    ASSUME TypeOK, PcbInv, Stack
    PROVE  TypeOK'
<1>l. Listener \in Conns /\ Data \subseteq Conns /\ None \in Apps \cup {None}
  BY Zenon DEF Conns
<1>t. /\ NetType /\ EvType /\ WaitingType /\ core \in CoreSet
      /\ AppType /\ CallType /\ CbType
  BY TypeParts, Zenon
<1>1. ASSUME NEW d \in Data, AcceptFunction(d) PROVE TypeOK'
  <2>1. core' = Holding(None, <<<<Listener, "RCVPLUS">>>>)
    BY <1>1, Zenon DEF AcceptFunction
  <2>2. <<<<Listener, "RCVPLUS">>>> \in Seq(Conns \X Events)
    BY <1>l, RaiseOne, Zenon DEF Events
  <2>3. core' \in CoreSet
    BY <1>l, <2>1, <2>2, HoldingType, Zenon
  <2>4. backlog' \in Seq(Data)
    BY <1>1, <1>t DEF NetType, AcceptFunction
  <2>5. NetType'
    BY <1>1, <1>l, <1>t, <2>4 DEF NetType, AcceptFunction
  <2>6. UNCHANGED <<ev, waiting, app, linked, callVars, cbVars>>
    BY <1>1, Zenon DEF AcceptFunction
  <2> QED
    BY <1>t, <2>3, <2>5, <2>6, TypeParts, TypeStays, Zenon
<1>2. ASSUME NEW d \in Data, RecvTcp(d) PROVE TypeOK'
  <2>1. core' = Holding(None, <<<<d, "RCVPLUS">>>>)
    BY <1>2, Zenon DEF RecvTcp
  <2>2. <<<<d, "RCVPLUS">>>> \in Seq(Conns \X Events)
    BY <1>l, RaiseOne, Zenon DEF Events
  <2>3. core' \in CoreSet
    BY <1>l, <2>1, <2>2, HoldingType, Zenon
  <2>5. NetType'
    BY <1>2, <1>l, <1>t DEF NetType, RecvTcp
  <2>6. UNCHANGED <<ev, waiting, app, linked, callVars, cbVars>>
    BY <1>2, Zenon DEF RecvTcp
  <2> QED
    BY <1>t, <2>3, <2>5, <2>6, TypeParts, TypeStays, Zenon
<1>3. ASSUME NEW d \in Data, ErrTcp(d) PROVE TypeOK'
  <2>1. core' = Holding(None, <<<<d, "ERROR">>, <<d, "RCVPLUS">>, <<d, "SENDPLUS">>>>)
    BY <1>3, Zenon DEF ErrTcp
  <2>2. <<<<d, "ERROR">>, <<d, "RCVPLUS">>, <<d, "SENDPLUS">>>> \in Seq(Conns \X Events)
    BY <1>l, RaiseError, Zenon
  <2>3. core' \in CoreSet
    BY <1>l, <2>1, <2>2, HoldingType, Zenon
  <2>5. NetType'
    BY <1>3, <1>l, <1>t, Zenon DEF NetType, ErrTcp
  <2>6. UNCHANGED <<ev, waiting, app, linked, callVars, cbVars>>
    BY <1>3, Zenon DEF ErrTcp
  <2> QED
    BY <1>t, <2>3, <2>5, <2>6, TypeParts, TypeStays, Zenon
<1>4. ASSUME NEW d \in Data, NEW evt \in Events, SentTcp(d, evt) PROVE TypeOK'
  <2>1. core' = Holding(None, <<<<d, evt>>>>)
    BY <1>4, Zenon DEF SentTcp
  <2>2. <<<<d, evt>>>> \in Seq(Conns \X Events)
    BY <1>l, RaiseOne, Zenon
  <2>3. core' \in CoreSet
    BY <1>l, <2>1, <2>2, HoldingType, Zenon
  <2>6. UNCHANGED <<connVars, ev, waiting, app, linked, callVars, cbVars>>
    BY <1>4, Zenon DEF SentTcp
  <2> QED
    BY <1>t, <2>3, <2>6, TypeParts, TypeStays, Zenon
<1>5. CASE EventCallback
  <2> DEFINE c == Head(core.todo)[1]
             evt == Head(core.todo)[2]
             s == socket[c]
             chk == [s |-> s, has |-> Ready(Apply(ev[s], evt))]
  <2>1. core.todo \in Seq(Conns \X Events) /\ core.todo # <<>> /\ core.by \in Apps \cup {None}
    BY <1>5, <1>t, Zenon DEF CoreSet, EventCallback
  <2>2. Head(core.todo) \in Conns \X Events /\ Tail(core.todo) \in Seq(Conns \X Events)
    BY <2>1
  <2>3. c \in Conns /\ s \in Int
    BY <1>t, <2>2, Zenon DEF NetType
  <2>4. Holding(core.by, Tail(core.todo)) \in CoreSet
    BY <2>1, <2>2, HoldingType, Zenon
  <2>5. \/ /\ socket' = [socket EXCEPT ![c] = IF evt = "RCVPLUS" THEN @ - 1 ELSE @]
           /\ core' = Holding(core.by, Tail(core.todo))
           /\ ev' = ev
        \/ /\ core' = Holding(core.by, Tail(core.todo))
           /\ UNCHANGED <<socket, ev>>
        \/ /\ s >= 0
           /\ ev' = [ev EXCEPT ![s] = Apply(@, evt)]
           /\ core' = IF waiting[s] # 0 /\ CheckWaiters(ev[s], evt)
                      THEN Held(core.by, Tail(core.todo), chk)
                      ELSE Holding(core.by, Tail(core.todo))
           /\ UNCHANGED socket
    BY <1>5, Zenon DEF EventCallback
  <2>6. UNCHANGED <<conn, pcb, failed, mbox, backlog, waiting, app, linked, callVars,
                    cbVars>>
    BY <1>5, ZenonT(30) DEF EventCallback
  <2>7. socket' \in [Conns -> Int]
    BY <1>t, <2>3, <2>5 DEF NetType
  <2>8. NetType'
    BY <1>t, <2>6, <2>7, Zenon DEF NetType
  <2>9. CASE core' = Holding(core.by, Tail(core.todo)) /\ ev' = ev
    BY <1>t, <2>4, <2>6, <2>8, <2>9, TypeParts, TypeStays, Zenon
  <2>10. CASE /\ s >= 0
              /\ ev' = [ev EXCEPT ![s] = Apply(@, evt)]
              /\ core' = IF waiting[s] # 0 /\ CheckWaiters(ev[s], evt)
                         THEN Held(core.by, Tail(core.todo), chk)
                         ELSE Holding(core.by, Tail(core.todo))
    <3>1. s \in Socks
      BY <2>3, <2>10, SelectAssumption DEF PcbInv, Socks
    <3>2. EvType'
      BY <1>t, <2>10, <3>1, ApplyType, Zenon DEF EvType
    <3>3. Ready(Apply(ev[s], evt)) \in SUBSET Kinds
      BY Zenon DEF Ready
    <3>4. chk \in [s : Socks, has : SUBSET Kinds]
      BY <3>1, <3>3, Zenon
    <3>5. Held(core.by, Tail(core.todo), chk) \in CoreSet
      <4> HIDE DEF chk
      <4> QED
        BY <2>1, <2>2, <3>4, HeldParts, Zenon DEF CoreSet
    <3>6. core' \in CoreSet
      BY <2>4, <2>10, <3>5, Zenon
    <3> QED
      BY <1>t, <2>6, <2>8, <3>2, <3>6, TypeParts, TypeStays, Zenon
  <2> QED
    BY <2>5, <2>9, <2>10, Zenon
<1>6. CASE SelectCheckWaiters
  <2>1. core.todo \in Seq(Conns \X Events) /\ core.by \in Apps \cup {None}
    BY <1>t, Zenon DEF CoreSet
  <2>2. core' \in CoreSet
    BY <1>6, <2>1, HoldingType, Zenon DEF SelectCheckWaiters
  <2>3. signalled' \in [Threads -> BOOLEAN]
    BY <1>6, Zenon DEF SelectCheckWaiters
  <2>4. sem' \in [Threads -> Nat]
    <3>1. PICK hit : sem' = [t \in Threads |-> IF t \in hit THEN sem[t] + 1 ELSE sem[t]]
      BY <1>6, Zenon DEF SelectCheckWaiters
    <3> QED
      BY <1>t, <3>1 DEF CbType
  <2>5. UNCHANGED <<connVars, ev, waiting, app, linked, callVars>>
    BY <1>6, Zenon DEF SelectCheckWaiters
  <2>6. CbType'
    BY <1>t, <2>3, <2>4, <2>5, Zenon DEF CbType
  <2> QED
    BY <1>t, <2>2, <2>5, <2>6, TypeParts, TypeStays, Zenon
<1> QED
  BY <1>1, <1>2, <1>3, <1>4, <1>5, <1>6, Zenon DEF Stack

\* The socket number a thread without a socket is given.
LEMMA ZeroIsInt == 0 \in Int
  OBVIOUS

\* What AppTo makes of the threads.
LEMMA AppMoves ==
    ASSUME AppType, NEW a \in Apps, NEW c \in Conns \cup {None}, NEW s \in Int,
           NEW p \in {"idle", "minus", "alloc", "assign", "replay", "free", "delete",
                      "netconn_free"},
           AppTo(a, p, c, s)
    PROVE  /\ AppType'
           /\ app'[a].pc = p /\ app'[a].c = c /\ app'[a].s = s
           /\ \A b \in Apps : b # a => app'[b] = app[b]
  BY Zenon DEF AppType, AppTo

\* The least free socket is a free socket.
LEMMA FreeSocketIs ==
    ASSUME {s \in Socks : conn[s] = None} # {}
    PROVE  LET free == {s \in Socks : conn[s] = None}
               s == CHOOSE x \in free : \A y \in free : x <= y
           IN  s \in Socks /\ conn[s] = None
<1> DEFINE free == {s \in Socks : conn[s] = None}
<1>1. First(free) \in free
  BY FirstIn, Zenon
<1> QED
  BY <1>1, Zenon DEF First

\* lwip_netconn_do_delconn() keeps the types.
LEMMA DelConnTypes ==
    ASSUME NetType, core \in CoreSet, NEW a \in Apps, NEW c \in Conns, DelConn(a, c),
           UNCHANGED <<conn, socket, failed, backlog>>
    PROVE  NetType' /\ core' \in CoreSet /\ core' = Holding(a, DelEvents(c))
<1>1. core' = Holding(a, DelEvents(c))
  BY Zenon DEF DelConn, DelEvents
<1>2. core' \in CoreSet
  BY <1>1, RaiseDelete, HoldingType, Zenon
<1>3. NetType'
  BY Zenon DEF NetType, DelConn
<1> QED
  BY <1>1, <1>2, <1>3, Zenon

\* The application threads keep the types.
LEMMA AppTypes ==
    ASSUME TypeOK, AppInv, BacklogInv, NEW a \in Apps, App(a)
    PROVE  TypeOK'
<1>l. Listener \in Conns /\ Data \subseteq Conns /\ None \notin Conns
  BY SelectAssumption, Zenon DEF Conns
<1>t. /\ NetType /\ EvType /\ WaitingType /\ core \in CoreSet
      /\ AppType /\ CallType /\ CbType
  BY TypeParts, Zenon
<1>p. app[a].c \in Conns \cup {None} /\ app[a].s \in Int
  BY <1>t, Zenon DEF AppType
<1>c. app[a].pc # "idle" => app[a].c \in Conns
  BY <1>p, Zenon DEF AppInv, AppOK
<1>1. ASSUME NEW c \in Conns, Fetch(a, c) PROVE TypeOK'
  <2>1. NetType'
    BY <1>1, <1>t DEF NetType, Fetch
  <2>2. AppType'
    BY <1>1, <1>t, AppMoves, Zenon DEF NetType, Fetch
  <2>3. UNCHANGED <<ev, waiting, core, linked, callVars, cbVars>>
    BY <1>1, Zenon DEF Fetch
  <2> QED
    BY <1>t, <2>1, <2>2, <2>3, TypeParts, TypeStays, Zenon
<1>2. ASSUME NEW c \in Conns, Close(a, c) PROVE TypeOK'
  <2>1. NetType' /\ core' \in CoreSet
    BY <1>2, <1>t, DelConnTypes, Zenon DEF Close
  <2>2. AppType'
    BY <1>2, <1>t, AppMoves, Zenon DEF NetType, Close
  <2>3. UNCHANGED <<ev, waiting, linked, callVars, cbVars>>
    BY <1>2, Zenon DEF Close
  <2> QED
    BY <1>t, <2>1, <2>2, <2>3, TypeParts, TypeStays, Zenon
<1>3. CASE Minus(a)
  <2>1. EvType'
    <3>1. ev' = [ev EXCEPT ![app[a].s] = Apply(@, "RCVMINUS")]
      BY <1>3, Zenon DEF Minus
    <3> QED
      BY <1>t, <3>1, ApplyType, Zenon DEF EvType
  <2>2. app[a].c = Listener => backlog # <<>>
    <3>1. HAVE app[a].c = Listener
    <3>2. ~Unused(Listener)
      BY <3>1, Zenon DEF Unused
    <3>3. Len(backlog) = mbox[Listener] + 1 /\ mbox[Listener] \in Nat
      BY <1>l, <1>t, <3>2, Zenon DEF BacklogInv, NetType
    <3> QED
      BY <3>3
  <2>3. /\ app[a].c = Listener => Head(backlog) \in Data /\ backlog' \in Seq(Data)
        /\ app[a].c # Listener => backlog' \in Seq(Data)
    <3>1. backlog \in Seq(Data)
      BY <1>t, Zenon DEF NetType
    <3>2. \/ app[a].c = Listener /\ backlog' = Tail(backlog)
          \/ app[a].c # Listener /\ backlog' = backlog
      BY <1>3, Zenon DEF Minus
    <3> QED
      BY <2>2, <3>1, <3>2
  <2>4. AppType'
    BY <1>3, <1>l, <1>t, <2>3, AppMoves DEF Minus
  <2>5. UNCHANGED <<conn, socket, pcb, failed, mbox, waiting, core, linked, callVars,
                    cbVars>>
    BY <1>3, Zenon DEF Minus
  <2>6. NetType'
    BY <1>t, <2>3, <2>5, Zenon DEF NetType
  <2> QED
    BY <1>t, <2>1, <2>4, <2>5, <2>6, TypeParts, TypeStays, Zenon
<1>4. CASE AllocSocket(a)
  <2> DEFINE free == {s \in Socks : conn[s] = None}
             s == CHOOSE x \in free : \A y \in free : x <= y
  <2>1. UNCHANGED <<socket, pcb, failed, mbox, backlog, waiting, core, linked, callVars,
                    cbVars>>
    BY <1>4, Zenon DEF AllocSocket
  <2>2. app[a].c \in Conns
    BY <1>4, <1>c, Zenon DEF AllocSocket, At
  <2>3. CASE free = {}
    <3>1. AppTo(a, "delete", app[a].c, 0) /\ UNCHANGED <<conn, ev>>
      BY <1>4, <2>3, Zenon DEF AllocSocket
    <3>2. AppType'
      BY <1>t, <2>2, <3>1, AppMoves, ZeroIsInt, Zenon
    <3>3. UNCHANGED connVars
      BY <2>1, <3>1, Zenon DEF connVars
    <3> QED
      BY <1>t, <2>1, <3>1, <3>2, <3>3, TypeParts, TypeStays, Zenon
  <2>4. CASE free # {}
    <3>1. /\ conn' = [conn EXCEPT ![s] = app[a].c]
          /\ ev' = [ev EXCEPT ![s] = [r |-> 0, w |-> TRUE, e |-> FALSE]]
          /\ AppTo(a, "assign", app[a].c, s)
      BY <1>4, <2>4, Zenon DEF AllocSocket
    <3>2. s \in Socks
      BY <2>4, FreeSocketIs, Zenon
    <3> HIDE DEF s
    <3>3. AppType'
      BY <1>t, <2>2, <3>1, <3>2, AppMoves DEF Socks
    <3>4. NetType'
      BY <1>t, <2>1, <2>2, <3>1, Zenon DEF NetType
    <3>5. EvType'
      <4>1. [r |-> 0, w |-> TRUE, e |-> FALSE] \in [r : Int, w : BOOLEAN, e : BOOLEAN]
        OBVIOUS
      <4> QED
        BY <1>t, <3>1, <4>1, Zenon DEF EvType
    <3> QED
      BY <1>t, <2>1, <3>3, <3>4, <3>5, TypeParts, TypeStays, Zenon
  <2> QED
    BY <2>3, <2>4, Zenon
<1>5. CASE PeerGone(a)
  <2>1. NetType'
    BY <1>5, <1>t, Zenon DEF NetType, PeerGone
  <2>2. AppType'
    BY <1>5, <1>t, <1>p, AppMoves DEF PeerGone
  <2>3. UNCHANGED <<ev, waiting, core, linked, callVars, cbVars>>
    BY <1>5, Zenon DEF PeerGone
  <2> QED
    BY <1>t, <2>1, <2>2, <2>3, TypeParts, TypeStays, Zenon
<1>6. CASE Assign(a)
  <2>1. NetType'
    BY <1>6, <1>t, <1>p, Zenon DEF NetType, Assign
  <2>2. app[a].c \in Conns
    BY <1>6, <1>c, Zenon DEF Assign, At
  <2>3. -1 - socket[app[a].c] \in Int
    BY <1>t, <2>2 DEF NetType
  <2>4. AppTo(a, "replay", app[a].c, -1 - socket[app[a].c])
    BY <1>6, Zenon DEF Assign
  <2>5. AppType'
    BY <1>t, <1>p, <2>3, <2>4, AppMoves, Zenon
  <2>6. UNCHANGED <<ev, waiting, core, linked, callVars, cbVars>>
    BY <1>6, Zenon DEF Assign
  <2> QED
    BY <1>t, <2>1, <2>5, <2>6, TypeParts, TypeStays, Zenon
<1>7. CASE Replay(a)
  <2>1. app[a].c \in Conns
    BY <1>7, <1>c, Zenon DEF Replay, At
  <2>2. Repeat(app[a].s, <<app[a].c, "RCVPLUS">>) \in Seq(Conns \X Events)
    BY <1>p, <2>1, RaiseMany, Zenon
  <2>3. core' = Holding(a, Repeat(app[a].s, <<app[a].c, "RCVPLUS">>))
    BY <1>7, Zenon DEF Replay
  <2>4. core' \in CoreSet
    BY <2>2, <2>3, HoldingType, Zenon
  <2>5. AppTo(a, "idle", None, 0)
    BY <1>7, Zenon DEF Replay
  <2>6. AppType'
    BY <1>t, <2>5, AppMoves, ZeroIsInt, Zenon
  <2>7. UNCHANGED <<connVars, ev, waiting, linked, callVars, cbVars>>
    BY <1>7, Zenon DEF Replay
  <2> QED
    BY <1>t, <2>4, <2>6, <2>7, TypeParts, TypeStays, Zenon
<1>8. CASE FreeSocket(a)
  <2>1. NetType'
    BY <1>8, <1>t, Zenon DEF NetType, FreeSocket
  <2>2. AppType'
    BY <1>8, <1>t, <1>p, AppMoves DEF FreeSocket
  <2>3. UNCHANGED <<ev, waiting, core, linked, callVars, cbVars>>
    BY <1>8, Zenon DEF FreeSocket
  <2> QED
    BY <1>t, <2>1, <2>2, <2>3, TypeParts, TypeStays, Zenon
<1>9. CASE NetconnDelete(a)
  <2>1. app[a].c \in Conns
    BY <1>9, <1>c, Zenon DEF NetconnDelete, At
  <2>2. NetType' /\ core' \in CoreSet
    BY <1>9, <1>t, <2>1, DelConnTypes, Zenon DEF NetconnDelete
  <2>3. AppType'
    BY <1>9, <1>t, <1>p, AppMoves DEF NetconnDelete
  <2>4. UNCHANGED <<ev, waiting, linked, callVars, cbVars>>
    BY <1>9, Zenon DEF NetconnDelete
  <2> QED
    BY <1>t, <2>2, <2>3, <2>4, TypeParts, TypeStays, Zenon
<1>10. CASE NetconnFree(a)
  <2>1. NetType'
    <3>1. socket' = [socket EXCEPT ![app[a].c] = -1]
      BY <1>10, Zenon DEF NetconnFree
    <3>2. \A x \in Int : [socket EXCEPT ![app[a].c] = x] \in [Conns -> Int]
      BY <1>t, Zenon DEF NetType
    <3>3. socket' \in [Conns -> Int]
      BY <3>1, <3>2
    <3> QED
      BY <1>10, <1>t, <3>3, Zenon DEF NetType, NetconnFree
  <2>2. AppType'
    BY <1>10, <1>t, AppMoves DEF NetconnFree
  <2>3. UNCHANGED <<ev, waiting, core, linked, callVars, cbVars>>
    BY <1>10, Zenon DEF NetconnFree
  <2> QED
    BY <1>t, <2>1, <2>2, <2>3, TypeParts, TypeStays, Zenon
<1> QED
  BY <1>1, <1>2, <1>3, <1>4, <1>5, <1>6, <1>7, <1>8, <1>9, <1>10, Zenon DEF App, AppStep

\* select_waiting of a socket with room for one more.
LEMMA WaitingRoom ==
    ASSUME NEW w \in 0 .. SelWaitMod - 1
    PROVE  (w + 1) % SelWaitMod = 0 <=> w = SelWaitMod - 1
<1>1. SelWaitMod \in Nat /\ SelWaitMod > 1
  BY SelectAssumption
<1>2. CASE w = SelWaitMod - 1
  <2>1. w + 1 = SelWaitMod
    BY <1>1, <1>2
  <2>2. SelWaitMod % SelWaitMod = 0
    BY <1>1
  <2> QED
    BY <1>2, <2>1, <2>2, Zenon
<1>3. CASE w # SelWaitMod - 1
  <2>1. w + 1 \in 1 .. SelWaitMod - 1
    BY <1>1, <1>3
  <2>2. (w + 1) % SelWaitMod = w + 1
    BY <1>1, <2>1
  <2> QED
    BY <1>1, <1>3, <2>1, <2>2
<1> QED
  BY <1>2, <1>3, Zenon

\* lwip_select() and lwip_poll() keep the types.
LEMMA WaiterTypes ==
    ASSUME TypeOK, NEW t \in Threads, Waiter(t)
    PROVE  TypeOK'
<1>t. /\ NetType /\ EvType /\ WaitingType /\ core \in CoreSet
      /\ AppType /\ CallType /\ CbType
  BY TypeParts, Zenon
<1>o. Waiter(t) => UNCHANGED outVars
  BY Zenon DEF Waiter, WaiterStep, Scan, Scanned1, Link, IncWaiting, WaitingFull,
     Counted, Scanned2,
         Wake, DecWaiting, Unlink, Scanned3, Call, SemNewFails, TimeOut
<1>u. UNCHANGED outVars => NetType' /\ EvType' /\ core' \in CoreSet /\ AppType'
  BY <1>t, TypeStays, Zenon DEF outVars
<1>s. SocksOf(want[t]) \in SUBSET Socks
  BY <1>t, SocksOfType, Zenon DEF CallType
<1>r. Return(t) /\ UNCHANGED counted => CallType'
  BY <1>t, Zenon DEF CallType, Return
<1>1. CASE Call(t)
  <2>1. PICK w \in Wants, m \in Timeouts :
          /\ want' = [want EXCEPT ![t] = Asked(t, w)]
          /\ tmo' = [tmo EXCEPT ![t] = m]
          /\ left' = [left EXCEPT ![t] = SocksOf(w)]
    BY <1>1, Zenon DEF Call
  <2>2. w \in SUBSET (Socks \X Kinds)
    BY SelectAssumption, Zenon
  <2>3. SocksOf(w) \in SUBSET Socks
    BY <2>2, SocksOfType, Zenon
  <2>4. Asked(t, w) \in SUBSET (Socks \X Kinds)
    BY <2>2, <2>3, Zenon DEF Asked, Kinds
  <2>5. CallType'
    BY <1>1, <1>t, <2>1, <2>3, <2>4, Zenon DEF CallType, Call, Goto
  <2> QED
    BY <1>1, <1>o, <1>t, <1>u, <2>5, TypeParts, TypeStays, Zenon DEF Call
<1>2. CASE Scan(t)
  <2>1. Found(t, First(left[t])) \in BOOLEAN
    BY <1>t, Zenon DEF Found, CallType
  <2>2. CallType'
    BY <1>2, <1>t, <2>1, Zenon DEF CallType, Scan
  <2> QED
    BY <1>2, <1>o, <1>t, <1>u, <2>2, TypeParts, TypeStays, Zenon DEF Scan
<1>3. CASE Scanned1(t)
  <2>1. CallType'
    BY <1>3, <1>t, <1>r, Zenon DEF CallType, Scanned1, Goto
  <2> QED
    BY <1>3, <1>o, <1>t, <1>u, <2>1, TypeParts, TypeStays, Zenon DEF Scanned1
<1>4. CASE SemNewFails(t)
  BY <1>4, <1>o, <1>r, <1>t, <1>u, TypeParts, TypeStays, Zenon DEF SemNewFails
<1>5. CASE Link(t)
  <2>1. CallType'
    BY <1>5, <1>s, <1>t, Zenon DEF CallType, Link, Goto
  <2>2. CbType'
    BY <1>5, <1>t, Zenon DEF CbType, Link, cbVars
  <2> QED
    BY <1>5, <1>o, <1>t, <1>u, <2>1, <2>2, TypeParts, TypeStays, Zenon DEF Link
<1>6. CASE IncWaiting(t)
  <2> DEFINE s == First(left[t])
  <2>1. s \in Socks
    BY <1>6, <1>t, FirstIn, Zenon DEF IncWaiting, CallType
  <2>2. /\ (waiting[s] + 1) % SelWaitMod # 0
        /\ waiting' = [waiting EXCEPT ![s] = @ + 1]
        /\ counted' = [counted EXCEPT ![t] = @ \cup {s}]
        /\ left' = [left EXCEPT ![t] = @ \ {s}]
        /\ nready' = [nready EXCEPT ![t] = IF t \in Polls THEN Found(t, s) ELSE @]
        /\ UNCHANGED <<linked, pc, want, tmo, res, cbVars>>
    BY <1>6, Zenon DEF IncWaiting
  <2>3. Found(t, s) \in BOOLEAN
    BY <1>t, Zenon DEF Found, CallType
  <2> HIDE DEF s
  <2>4. waiting[s] \in 0 .. SelWaitMod - 1
    BY <1>t, <2>1, Zenon DEF WaitingType
  <2>5. waiting[s] # SelWaitMod - 1
    BY <2>2, <2>4, WaitingRoom, Zenon
  <2>6. waiting[s] + 1 \in 0 .. SelWaitMod - 1
    BY <2>4, <2>5, SelectAssumption
  <2>7. WaitingType'
    BY <1>t, <2>2, <2>6, Zenon DEF WaitingType
  <2>8. CallType'
    BY <1>t, <2>1, <2>2, <2>3, Zenon DEF CallType
  <2> QED
    BY <1>6, <1>o, <1>t, <1>u, <2>2, <2>7, <2>8, TypeParts, TypeStays, Zenon
<1>7. CASE WaitingFull(t)
  <2>1. CallType'
    BY <1>7, <1>s, <1>t, Zenon DEF CallType, WaitingFull, Goto
  <2> QED
    BY <1>7, <1>o, <1>t, <1>u, <2>1, TypeParts, TypeStays, Zenon DEF WaitingFull
<1>8. CASE Counted(t)
  <2>1. CallType'
    BY <1>8, <1>s, <1>t, Zenon DEF CallType, Counted, Goto
  <2> QED
    BY <1>8, <1>o, <1>t, <1>u, <2>1, TypeParts, TypeStays, Zenon DEF Counted
<1>9. CASE Scanned2(t)
  <2>1. CallType'
    BY <1>9, <1>s, <1>t, Zenon DEF CallType, Scanned2, Goto
  <2> QED
    BY <1>9, <1>o, <1>t, <1>u, <2>1, TypeParts, TypeStays, Zenon DEF Scanned2
<1>10. CASE Wake(t)
  <2>1. CallType'
    BY <1>10, <1>t, Zenon DEF CallType, Wake, Goto
  <2>2. CbType'
    BY <1>10, <1>t DEF CbType, Wake
  <2> QED
    BY <1>10, <1>o, <1>t, <1>u, <2>1, <2>2, TypeParts, TypeStays, Zenon DEF Wake
<1>11. CASE TimeOut(t)
  <2>1. CallType'
    BY <1>11, <1>t, Zenon DEF CallType, TimeOut, Goto
  <2> QED
    BY <1>11, <1>o, <1>t, <1>u, <2>1, TypeParts, TypeStays, Zenon DEF TimeOut
<1>12. CASE DecWaiting(t)
  <2> DEFINE s == First(left[t])
  <2>1. s \in Socks
    BY <1>12, <1>t, FirstIn, Zenon DEF DecWaiting, CallType
  <2>2. /\ waiting' = [waiting EXCEPT ![s] = IF @ > 0 THEN @ - 1 ELSE @]
        /\ counted' = [counted EXCEPT ![t] = @ \ {s}]
        /\ left' = [left EXCEPT ![t] = @ \ {s}]
        /\ nready' = [nready EXCEPT ![t] = IF t \in Polls THEN Found(t, s) ELSE @]
        /\ UNCHANGED <<linked, pc, want, tmo, res, cbVars>>
    BY <1>12, Zenon DEF DecWaiting
  <2>3. Found(t, s) \in BOOLEAN
    BY <1>t, Zenon DEF Found, CallType
  <2> HIDE DEF s
  <2>4. waiting[s] \in 0 .. SelWaitMod - 1
    BY <1>t, <2>1, Zenon DEF WaitingType
  <2>5. (IF waiting[s] > 0 THEN waiting[s] - 1 ELSE waiting[s]) \in 0 .. SelWaitMod - 1
    BY <2>4, SelectAssumption
  <2>6. WaitingType'
    BY <1>t, <2>2, <2>5, Zenon DEF WaitingType
  <2>7. CallType'
    BY <1>t, <2>1, <2>2, <2>3, Zenon DEF CallType
  <2> QED
    BY <1>12, <1>o, <1>t, <1>u, <2>2, <2>6, <2>7, TypeParts, TypeStays, Zenon
<1>13. CASE Unlink(t)
  <2>1. CallType'
    <3>1. CASE Return(t)
      BY <1>13, <1>r, <3>1, Zenon DEF Unlink
    <3>2. CASE ~Return(t)
      <4>1. /\ Goto(t, "dec", "scan3")
            /\ left' = [left EXCEPT ![t] = SocksOf(want[t])]
            /\ nready' = [nready EXCEPT ![t] = FALSE]
            /\ UNCHANGED <<want, tmo, res, counted>>
        BY <1>13, <3>2, Zenon DEF Unlink
      <4> QED
        BY <1>s, <1>t, <4>1, Zenon DEF CallType, Goto
    <3> QED
      BY <3>1, <3>2, Zenon
  <2>2. CbType'
    BY <1>13, <1>t, Zenon DEF CbType, Unlink
  <2> QED
    BY <1>13, <1>o, <1>t, <1>u, <2>1, <2>2, TypeParts, TypeStays, Zenon DEF Unlink
<1>14. CASE Scanned3(t)
  BY <1>14, <1>o, <1>r, <1>t, <1>u, TypeParts, TypeStays, Zenon DEF Scanned3
<1> QED
  BY <1>1, <1>2, <1>3, <1>4, <1>5, <1>6, <1>7, <1>8, <1>9, <1>10, <1>11, <1>12, <1>13,
     <1>14, Zenon
     DEF Waiter, WaiterStep

\* Every step keeps the types.
LEMMA TypeStep ==
    ASSUME TypeOK, OwnInv, [Next]_vars
    PROVE  TypeOK'
<1>1. CASE UNCHANGED vars
  BY <1>1, TypeParts, TypeStays, Zenon DEF vars
<1>2. CASE Stack
  BY <1>2, StackTypes, Zenon DEF OwnInv
<1>3. CASE \E a \in Apps : App(a)
  BY <1>3, AppTypes, Zenon DEF OwnInv
<1>4. CASE \E t \in Threads : Waiter(t)
  BY <1>4, WaiterTypes, Zenon
<1> QED
  BY <1>1, <1>2, <1>3, <1>4, Zenon DEF Next

-----------------------------------------------------------------------------
(* The events that are raised and not delivered.                           *)

\* Nobody is told that there is too little room to write.
NoMinus == \A x \in Conns : ~InTodo(<<x, "SENDMINUS">>)

\* With the core lock free there are none.
LEMMA TodoEmpty ==
    ASSUME core \in CoreSet, LockFree
    PROVE  \A e : ~InTodo(e)
  BY DEF LockFree, InTodo, CoreSet

\* One event raised is the only one.
LEMMA TodoOne ==
    ASSUME NEW c \in Conns, NEW evt \in Events, NEW by \in Apps \cup {None},
           core' = Holding(by, <<<<c, evt>>>>)
    PROVE  \A e : InTodo(e)' => e = <<c, evt>>
<1> DEFINE events == <<<<c, evt>>>>
<1>1. core'.todo = events
  BY RaiseOne, HoldingType, Zenon
<1>2. Len(events) = 1 /\ events[1] = <<c, evt>>
  BY Zenon
<1> HIDE DEF events
<1> QED
  BY <1>1, <1>2 DEF InTodo

\* err_tcp() tells of data, and not of too little room to write.
LEMMA TodoError ==
    ASSUME NEW c \in Conns, NEW by \in Apps \cup {None},
           core' = Holding(by, <<<<c, "ERROR">>, <<c, "RCVPLUS">>, <<c, "SENDPLUS">>>>)
    PROVE  InTodo(<<c, "RCVPLUS">>)' /\ NoMinus'
<1> DEFINE events == <<<<c, "ERROR">>, <<c, "RCVPLUS">>, <<c, "SENDPLUS">>>>
<1>1. core'.todo = events
  BY RaiseError, HoldingType, Zenon
<1>2. Len(events) = 3 /\ events[1] = <<c, "ERROR">> /\ events[2] = <<c, "RCVPLUS">>
      /\ events[3] = <<c, "SENDPLUS">>
  BY Zenon
<1> HIDE DEF events
<1>3. \A i \in 1 .. 3 : i = 1 \/ i = 2 \/ i = 3
  OBVIOUS
<1>4. \A i \in 1 .. Len(events) : \A x : events[i] # <<x, "SENDMINUS">>
  BY <1>2, <1>3
<1>5. 2 \in 1 .. Len(core'.todo) /\ core'.todo[2] = <<c, "RCVPLUS">>
  BY <1>1, <1>2
<1>6. InTodo(<<c, "RCVPLUS">>)'
  BY <1>5, Zenon DEF InTodo
<1>7. NoMinus'
  BY <1>1, <1>4, Zenon DEF InTodo, NoMinus
<1> QED
  BY <1>6, <1>7, Zenon

\* lwip_accept() plays back RCVPLUS events only.
LEMMA TodoMany ==
    ASSUME NEW c \in Conns, NEW n \in Int, NEW by \in Apps \cup {None},
           core' = Holding(by, Repeat(n, <<c, "RCVPLUS">>))
    PROVE  NoMinus'
<1> DEFINE events == Repeat(n, <<c, "RCVPLUS">>)
<1>1. core'.todo = events
  BY RaiseMany, HoldingType, Zenon
<1>2. events \in Seq(Conns \X Events)
  BY RaiseMany, Zenon
<1>3. \A i \in DOMAIN events : events[i] = <<c, "RCVPLUS">>
  BY Zenon DEF Repeat
<1> HIDE DEF events
<1>4. \A i \in 1 .. Len(events) : events[i] = <<c, "RCVPLUS">>
  BY <1>2, <1>3
<1>5. \A i \in 1 .. Len(events) : \A x : events[i] # <<x, "SENDMINUS">>
  BY <1>4
<1> QED
  BY <1>1, <1>5, Zenon DEF InTodo, NoMinus

\* One sequence of events after another.
LEMMA ConcatLen == \A S : \A s, t \in Seq(S) : Len(s \o t) = Len(s) + Len(t)
  OBVIOUS

\* lwip_netconn_do_delconn() tells of data and of room to write, and the
\* thread keeps the core lock for it.
LEMMA TodoDelete ==
    ASSUME NEW c \in Conns, NEW a \in Apps, core' = Holding(a, DelEvents(c))
    PROVE  /\ InTodo(<<c, "RCVPLUS">>)' /\ InTodo(<<c, "SENDPLUS">>)' /\ NoMinus'
           /\ core'.by = a
<1> DEFINE E == Conns \X Events
           pre == IF pcb[c] THEN <<<<c, "ERROR">>>> ELSE <<>>
           suf == <<<<c, "RCVPLUS">>, <<c, "SENDPLUS">>>>
<1>1. pre \o suf = DelEvents(c) /\ DelEvents(c) \in Seq(E)
  BY RaiseDelete, Zenon DEF DelEvents
<1>2. <<c, "ERROR">> \in E /\ <<c, "RCVPLUS">> \in E /\ <<c, "SENDPLUS">> \in E
  BY Zenon DEF Events
<1>3. pre \in Seq(E) /\ \A i \in 1 .. Len(pre) : pre[i] = <<c, "ERROR">>
  BY <1>2
<1>4. suf \in Seq(E) /\ Len(suf) = 2
      /\ suf[1] = <<c, "RCVPLUS">> /\ suf[2] = <<c, "SENDPLUS">>
  BY <1>2
<1>5. core'.todo = pre \o suf
  BY <1>1, HoldingType, Zenon
<1> HIDE DEF E, pre, suf
<1>6. /\ Len(core'.todo) = Len(pre) + 2 /\ Len(pre) \in Nat
      /\ core'.todo[Len(pre) + 1] = <<c, "RCVPLUS">>
      /\ core'.todo[Len(pre) + 2] = <<c, "SENDPLUS">>
      /\ \A i \in 1 .. Len(pre) : core'.todo[i] = <<c, "ERROR">>
  <2>1. Len(pre) \in Nat /\ Len(core'.todo) = Len(pre) + 2
    <3>1. pre \in Seq(E) /\ suf \in Seq(E) /\ Len(suf) = 2
      BY <1>3, <1>4, Zenon
    <3>2. Len(pre) \in Nat
      BY <3>1
    <3>3. Len(pre \o suf) = Len(pre) + Len(suf)
      BY <3>1, ConcatLen, Zenon
    <3> QED
      BY <1>5, <3>1, <3>2, <3>3, Zenon
  <2>2. \A i \in 1 .. Len(core'.todo) :
          core'.todo[i] = IF i <= Len(pre) THEN pre[i] ELSE suf[i - Len(pre)]
    BY <1>3, <1>4, <1>5
  <2>3. core'.todo[Len(pre) + 1] = suf[1] /\ core'.todo[Len(pre) + 2] = suf[2]
    <3>1. Len(pre) + 1 \in 1 .. Len(core'.todo) /\ Len(pre) + 2 \in 1 .. Len(core'.todo)
      BY <2>1
    <3> QED
      BY <2>1, <2>2, <3>1
  <2>4. \A i \in 1 .. Len(pre) : core'.todo[i] = pre[i]
    BY <2>1, <2>2
  <2> QED
    BY <1>3, <1>4, <2>1, <2>3, <2>4, Zenon
<1>7. InTodo(<<c, "RCVPLUS">>)' /\ InTodo(<<c, "SENDPLUS">>)'
  <2>1. Len(pre) + 1 \in 1 .. Len(core'.todo) /\ Len(pre) + 2 \in 1 .. Len(core'.todo)
    BY <1>6
  <2> QED
    BY <1>6, <2>1, Zenon DEF InTodo
<1>8. NoMinus'
  <2>1. \A i \in 1 .. Len(core'.todo) : i \in 1 .. Len(pre) \/ i = Len(pre) + 1 \/ i = Len(pre) + 2
    BY <1>6
  <2>2. \A i \in 1 .. Len(core'.todo) : \A x : core'.todo[i] # <<x, "SENDMINUS">>
    BY <1>6, <2>1
  <2> QED
    BY <2>2, Zenon DEF InTodo, NoMinus
<1>9. DelEvents(c) # <<>>
  BY <1>1, <1>3, <1>4
<1>10. core'.by = a
  BY <1>1, <1>9, HoldingType, Zenon DEF E
<1> QED
  BY <1>7, <1>8, <1>10, Zenon

\* event_callback() takes the first one.
LEMMA TodoNext ==
    ASSUME core \in CoreSet, core.todo # <<>>, core'.todo = Tail(core.todo)
    PROVE  /\ \A e : InTodo(e)' => InTodo(e)
           /\ \A e : InTodo(e) => e = Head(core.todo) \/ InTodo(e)'
           /\ InTodo(Head(core.todo))
<1>1. core.todo \in Seq(Conns \X Events) /\ core.todo # <<>>
  BY Zenon DEF CoreSet
<1>2. /\ Len(core.todo) \in Nat \ {0} /\ Head(core.todo) = core.todo[1]
      /\ Len(core'.todo) = Len(core.todo) - 1
  BY <1>1
<1>3. \A i \in 1 .. Len(core'.todo) : core'.todo[i] = core.todo[i + 1]
  BY <1>1
<1>4. \A e : InTodo(e)' => InTodo(e)
  BY <1>2, <1>3 DEF InTodo
<1>5. ASSUME NEW i \in 1 .. Len(core.todo), i # 1
      PROVE  i - 1 \in 1 .. Len(core'.todo) /\ core'.todo[i - 1] = core.todo[i]
  BY <1>2, <1>3, <1>5
<1>6. \A e : InTodo(e) => e = Head(core.todo) \/ InTodo(e)'
  BY <1>2, <1>5, Zenon DEF InTodo
<1>7. InTodo(Head(core.todo))
  BY <1>2 DEF InTodo
<1> QED
  BY <1>4, <1>6, <1>7, Zenon

-----------------------------------------------------------------------------
(* Who has which netconn.                                                  *)

\* What must not happen to a thread that does not move.
LEMMA AppKeeps ==
    ASSUME AppInv, NEW b \in Apps, app'[b] = app[b],
           app[b].c # None => \A x \in Apps : x # b => app'[x].c # app[b].c,
           app[b].c # None =>
               \A r \in Socks : conn[r] = app[b].c <=> conn'[r] = app[b].c,
           app[b].c # None => \/ socket'[app[b].c] = socket[app[b].c]
                              \/ socket[app[b].c] < 0 /\ socket'[app[b].c] < 0,
           app[b].pc \in {"assign", "free"} => (ev[app[b].s].w => ev'[app[b].s].w),
           app[b].pc = "free" =>
               /\ ~pcb'[app[b].c]
               /\ core.by = b /\ InTodo(<<app[b].c, "SENDPLUS">>) =>
                     \/ ev'[app[b].s].w
                     \/ core'.by = b
                        /\ \E i \in 1 .. Len(core'.todo) : core'.todo[i] = <<app[b].c, "SENDPLUS">>
    PROVE  AppOK(b)'
<1>1. AppOK(b)
  BY Zenon DEF AppInv
<1>2. \A x \in Socks : ~(x < 0)
  BY SelectAssumption DEF Socks
<1> DEFINE c == app[b].c
           s == app[b].s
           p == app[b].pc
<1>3. app'[b].c = c /\ app'[b].s = s /\ app'[b].pc = p
  BY Zenon
<1>4. p # "idle" => c # None
  BY <1>1, Zenon DEF AppOK
<1>5. p \in {"minus", "free"} => s \in Socks /\ conn'[s] = c /\ socket'[c] = s
  BY <1>1, <1>2, <1>4 DEF AppOK
<1>6. p = "assign" => s \in Socks /\ conn'[s] = c /\ socket'[c] < 0 /\ ev'[s].w
  BY <1>1, <1>4, Zenon DEF AppOK
<1>7. p = "alloc" => socket'[c] < 0
  BY <1>1, <1>4, Zenon DEF AppOK
<1>8. p \in {"alloc", "delete", "netconn_free"} => \A r \in Socks : conn'[r] # c
  BY <1>1, <1>4, Zenon DEF AppOK
<1>9. p = "free" =>
        /\ ~pcb'[c]
        /\ \/ ev'[s].w
           \/ core'.by = b /\ \E i \in 1 .. Len(core'.todo) : core'.todo[i] = <<c, "SENDPLUS">>
  BY <1>1, <1>4, Zenon DEF AppOK
<1>10. /\ p = "idle" <=> c = None
       /\ c # None => \A x \in Apps : x # b => app'[x].c # c
       /\ p \notin {"idle", "minus"} => c \in Data
       /\ p = "replay" => s >= 0
  BY <1>1, Zenon DEF AppOK
<1> HIDE DEF c, s, p
<1> QED
  BY <1>3, <1>5, <1>6, <1>7, <1>8, <1>9, <1>10, Zenon DEF AppOK, InTodo

\* Nobody's netconn changes when the core lock is free and only events are
\* raised or pcbs lost.
LEMMA RaiseOwn ==
    ASSUME TypeOK, AppInv, BacklogInv, PcbInv, FreeInv, LockFree,
           UNCHANGED <<conn, socket, backlog, ev, app, want>>,
           mbox'[Listener] = mbox[Listener],
           \A x \in Conns : pcb'[x] => pcb[x],
           \A x \in Conns : InTodo(<<x, "SENDMINUS">>)' => pcb'[x],
           \A x \in Conns : ~pcb'[x] => ~pcb[x] \/ InTodo(<<x, "RCVPLUS">>)'
    PROVE  AppInv' /\ BacklogInv' /\ PcbInv' /\ FreeInv'
<1>t. core \in CoreSet /\ AppType
  BY TypeParts, Zenon
<1>1. \A e : ~InTodo(e)
  BY <1>t, TodoEmpty, Zenon
<1>2. ASSUME NEW b \in Apps PROVE AppOK(b)'
  <2>1. app[b].pc = "free" => ~pcb[app[b].c] /\ app[b].c \in Conns
    BY Zenon DEF AppInv, AppOK, Conns
  <2>2. app[b].c # None => \A x \in Apps : x # b => app[x].c # app[b].c
    BY Zenon DEF AppInv, AppOK
  <2> QED
    BY <1>1, <2>1, <2>2, AppKeeps, Zenon
<1>3. AppInv'
  BY <1>2, Zenon DEF AppInv
<1>4. BacklogInv'
  BY Zenon DEF BacklogInv, Unused
<1>5. PcbInv'
  <2>1. \A x : Busy(x)' <=> Busy(x)
    BY Zenon DEF Busy, Waits, Unused
  <2>2. \A x \in Data : x \in Conns
    BY Zenon DEF Conns
  <2>3. /\ \A r, s \in Socks : conn'[r] = conn'[s] /\ conn'[r] # None => r = s
        /\ \A d \in Conns : pcb'[d] /\ socket'[d] >= 0 => socket'[d] \in Socks /\ conn'[socket'[d]] = d
        /\ \A d \in Conns : socket'[d] < NSock
    BY Zenon DEF PcbInv
  <2>4. \A d \in Data : ~pcb'[d] /\ Busy(d)' => socket'[d] # -1 \/ InTodo(<<d, "RCVPLUS">>)'
    BY <1>1, <2>1, <2>2, Zenon DEF PcbInv
  <2> QED
    BY <2>3, <2>4, Zenon DEF PcbInv
<1>6. FreeInv'
  BY Zenon DEF FreeInv
<1> QED
  BY <1>3, <1>4, <1>5, <1>6, Zenon

\* recv_tcp(), sent_tcp(), poll_tcp() and err_tcp() are such steps.
LEMMA CallbackOwn ==
    ASSUME TypeOK, AppInv, BacklogInv, PcbInv, FreeInv, NEW d \in Data, NEW evt \in Events,
           RecvTcp(d) \/ ErrTcp(d) \/ SentTcp(d, evt)
    PROVE  AppInv' /\ BacklogInv' /\ PcbInv' /\ FreeInv'
<1>l. /\ d \in Conns /\ d # Listener /\ None \in Apps \cup {None}
      /\ "RCVPLUS" \in Events
  BY SelectAssumption, Zenon DEF Conns, Events
<1>t. NetType
  BY TypeParts, Zenon
<1>1. CASE RecvTcp(d)
  <2>1. core' = Holding(None, <<<<d, "RCVPLUS">>>>)
    BY <1>1, Zenon DEF RecvTcp
  <2>2. \A e : InTodo(e)' => e = <<d, "RCVPLUS">>
    BY <1>l, <2>1, TodoOne, Zenon
  <2>3. \A x : ~InTodo(<<x, "SENDMINUS">>)'
    BY <2>2, Zenon
  <2>4. /\ LockFree /\ UNCHANGED <<conn, socket, backlog, ev, app, want, pcb>>
        /\ mbox' = [mbox EXCEPT ![d] = @ + 1]
    BY <1>1, Zenon DEF RecvTcp, callVars
  <2>5. mbox'[Listener] = mbox[Listener]
    BY <1>l, <1>t, <2>4 DEF NetType
  <2> QED
    BY <2>3, <2>4, <2>5, RaiseOwn, Zenon
<1>2. CASE SentTcp(d, evt)
  <2>1. core' = Holding(None, <<<<d, evt>>>>)
    BY <1>2, Zenon DEF SentTcp
  <2>2. \A e : InTodo(e)' => e = <<d, evt>>
    BY <1>l, <2>1, TodoOne, Zenon
  <2>3. LockFree /\ UNCHANGED <<conn, socket, backlog, ev, app, want, pcb, mbox>> /\ pcb[d]
    BY <1>2, Zenon DEF SentTcp, connVars, callVars
  <2>4. \A x \in Conns : InTodo(<<x, "SENDMINUS">>)' => pcb'[x]
    BY <2>2, <2>3, Zenon
  <2> QED
    BY <2>3, <2>4, RaiseOwn, Zenon
<1>3. CASE ErrTcp(d)
  <2>1. core' = Holding(None, <<<<d, "ERROR">>, <<d, "RCVPLUS">>, <<d, "SENDPLUS">>>>)
    BY <1>3, Zenon DEF ErrTcp
  <2>2. InTodo(<<d, "RCVPLUS">>)' /\ NoMinus'
    BY <1>l, <2>1, TodoError, Zenon
  <2>3. /\ LockFree /\ UNCHANGED <<conn, socket, backlog, ev, app, want, mbox>>
        /\ pcb' = [pcb EXCEPT ![d] = FALSE]
    BY <1>3, Zenon DEF ErrTcp, callVars
  <2>4. \A x \in Conns : pcb'[x] <=> pcb[x] /\ x # d
    BY <1>l, <1>t, <2>3, Zenon DEF NetType
  <2>5. \A x \in Conns : InTodo(<<x, "SENDMINUS">>)' => pcb'[x]
    BY <2>2, Zenon DEF NoMinus
  <2> QED
    BY <2>2, <2>3, <2>4, <2>5, RaiseOwn, Zenon
<1> QED
  BY <1>1, <1>2, <1>3, Zenon

\* accept_function() takes memory that nobody uses for the new netconn.
LEMMA AcceptOwn ==
    ASSUME TypeOK, AppInv, BacklogInv, PcbInv, FreeInv, NEW d \in Data, AcceptFunction(d)
    PROVE  AppInv' /\ BacklogInv' /\ PcbInv' /\ FreeInv'
<1>l. /\ d \in Conns /\ d # Listener /\ None \in Apps \cup {None} /\ Listener \in Conns
      /\ "RCVPLUS" \in Events /\ None # d
  BY SelectAssumption, Zenon DEF Conns, Events
<1>t. NetType /\ core \in CoreSet /\ AppType
  BY TypeParts, Zenon
<1>1. core' = Holding(None, <<<<Listener, "RCVPLUS">>>>)
  BY Zenon DEF AcceptFunction
<1>2. \A e : InTodo(e)' => e = <<Listener, "RCVPLUS">>
  BY <1>l, <1>1, TodoOne, Zenon
<1>3. \A x : ~InTodo(<<x, "SENDMINUS">>)'
  BY <1>2, Zenon
<1>4. /\ LockFree /\ UNCHANGED <<conn, socket, ev, app, want>> /\ ~pcb[d] /\ socket[d] = -1
      /\ mbox' = [mbox EXCEPT ![Listener] = @ + 1]
      /\ pcb' = [pcb EXCEPT ![d] = TRUE]
      /\ backlog' = Append(backlog, d)
  BY Zenon DEF AcceptFunction, callVars
<1>5. \A e : ~InTodo(e)
  BY <1>t, <1>4, TodoEmpty, Zenon
<1>6. ~Busy(d)
  BY <1>4, <1>5, Zenon DEF PcbInv
<1>7. \A x \in Conns : pcb'[x] <=> pcb[x] \/ x = d
  BY <1>l, <1>t, <1>4, Zenon DEF NetType
<1>8. /\ Len(backlog') = Len(backlog) + 1 /\ backlog'[Len(backlog) + 1] = d
      /\ \A i \in 1 .. Len(backlog) : backlog'[i] = backlog[i]
      /\ Len(backlog) \in Nat
  BY <1>t, <1>4 DEF NetType
<1>9. ASSUME NEW b \in Apps PROVE AppOK(b)'
  <2>1. app[b].pc = "free" => ~pcb'[app[b].c]
    BY <1>6, <1>7, Zenon DEF AppInv, AppOK, Conns, Busy, Unused
  <2>2. app[b].c # None => \A x \in Apps : x # b => app[x].c # app[b].c
    BY Zenon DEF AppInv, AppOK
  <2> QED
    BY <1>4, <1>5, <2>1, <2>2, AppKeeps, Zenon
<1>10. BacklogInv'
  <2>1. mbox'[Listener] = mbox[Listener] + 1 /\ mbox[Listener] \in Nat
    BY <1>l, <1>t, <1>4, Zenon DEF NetType
  <2>2. \A x : Unused(x)' <=> Unused(x)
    BY <1>4, Zenon DEF Unused
  <2>3. \A i \in 1 .. Len(backlog') : i \in 1 .. Len(backlog) \/ i = Len(backlog) + 1
    BY <1>8
  <2>4. \A i \in 1 .. Len(backlog) : backlog[i] # d
    BY <1>6, Zenon DEF Busy, Waits
  <2>5. \A i, j \in 1 .. Len(backlog') : i # j => backlog'[i] # backlog'[j]
    BY <1>8, <2>3, <2>4, Zenon DEF BacklogInv
  <2>6. ASSUME NEW i \in 1 .. Len(backlog')
        PROVE  /\ socket'[backlog'[i]] < 0 /\ (\A b \in Apps : app'[b].c # backlog'[i])
               /\ \A s \in Socks : conn'[s] # backlog'[i]
    <3>1. CASE i \in 1 .. Len(backlog)
      BY <1>4, <1>8, <3>1, Zenon DEF BacklogInv, Unused
    <3>2. CASE i = Len(backlog) + 1
      BY <1>4, <1>6, <1>8, <3>2 DEF Busy, Unused
    <3> QED
      BY <2>3, <3>1, <3>2, Zenon
  <2>7. Len(backlog') = mbox'[Listener] + (IF Unused(Listener)' THEN 0 ELSE 1)
    <3>1. Len(backlog) = mbox[Listener] + (IF Unused(Listener) THEN 0 ELSE 1)
      BY Zenon DEF BacklogInv
    <3>2. CASE Unused(Listener)
      BY <1>8, <2>1, <2>2, <3>1, <3>2
    <3>3. CASE ~Unused(Listener)
      BY <1>8, <2>1, <2>2, <3>1, <3>3, Zenon
    <3> QED
      BY <3>2, <3>3, Zenon
  <2> QED
    BY <2>5, <2>6, <2>7, Zenon DEF BacklogInv, Unused
<1>11. PcbInv'
  <2>1. \A x : Busy(x)' => Busy(x) \/ x = d
    <3>1. \A x : Waits(x)' => Waits(x) \/ x = d
      <4>1. \A i \in 1 .. Len(backlog') : i \in 1 .. Len(backlog) \/ i = Len(backlog) + 1
        BY <1>8
      <4> QED
        BY <1>8, <4>1, Zenon DEF Waits
    <3> QED
      BY <1>4, <3>1, Zenon DEF Busy, Unused
  <2>2. \A x \in Data : x \in Conns
    BY Zenon DEF Conns
  <2>3. /\ \A r, s \in Socks : conn'[r] = conn'[s] /\ conn'[r] # None => r = s
        /\ \A x \in Conns : socket'[x] < NSock
    BY <1>4, Zenon DEF PcbInv
  <2>4. ASSUME NEW x \in Conns, pcb'[x], socket'[x] >= 0
        PROVE  socket'[x] \in Socks /\ conn'[socket'[x]] = x
    <3>1. x # d
      BY <1>4, <2>4
    <3> QED
      BY <1>4, <1>7, <2>4, <3>1, Zenon DEF PcbInv
  <2>5. \A x \in Data : ~pcb'[x] /\ Busy(x)' => socket'[x] # -1 \/ InTodo(<<x, "RCVPLUS">>)'
    BY <1>4, <1>5, <1>7, <2>1, <2>2, Zenon DEF PcbInv
  <2> QED
    BY <1>3, <2>3, <2>4, <2>5, Zenon DEF PcbInv
<1>12. FreeInv'
  BY <1>4, Zenon DEF FreeInv
<1> QED
  BY <1>9, <1>10, <1>11, <1>12, Zenon DEF AppInv

\* The fields of the core lock's record.
LEMMA HeldShape ==
    \A by, events, check :
        /\ Held(by, events, check).todo = events /\ Held(by, events, check).check = check
        /\ events # <<>> => Held(by, events, check).by = by
  BY Zenon DEF Held

\* sendevent after an event.
LEMMA ApplyW ==
    \A e, evt : Apply(e, evt).w <=> ((e.w /\ evt # "SENDMINUS") \/ evt = "SENDPLUS")
  BY Zenon DEF Apply

\* What event_callback() changes.
LEMMA CallbackEffect ==
    ASSUME TypeOK, PcbInv, EventCallback
    PROVE  LET c == Head(core.todo)[1]
               evt == Head(core.todo)[2]
           IN  /\ c \in Conns /\ evt \in Events /\ Head(core.todo) = <<c, evt>>
               /\ core.todo # <<>> /\ core.check = None
               /\ core'.todo = Tail(core.todo)
               /\ core'.todo # <<>> => core'.by = core.by
               /\ \A x \in Conns : \/ socket'[x] = socket[x]
                                   \/ socket[x] < 0 /\ socket'[x] = socket[x] - 1
               /\ evt = "RCVPLUS" /\ socket[c] < 0 => socket'[c] = socket[c] - 1
               /\ \A r \in Socks : r # socket[c] \/ conn[r] = None => ev'[r] = ev[r]
               /\ socket[c] >= 0 => socket[c] \in Socks
               /\ socket[c] \in Socks /\ conn[socket[c]] # None =>
                     ev'[socket[c]] = Apply(ev[socket[c]], evt)
               /\ UNCHANGED <<conn, pcb, failed, mbox, backlog, waiting, app, linked, callVars, cbVars>>
<1> DEFINE c == Head(core.todo)[1]
           evt == Head(core.todo)[2]
           s == socket[c]
           chk == [s |-> s, has |-> Ready(Apply(ev[s], evt))]
<1>t. NetType /\ EvType /\ core \in CoreSet
  BY TypeParts, Zenon
<1>1. core.todo \in Seq(Conns \X Events) /\ core.todo # <<>> /\ core.by \in Apps \cup {None}
      /\ core.check = None
  BY <1>t, Zenon DEF CoreSet, EventCallback
<1>2. Head(core.todo) \in Conns \X Events /\ Tail(core.todo) \in Seq(Conns \X Events)
  BY <1>1
<1>3. c \in Conns /\ evt \in Events /\ Head(core.todo) = <<c, evt>> /\ s \in Int
  BY <1>t, <1>2 DEF NetType
<1>4. \A x \in Socks : x \in Int /\ x >= 0
  BY SelectAssumption DEF Socks
<1>5. s >= 0 => s \in Socks
  BY <1>3, SelectAssumption DEF PcbInv, Socks
<1>6. UNCHANGED <<conn, pcb, failed, mbox, backlog, waiting, app, linked, callVars, cbVars>>
  BY Zenon DEF EventCallback
<1>7. \/ /\ s < 0
         /\ socket' = [socket EXCEPT ![c] = IF evt = "RCVPLUS" THEN @ - 1 ELSE @]
         /\ core' = Holding(core.by, Tail(core.todo))
         /\ UNCHANGED ev
      \/ /\ s >= 0 /\ conn[s] = None
         /\ core' = Holding(core.by, Tail(core.todo))
         /\ UNCHANGED <<socket, ev>>
      \/ /\ s >= 0 /\ conn[s] # None
         /\ ev' = [ev EXCEPT ![s] = Apply(@, evt)]
         /\ core' = IF waiting[s] # 0 /\ CheckWaiters(ev[s], evt)
                    THEN Held(core.by, Tail(core.todo), chk)
                    ELSE Holding(core.by, Tail(core.todo))
         /\ UNCHANGED socket
  BY Zenon DEF EventCallback
<1>8. core'.todo = Tail(core.todo) /\ (core'.todo # <<>> => core'.by = core.by)
  <2>1. \/ core' = Holding(core.by, Tail(core.todo))
        \/ core' = Held(core.by, Tail(core.todo), chk)
    BY <1>7, Zenon
  <2>2. \/ core' = Held(core.by, Tail(core.todo), None)
        \/ core' = Held(core.by, Tail(core.todo), chk)
    BY <2>1, Zenon DEF Holding
  <2> QED
    BY <2>2, HeldShape
<1> HIDE DEF c, evt
<1>9. \A x \in Conns : \/ socket'[x] = socket[x]
                       \/ socket[x] < 0 /\ socket'[x] = socket[x] - 1
  BY <1>t, <1>3, <1>7, Zenon DEF NetType
<1>10. evt = "RCVPLUS" /\ s < 0 => socket'[c] = s - 1
  BY <1>t, <1>3, <1>7 DEF NetType
<1>11. \A r \in Socks : r # s \/ conn[r] = None => ev'[r] = ev[r]
  BY <1>t, <1>7, Zenon DEF EvType
<1>12. s \in Socks /\ conn[s] # None => ev'[s] = Apply(ev[s], evt)
  BY <1>t, <1>3, <1>4, <1>7 DEF EvType
<1> QED
  BY <1>1, <1>3, <1>5, <1>6, <1>8, <1>9, <1>10, <1>11, <1>12, Zenon DEF c, evt

\* event_callback() takes no socket from its owner and no writable socket from
\* a thread that counts on it.
LEMMA EventOwn ==
    ASSUME TypeOK, AppInv, BacklogInv, PcbInv, FreeInv, EventCallback
    PROVE  AppInv' /\ BacklogInv' /\ PcbInv' /\ FreeInv'
<1>t. NetType /\ core \in CoreSet /\ AppType /\ EvType
  BY TypeParts, Zenon
<1> DEFINE c == Head(core.todo)[1]
           evt == Head(core.todo)[2]
<1>1. /\ c \in Conns /\ Head(core.todo) = <<c, evt>>
      /\ core.todo # <<>> /\ core'.todo = Tail(core.todo)
      /\ core'.todo # <<>> => core'.by = core.by
      /\ \A x \in Conns : \/ socket'[x] = socket[x]
                          \/ socket[x] < 0 /\ socket'[x] = socket[x] - 1
      /\ evt = "RCVPLUS" /\ socket[c] < 0 => socket'[c] = socket[c] - 1
      /\ \A r \in Socks : r # socket[c] \/ conn[r] = None => ev'[r] = ev[r]
      /\ socket[c] \in Socks /\ conn[socket[c]] # None =>
            ev'[socket[c]] = Apply(ev[socket[c]], evt)
      /\ UNCHANGED <<conn, pcb, mbox, backlog, app, want>>
  BY CallbackEffect, Zenon DEF callVars
<1>2. /\ \A e : InTodo(e)' => InTodo(e)
      /\ \A e : InTodo(e) => e = <<c, evt>> \/ InTodo(e)'
      /\ InTodo(<<c, evt>>)
  BY <1>t, <1>1, TodoNext, Zenon
<1> HIDE DEF c, evt
<1>3. \A x \in Conns : socket[x] \in Int
  BY <1>t, Zenon DEF NetType
<1>4. evt = "SENDMINUS" => pcb[c]
  BY <1>1, <1>2, Zenon DEF PcbInv
<1>5. ASSUME NEW b \in Apps PROVE AppOK(b)'
  <2> DEFINE d == app[b].c
             s == app[b].s
  <2>1. d # None => \A x \in Apps : x # b => app[x].c # d
    BY Zenon DEF AppInv, AppOK
  <2>2. d # None => d \in Conns
    BY <1>t, Zenon DEF AppType
  <2>3. d # None => socket'[d] = socket[d] \/ (socket[d] < 0 /\ socket'[d] < 0)
    BY <1>1, <1>3, <2>2
  <2>4. app[b].pc \in {"assign", "free"} => (ev[s].w => ev'[s].w)
    <3>1. HAVE app[b].pc \in {"assign", "free"}
    <3>2. HAVE ev[s].w
    <3>3. /\ s \in Socks /\ conn[s] = d /\ d # None
          /\ socket[d] < 0 \/ (~pcb[d] /\ socket[d] = s)
      BY <3>1, SelectAssumption, Zenon DEF AppInv, AppOK, Conns
    <3>4. CASE s # socket[c]
      BY <1>1, <3>2, <3>3, <3>4, Zenon
    <3>5. CASE s = socket[c]
      <4>1. evt # "SENDMINUS"
        <5>1. SUFFICES ASSUME evt = "SENDMINUS" PROVE FALSE
          BY Zenon
        <5>2. pcb[c] /\ socket[c] >= 0
          BY <1>4, <3>3, <3>5, <5>1, SelectAssumption DEF Socks
        <5>3. conn[s] = c
          BY <1>1, <3>5, <5>2, Zenon DEF PcbInv
        <5> QED
          BY <1>1, <1>3, <3>3, <3>5, <5>2, <5>3
      <4>2. ev'[s] = Apply(ev[s], evt)
        BY <1>1, <3>3, <3>5, Zenon
      <4> QED
        BY <3>2, <4>1, <4>2, ApplyW, Zenon
    <3> QED
      BY <3>4, <3>5, Zenon
  <2>5. ASSUME app[b].pc = "free", core.by = b, InTodo(<<d, "SENDPLUS">>)
        PROVE  \/ ev'[s].w
               \/ core'.by = b
                  /\ \E i \in 1 .. Len(core'.todo) : core'.todo[i] = <<d, "SENDPLUS">>
    <3>0. PICK e : e = <<d, "SENDPLUS">>
      BY Zenon
    <3>1. s \in Socks /\ conn[s] = d /\ d # None /\ socket[d] = s
      BY <2>5, SelectAssumption, Zenon DEF AppInv, AppOK, Conns
    <3>2. CASE e = <<c, evt>>
      <4>1. d = c /\ evt = "SENDPLUS"
        BY <3>0, <3>2
      <4>2. ev'[s] = Apply(ev[s], evt)
        BY <1>1, <3>1, <4>1, Zenon
      <4> QED
        BY <4>1, <4>2, ApplyW
    <3>3. CASE InTodo(e)'
      <4>1. \E i \in 1 .. Len(core'.todo) : core'.todo[i] = <<d, "SENDPLUS">>
        BY <3>0, <3>3, Zenon DEF InTodo
      <4>2. core'.todo # <<>>
        BY <4>1
      <4> QED
        BY <1>1, <2>5, <4>1, <4>2, Zenon
    <3> QED
      BY <1>2, <2>5, <3>0, <3>2, <3>3, Zenon
  <2>6. app[b].pc = "free" => ~pcb'[d]
    BY <1>1, Zenon DEF AppInv, AppOK
  <2>7. app'[b] = app[b] /\ (d # None => \A x \in Apps : x # b => app'[x].c # d)
        /\ \A r \in Socks : conn[r] = d <=> conn'[r] = d
    BY <1>1, <2>1, Zenon
  <2> QED
    BY <2>3, <2>4, <2>5, <2>6, <2>7, AppKeeps, Zenon
<1>6. BacklogInv'
  <2>1. backlog \in Seq(Data)
    BY <1>t, Zenon DEF NetType
  <2>2. \A i \in 1 .. Len(backlog) : backlog[i] \in Conns
    BY <2>1 DEF Conns
  <2>3. \A i \in 1 .. Len(backlog) : socket'[backlog[i]] < 0
    BY <1>1, <1>3, <2>2 DEF BacklogInv
  <2> QED
    BY <1>1, <2>3, Zenon DEF BacklogInv, Unused
<1>7. PcbInv'
  <2>1. \A x : Busy(x)' <=> Busy(x)
    BY <1>1, Zenon DEF Busy, Waits, Unused
  <2>2. \A r, s \in Socks : conn'[r] = conn'[s] /\ conn'[r] # None => r = s
    BY <1>1, Zenon DEF PcbInv
  <2>3. \A x \in Conns : socket'[x] < NSock
    <3>1. \A x \in Conns : socket[x] < 0 => socket[x] - 1 < NSock
      BY <1>t, SelectAssumption DEF NetType
    <3> QED
      BY <1>1, <1>3, <3>1, Zenon DEF PcbInv
  <2>4. \A x \in Conns : pcb'[x] /\ socket'[x] >= 0 => socket'[x] \in Socks /\ conn'[socket'[x]] = x
    BY <1>1, <1>3 DEF PcbInv
  <2>5. \A x \in Conns : InTodo(<<x, "SENDMINUS">>)' => pcb'[x]
    BY <1>1, <1>2, Zenon DEF PcbInv
  <2>6. ASSUME NEW x \in Data, ~pcb'[x], Busy(x)', socket'[x] = -1
        PROVE  InTodo(<<x, "RCVPLUS">>)'
    <3>1. x \in Conns /\ socket[x] = -1
      BY <1>1, <1>3, <2>6 DEF Conns
    <3>2. InTodo(<<x, "RCVPLUS">>)
      BY <1>1, <2>1, <2>6, <3>1, Zenon DEF PcbInv
    <3>3. <<x, "RCVPLUS">> # <<c, evt>>
      BY <1>1, <2>6, <3>1
    <3> QED
      BY <1>2, <3>2, <3>3, Zenon
  <2> QED
    BY <2>2, <2>3, <2>4, <2>5, <2>6, Zenon DEF PcbInv
<1>8. FreeInv'
  BY <1>1, ZenonT(30) DEF FreeInv
<1> QED
  BY <1>5, <1>6, <1>7, <1>8, Zenon DEF AppInv

\* select_check_waiters() and the waiters leave the netconns alone; a call is
\* made for sockets that are in use.
LEMMA CheckOwn ==
    ASSUME TypeOK, AppInv, BacklogInv, PcbInv, FreeInv, SelectCheckWaiters
    PROVE  AppInv' /\ BacklogInv' /\ PcbInv' /\ FreeInv'
<1>1. /\ core'.todo = core.todo /\ (core.todo # <<>> => core'.by = core.by)
      /\ UNCHANGED <<conn, socket, pcb, mbox, backlog, ev, app, want>>
  BY HeldShape DEF SelectCheckWaiters, Holding, connVars, callVars
<1>2. \A e : InTodo(e)' <=> InTodo(e)
  BY <1>1, Zenon DEF InTodo
<1>3. ASSUME NEW b \in Apps PROVE AppOK(b)'
  <2>1. app[b].c # None => \A x \in Apps : x # b => app[x].c # app[b].c
    BY Zenon DEF AppInv, AppOK
  <2>2. app[b].pc = "free" => ~pcb[app[b].c]
    BY Zenon DEF AppInv, AppOK
  <2>3. core.by = b /\ InTodo(<<app[b].c, "SENDPLUS">>) =>
           core'.by = b
           /\ \E i \in 1 .. Len(core'.todo) : core'.todo[i] = <<app[b].c, "SENDPLUS">>
    BY <1>1 DEF InTodo
  <2> QED
    BY <1>1, <2>1, <2>2, <2>3, AppKeeps, Zenon
<1>4. BacklogInv'
  BY <1>1, Zenon DEF BacklogInv, Unused
<1>5. PcbInv'
  <2>1. \A x : Busy(x)' <=> Busy(x)
    BY <1>1, Zenon DEF Busy, Waits, Unused
  <2> QED
    BY <1>1, <1>2, <2>1, Zenon DEF PcbInv
<1>6. FreeInv'
  BY <1>1, Zenon DEF FreeInv
<1> QED
  BY <1>3, <1>4, <1>5, <1>6, Zenon DEF AppInv

\* Asking for errors too adds no socket.
LEMMA AskedSocks ==
    ASSUME NEW t, NEW w \in SUBSET (Socks \X Kinds)
    PROVE  SocksOf(Asked(t, w)) = SocksOf(w)
  BY Zenon DEF SocksOf, Asked

\* The steps of a waiter.
LEMMA WaiterOwn ==
    ASSUME TypeOK, AppInv, BacklogInv, PcbInv, FreeInv, NEW t \in Threads, Waiter(t)
    PROVE  AppInv' /\ BacklogInv' /\ PcbInv' /\ FreeInv'
<1>t. CallType
  BY TypeParts, Zenon
<1>1. UNCHANGED outVars
  BY Zenon DEF Waiter, WaiterStep, Scan, Scanned1, Link, IncWaiting, WaitingFull,
     Counted, Scanned2,
         Wake, DecWaiting, Unlink, Scanned3, Call, SemNewFails, TimeOut
<1>2. UNCHANGED <<conn, socket, pcb, mbox, backlog, ev, core, app>>
  BY <1>1, Zenon DEF outVars, connVars
<1>3. AppInv' /\ BacklogInv' /\ PcbInv'
  <2>1. AppInv'
    BY <1>2, ZenonT(30) DEF AppInv, AppOK, InTodo
  <2>2. BacklogInv'
    BY <1>2, Zenon DEF BacklogInv, Unused
  <2>3. PcbInv'
    BY <1>2, Zenon DEF PcbInv, Unused, Busy, Waits, InTodo
  <2> QED
    BY <2>1, <2>2, <2>3, ZenonT(30)
<1>4. \/ UNCHANGED want
      \/ want' = [want EXCEPT ![t] = {}]
      \/ \E w \in Wants : /\ \A s \in SocksOf(w) : conn[s] # None
                          /\ want' = [want EXCEPT ![t] = Asked(t, w)]
  BY Zenon DEF Waiter, WaiterStep, Scan, Scanned1, Link, IncWaiting, WaitingFull,
     Counted, Scanned2,
         Wake, DecWaiting, Unlink, Scanned3, Call, SemNewFails, TimeOut, Return
<1>5. FreeInv'
  <2>1. CASE UNCHANGED want
    BY <1>2, <2>1, Zenon DEF FreeInv
  <2>2. CASE want' = [want EXCEPT ![t] = {}]
    <3>1. SocksOf({}) = {}
      BY Zenon DEF SocksOf
    <3>2. \A u \in Threads : want'[u] = want[u] \/ want'[u] = {}
      BY <1>t, <2>2, Zenon DEF CallType
    <3> QED
      BY <1>2, <3>1, <3>2, Zenon DEF FreeInv
  <2>3. ASSUME NEW w \in Wants, \A s \in SocksOf(w) : conn[s] # None,
               want' = [want EXCEPT ![t] = Asked(t, w)]
        PROVE  FreeInv'
    <3>1. SocksOf(Asked(t, w)) = SocksOf(w)
      BY AskedSocks, SelectAssumption, Zenon
    <3>2. \A u \in Threads : want'[u] = want[u] \/ want'[u] = Asked(t, w)
      BY <1>t, <2>3, Zenon DEF CallType
    <3> QED
      BY <1>2, <2>3, <3>1, <3>2, Zenon DEF FreeInv
  <2> QED
    BY <1>4, <2>1, <2>2, <2>3, Zenon
<1> QED
  BY <1>3, <1>5, Zenon

\* What every netconn call of a thread has to show, besides its own step.
LEMMA OthersKeepOwn ==
    ASSUME AppInv, NEW a \in Apps, NEW b \in Apps, b # a,
           \A x \in Apps : x # a => app'[x] = app[x],
           app'[a].c # None =>
               app'[a].c = app[a].c \/ Unused(app'[a].c),
           app[b].c # None =>
               /\ \A r \in Socks : conn[r] = app[b].c <=> conn'[r] = app[b].c
               /\ socket'[app[b].c] = socket[app[b].c],
           app[b].pc \in {"assign", "free"} => (ev[app[b].s].w => ev'[app[b].s].w),
           app[b].pc = "free" => (pcb'[app[b].c] => pcb[app[b].c]),
           core' = core \/ \A e : ~InTodo(e)
    PROVE  AppOK(b)'
<1>1. app'[b] = app[b]
  BY Zenon
<1>2. app[b].c # None => \A x \in Apps : x # b => app'[x].c # app[b].c
  <2>1. app[b].c # None => \A x \in Apps : x # b => app[x].c # app[b].c
    BY Zenon DEF AppInv, AppOK
  <2>2. app[b].c # None => app'[a].c # app[b].c
    <3>1. HAVE app[b].c # None
    <3>2. CASE app'[a].c = None
      BY <3>1, <3>2, Zenon
    <3>3. CASE app'[a].c = app[a].c
      BY <2>1, <3>1, <3>3, Zenon
    <3>4. CASE Unused(app'[a].c)
      BY <3>4, Zenon DEF Unused
    <3> QED
      BY <3>2, <3>3, <3>4, Zenon
  <2> QED
    BY <2>1, <2>2, Zenon
<1>3. app[b].pc = "free" =>
        /\ ~pcb'[app[b].c]
        /\ core.by = b /\ InTodo(<<app[b].c, "SENDPLUS">>) =>
              \/ ev'[app[b].s].w
              \/ core'.by = b
                 /\ \E i \in 1 .. Len(core'.todo) : core'.todo[i] = <<app[b].c, "SENDPLUS">>
  <2>1. app[b].pc = "free" => ~pcb[app[b].c]
    BY Zenon DEF AppInv, AppOK
  <2>2. CASE core' = core
    BY <2>1, <2>2, Zenon DEF InTodo
  <2>3. CASE \A e : ~InTodo(e)
    BY <2>1, <2>3, Zenon
  <2> QED
    BY <2>2, <2>3, Zenon
<1> QED
  BY <1>1, <1>2, <1>3, AppKeeps, Zenon

\* sys_arch_mbox_fetch(): the thread now has the netconn.
LEMMA FetchOwn ==
    ASSUME TypeOK, AppInv, BacklogInv, PcbInv, FreeInv, NEW a \in Apps, NEW c \in Conns,
           Fetch(a, c)
    PROVE  AppInv' /\ BacklogInv' /\ PcbInv' /\ FreeInv'
<1>l. None \notin Conns /\ Listener \in Conns
  BY SelectAssumption, Zenon DEF Conns
<1>t. NetType /\ core \in CoreSet /\ AppType /\ EvType
  BY TypeParts, Zenon
<1>1. /\ app[a].pc = "idle" /\ Unused(c) /\ socket[c] >= 0 /\ conn[socket[c]] = c /\ mbox[c] > 0
      /\ mbox' = [mbox EXCEPT ![c] = @ - 1]
      /\ AppTo(a, "minus", c, socket[c])
      /\ UNCHANGED <<conn, socket, pcb, backlog, ev, core, want>>
  BY ZenonT(30) DEF Fetch, At, callVars
<1>2. socket[c] \in Socks /\ socket[c] \in Int
  BY <1>t, <1>1, SelectAssumption DEF PcbInv, NetType, Socks
<1>3. /\ app'[a].pc = "minus" /\ app'[a].c = c /\ app'[a].s = socket[c]
      /\ \A x \in Apps : x # a => app'[x] = app[x]
  BY <1>t, <1>1, <1>2, AppMoves, Zenon
<1>4. app[a].c = None
  BY <1>1, Zenon DEF AppInv, AppOK
<1>5. AppInv'
  <2>1. AppOK(a)'
    BY <1>l, <1>1, <1>2, <1>3, ZenonT(30) DEF AppOK, Unused
  <2>2. ASSUME NEW b \in Apps, b # a PROVE AppOK(b)'
    BY <1>1, <1>3, <2>2, OthersKeepOwn, ZenonT(30)
  <2> QED
    BY <2>1, <2>2, Zenon DEF AppInv
<1>6. BacklogInv'
  <2>1. \A i \in 1 .. Len(backlog) : backlog[i] # c
    BY <1>1, <1>2, Zenon DEF BacklogInv
  <2>2. \A i \in 1 .. Len(backlog) : \A b \in Apps : app'[b].c # backlog[i]
    BY <1>3, <2>1, Zenon DEF BacklogInv, Unused
  <2>3. Len(backlog) = mbox[Listener] + (IF Unused(Listener) THEN 0 ELSE 1)
        /\ mbox[Listener] \in Nat
    BY <1>l, <1>t, Zenon DEF BacklogInv, NetType
  <2>4. CASE c = Listener
    <3>1. ~Unused(Listener)' /\ Unused(Listener) /\ mbox'[Listener] = mbox[Listener] - 1
      BY <1>l, <1>t, <1>1, <1>3, <2>4, Zenon DEF Unused, NetType
    <3>2. Len(backlog) = mbox'[Listener] + (IF Unused(Listener)' THEN 0 ELSE 1)
      BY <2>3, <3>1
    <3> QED
      BY <1>1, <2>2, <3>2, ZenonT(30) DEF BacklogInv, Unused
  <2>5. CASE c # Listener
    <3>1. (Unused(Listener)' <=> Unused(Listener)) /\ mbox'[Listener] = mbox[Listener]
      BY <1>l, <1>t, <1>1, <1>3, <1>4, <2>5, Zenon DEF Unused, NetType
    <3> QED
      BY <1>1, <2>2, <2>3, <3>1, Zenon DEF BacklogInv, Unused
  <2> QED
    BY <2>4, <2>5, Zenon
<1>7. PcbInv'
  <2>1. \A x : Busy(x)' => Busy(x)
    BY <1>1, <1>2, <1>3, Zenon DEF Busy, Waits, Unused
  <2>2. \A e : InTodo(e)' <=> InTodo(e)
    BY <1>1, Zenon DEF InTodo
  <2> QED
    BY <1>1, <2>1, <2>2, Zenon DEF PcbInv
<1>8. FreeInv'
  BY <1>1, Zenon DEF FreeInv
<1> QED
  BY <1>5, <1>6, <1>7, <1>8, Zenon

\* The RCVMINUS event; netconn_accept() takes the netconn from the acceptmbox.
LEMMA MinusOwn ==
    ASSUME TypeOK, AppInv, BacklogInv, PcbInv, FreeInv, NEW a \in Apps, Minus(a)
    PROVE  AppInv' /\ BacklogInv' /\ PcbInv' /\ FreeInv'
<1>l. None \notin Conns /\ Listener \in Conns /\ Listener \notin Data /\ Data \subseteq Conns
  BY SelectAssumption, Zenon DEF Conns
<1>t. NetType /\ core \in CoreSet /\ AppType /\ EvType
  BY TypeParts, Zenon
<1>1. /\ app[a].pc = "minus"
      /\ ev' = [ev EXCEPT ![app[a].s] = Apply(@, "RCVMINUS")]
      /\ UNCHANGED <<conn, socket, pcb, mbox, core, want>>
      /\ \/ /\ app[a].c = Listener
            /\ AppTo(a, "alloc", Head(backlog), 0)
            /\ backlog' = Tail(backlog)
         \/ /\ app[a].c # Listener
            /\ AppTo(a, "idle", None, 0)
            /\ UNCHANGED backlog
  BY Zenon DEF Minus, At, callVars
<1>2. app[a].c # None /\ \A b \in Apps : b # a => app[b].c # app[a].c
  BY <1>1, ZenonT(30) DEF AppInv, AppOK
<1>3. \A r \in Socks : ev'[r].w <=> ev[r].w
  <2> TAKE r \in Socks
  <2>1. "RCVMINUS" # "SENDMINUS" /\ "RCVMINUS" # "SENDPLUS"
    OBVIOUS
  <2>2. ev'[r] = ev[r] \/ ev'[r] = Apply(ev[r], "RCVMINUS")
    BY <1>t, <1>1, Zenon DEF EvType
  <2> QED
    BY <2>1, <2>2, ApplyW, Zenon
<1>4. FreeInv'
  BY <1>1, <1>3, Zenon DEF FreeInv
<1>e. \A e : InTodo(e)' <=> InTodo(e)
  BY <1>1, Zenon DEF InTodo
<1>s. \A b \in Apps : app[b].pc \in {"assign", "free"} => app[b].s \in Socks
  BY Zenon DEF AppInv, AppOK
<1>5. CASE app[a].c # Listener
  <2>1. /\ app'[a].pc = "idle" /\ app'[a].c = None
        /\ \A x \in Apps : x # a => app'[x] = app[x]
    <3>1. AppTo(a, "idle", None, 0)
      BY <1>1, <1>5, Zenon
    <3> QED
      BY <1>t, <3>1, AppMoves, ZeroIsInt, Zenon
  <2>2. UNCHANGED backlog
    BY <1>1, <1>5, Zenon
  <2>3. AppInv'
    <3>1. AppOK(a)'
      BY <2>1, Zenon DEF AppOK
    <3>2. ASSUME NEW b \in Apps, b # a PROVE AppOK(b)'
      BY <1>1, <1>3, <1>s, <2>1, <3>2, OthersKeepOwn, Zenon
    <3> QED
      BY <3>1, <3>2, Zenon DEF AppInv
  <2>4. BacklogInv'
    <3>1. Unused(Listener)' <=> Unused(Listener)
      BY <1>l, <1>5, <2>1, Zenon DEF Unused
    <3>2. \A i \in 1 .. Len(backlog) : \A b \in Apps : app'[b].c # backlog[i]
      <4>1. \A i \in 1 .. Len(backlog) : backlog[i] # None
        BY <1>l, <1>t DEF NetType
      <4> QED
        BY <2>1, <4>1, Zenon DEF BacklogInv, Unused
    <3> QED
      BY <1>1, <2>2, <3>1, <3>2, Zenon DEF BacklogInv, Unused
  <2>5. PcbInv'
    <3>1. \A x \in Data : Busy(x)' => Busy(x)
      BY <1>l, <1>1, <2>1, <2>2, Zenon DEF Busy, Waits, Unused
    <3> QED
      BY <1>1, <1>e, <3>1, Zenon DEF PcbInv
  <2> QED
    BY <1>4, <2>3, <2>4, <2>5, Zenon
<1>6. CASE app[a].c = Listener
  <2>1. ~Unused(Listener) /\ backlog \in Seq(Data) /\ mbox[Listener] \in Nat
    BY <1>l, <1>t, <1>6, Zenon DEF Unused, NetType
  <2>2. Len(backlog) = mbox[Listener] + 1
    BY <2>1, Zenon DEF BacklogInv
  <2>3. /\ backlog # <<>> /\ Head(backlog) = backlog[1] /\ Head(backlog) \in Data
        /\ Len(Tail(backlog)) = Len(backlog) - 1
        /\ \A i \in 1 .. Len(backlog) - 1 : Tail(backlog)[i] = backlog[i + 1]
    BY <2>1, <2>2
  <2>4. AppTo(a, "alloc", Head(backlog), 0) /\ backlog' = Tail(backlog)
    BY <1>1, <1>6, Zenon
  <2>5. /\ app'[a].pc = "alloc" /\ app'[a].c = backlog[1]
        /\ \A x \in Apps : x # a => app'[x] = app[x]
    <3>1. Head(backlog) \in Conns \cup {None}
      BY <1>l, <2>3, Zenon
    <3> QED
      BY <1>t, <2>3, <2>4, <3>1, AppMoves, ZeroIsInt, Zenon
  <2>6. 1 \in 1 .. Len(backlog) /\ backlog[1] \in Data /\ backlog[1] # None
    BY <1>l, <2>1, <2>2, <2>3
  <2>7. socket[backlog[1]] < 0 /\ Unused(backlog[1]) /\ \A s \in Socks : conn[s] # backlog[1]
    BY <2>6, Zenon DEF BacklogInv
  <2>8. AppInv'
    <3>1. AppOK(a)'
      BY <1>1, <2>5, <2>6, <2>7, Zenon DEF AppOK, Unused
    <3>2. ASSUME NEW b \in Apps, b # a PROVE AppOK(b)'
      BY <1>1, <1>3, <1>s, <2>5, <2>7, <3>2, OthersKeepOwn, Zenon
    <3> QED
      BY <3>1, <3>2, Zenon DEF AppInv
  <2>9. \A i \in 1 .. Len(backlog') : /\ i + 1 \in 1 .. Len(backlog) /\ i + 1 # 1
                                      /\ backlog'[i] = backlog[i + 1]
    <3>1. \A i \in 1 .. Len(backlog) - 1 : i + 1 \in 1 .. Len(backlog) /\ i + 1 # 1
      BY <2>1, <2>2
    <3> QED
      BY <2>3, <2>4, <3>1, Zenon
  <2>10. BacklogInv'
    <3>1. Unused(Listener)'
      BY <1>l, <1>2, <1>6, <2>5, <2>6, ZenonT(30) DEF Unused
    <3>2. Len(backlog') = mbox'[Listener]
      BY <1>1, <2>1, <2>2, <2>3, <2>4
    <3>3. \A i, j \in 1 .. Len(backlog') : i # j => backlog'[i] # backlog'[j]
      <4> SUFFICES ASSUME NEW i \in 1 .. Len(backlog'), NEW j \in 1 .. Len(backlog'), i # j
                   PROVE  backlog'[i] # backlog'[j]
        BY Zenon
      <4>1. i + 1 # j + 1
        OBVIOUS
      <4>2. /\ i + 1 \in 1 .. Len(backlog) /\ backlog'[i] = backlog[i + 1]
            /\ j + 1 \in 1 .. Len(backlog) /\ backlog'[j] = backlog[j + 1]
        BY <2>9, Zenon
      <4> QED
        BY <4>1, <4>2, Zenon DEF BacklogInv
    <3>4. ASSUME NEW i \in 1 .. Len(backlog')
          PROVE  /\ socket'[backlog'[i]] < 0 /\ (\A b \in Apps : app'[b].c # backlog'[i])
                 /\ \A s \in Socks : conn'[s] # backlog'[i]
      <4>1. i + 1 \in 1 .. Len(backlog) /\ i + 1 # 1 /\ backlog'[i] = backlog[i + 1]
        BY <2>9, Zenon
      <4>2. backlog[i + 1] # backlog[1]
        BY <2>6, <4>1, Zenon DEF BacklogInv
      <4> QED
        BY <1>1, <2>5, <4>1, <4>2, ZenonT(30) DEF BacklogInv, Unused
    <3> QED
      BY <1>1, <2>1, <3>1, <3>2, <3>3, <3>4 DEF BacklogInv, Unused
  <2>11. PcbInv'
    <3>1. \A x : Busy(x)' => Busy(x)
      <4>1. \A x : Waits(x)' => Waits(x)
        BY <2>9, Zenon DEF Waits
      <4>2. Waits(backlog[1])
        BY <2>6, Zenon DEF Waits
      <4> QED
        BY <1>1, <2>5, <4>1, <4>2, Zenon DEF Busy, Unused
    <3> QED
      BY <1>1, <1>e, <3>1, Zenon DEF PcbInv
  <2> QED
    BY <1>4, <2>8, <2>10, <2>11, Zenon
<1> QED
  BY <1>5, <1>6, Zenon

\* alloc_socket(): a free socket for the new netconn, or none.
LEMMA AllocOwn ==
    ASSUME TypeOK, AppInv, BacklogInv, PcbInv, FreeInv, NEW a \in Apps, AllocSocket(a)
    PROVE  AppInv' /\ BacklogInv' /\ PcbInv' /\ FreeInv'
<1>l. None \notin Conns /\ Listener \notin Data /\ Data \subseteq Conns
  BY SelectAssumption, Zenon DEF Conns
<1>t. NetType /\ core \in CoreSet /\ AppType /\ EvType
  BY TypeParts, Zenon
<1> DEFINE free == {x \in Socks : conn[x] = None}
           s == CHOOSE x \in free : \A y \in free : x <= y
           c == app[a].c
<1>1. /\ app[a].pc = "alloc"
      /\ UNCHANGED <<socket, pcb, mbox, backlog, core, want>>
      /\ \/ /\ free = {}
            /\ AppTo(a, "delete", app[a].c, 0)
            /\ UNCHANGED <<conn, ev>>
         \/ /\ free # {}
            /\ conn' = [conn EXCEPT ![s] = app[a].c]
            /\ ev' = [ev EXCEPT ![s] = [r |-> 0, w |-> TRUE, e |-> FALSE]]
            /\ AppTo(a, "assign", app[a].c, s)
  BY Zenon DEF AllocSocket, At, callVars
<1>2. /\ c \in Data /\ c # None /\ socket[c] < 0
      /\ \A r \in Socks : conn[r] # c
      /\ \A b \in Apps : b # a => app[b].c # c
  BY <1>l, <1>1, Zenon DEF AppInv, AppOK
<1>e. \A e : InTodo(e)' <=> InTodo(e)
  BY <1>1, Zenon DEF InTodo
<1>b. \A b \in Apps : app[b].c # None => app[b].c \in Conns
  BY <1>t, Zenon DEF AppType
<1>3. CASE free = {}
  <2>1. AppTo(a, "delete", c, 0) /\ UNCHANGED <<conn, ev>>
    BY <1>1, <1>3, ZenonT(30)
  <2>2. /\ app'[a].pc = "delete" /\ app'[a].c = c
        /\ \A x \in Apps : x # a => app'[x] = app[x]
    BY <1>l, <1>t, <1>2, <2>1, AppMoves, ZeroIsInt, Zenon
  <2>3. \A x \in Apps : app'[x].c = app[x].c
    BY <2>2, Zenon
  <2>4. AppInv'
    <3>1. AppOK(a)'
      BY <1>2, <2>1, <2>2, Zenon DEF AppOK
    <3>2. ASSUME NEW b \in Apps, b # a PROVE AppOK(b)'
      BY <1>1, <2>1, <2>2, <3>2, OthersKeepOwn, ZenonT(30)
    <3> QED
      BY <3>1, <3>2, Zenon DEF AppInv
  <2>5. BacklogInv'
    BY <1>1, <2>1, <2>3 DEF BacklogInv, Unused
  <2>6. PcbInv'
    <3>1. \A x : Busy(x)' <=> Busy(x)
      BY <1>1, <2>1, <2>3, Zenon DEF Busy, Waits, Unused
    <3> QED
      BY <1>1, <1>e, <2>1, <3>1, Zenon DEF PcbInv
  <2>7. FreeInv'
    BY <1>1, <2>1, Zenon DEF FreeInv
  <2> QED
    BY <2>4, <2>5, <2>6, <2>7, Zenon
<1>4. CASE free # {}
  <2>1. /\ conn' = [conn EXCEPT ![s] = c]
        /\ ev' = [ev EXCEPT ![s] = [r |-> 0, w |-> TRUE, e |-> FALSE]]
        /\ AppTo(a, "assign", c, s)
    BY <1>1, <1>4, Zenon
  <2>2. s \in Socks /\ conn[s] = None
    BY <1>4, FreeSocketIs, Zenon
  <2> HIDE DEF s
  <2>3. /\ app'[a].pc = "assign" /\ app'[a].c = c /\ app'[a].s = s
        /\ \A x \in Apps : x # a => app'[x] = app[x]
    <3>1. s \in Int /\ c \in Conns \cup {None}
      BY <1>l, <1>2, <2>2 DEF Socks
    <3> QED
      BY <1>t, <2>1, <3>1, AppMoves, ZenonT(30)
  <2>4. /\ conn'[s] = c /\ \A r \in Socks : r # s => conn'[r] = conn[r]
        /\ ev'[s].w /\ \A r \in Socks : r # s => ev'[r] = ev[r]
    <3>1. [r |-> 0, w |-> TRUE, e |-> FALSE].w
      BY Zenon
    <3> QED
      BY <1>t, <2>1, <2>2, <3>1, Zenon DEF NetType, EvType
  <2>5. \A x \in Apps : app'[x].c = app[x].c
    BY <2>3, ZenonT(30)
  <2>6. AppInv'
    <3>1. AppOK(a)'
      BY <1>1, <1>2, <2>2, <2>3, <2>4, ZenonT(60) DEF AppOK
    <3>2. ASSUME NEW b \in Apps, b # a PROVE AppOK(b)'
      <4>1. app[b].c # None => \A r \in Socks : conn[r] = app[b].c <=> conn'[r] = app[b].c
        BY <1>2, <2>2, <2>4, <3>2, Zenon
      <4>2. app[b].pc \in {"assign", "free"} => (ev[app[b].s].w => ev'[app[b].s].w)
        BY <1>l, <2>2, <2>4, Zenon DEF AppInv, AppOK
      <4>3. app'[a].c = app[a].c
        BY <2>3, Zenon
      <4> HIDE DEF c
      <4> QED
        BY <1>1, <2>3, <3>2, <4>1, <4>2, <4>3, OthersKeepOwn, Zenon
    <3> QED
      BY <3>1, <3>2, Zenon DEF AppInv
  <2>7. BacklogInv'
    <3>1. \A i \in 1 .. Len(backlog) : backlog[i] # c
      BY Zenon DEF BacklogInv, Unused
    <3>2. \A i \in 1 .. Len(backlog) : \A r \in Socks : conn'[r] # backlog[i]
      BY <2>4, <3>1, Zenon DEF BacklogInv
    <3> QED
      BY <1>1, <2>5, <3>2 DEF BacklogInv, Unused
  <2>8. PcbInv'
    <3>1. \A x : Busy(x)' => Busy(x)
      BY <1>1, <2>4, <2>5, ZenonT(30) DEF Busy, Waits, Unused
    <3>2. \A p, r \in Socks : conn'[p] = conn'[r] /\ conn'[p] # None => p = r
      <4> SUFFICES ASSUME NEW p \in Socks, NEW r \in Socks, conn'[p] = conn'[r], conn'[p] # None
                   PROVE  p = r
        BY Zenon
      <4>1. \A x \in Socks : conn[x] # c
        BY <1>2, Zenon
      <4>2. p = s <=> r = s
        BY <2>4, <4>1, Zenon
      <4>3. CASE p # s
        <5>1. conn[p] = conn[r] /\ conn[p] # None
          BY <2>4, <4>2, <4>3, Zenon
        <5> QED
          BY <5>1, Zenon DEF PcbInv
      <4> QED
        BY <4>2, <4>3, Zenon
    <3>3. \A d \in Conns : pcb'[d] /\ socket'[d] >= 0 => socket'[d] \in Socks /\ conn'[socket'[d]] = d
      <4> SUFFICES ASSUME NEW d \in Conns, pcb[d], socket[d] >= 0
                   PROVE  socket[d] \in Socks /\ conn'[socket[d]] = d
        BY <1>1, Zenon
      <4>1. socket[d] \in Socks /\ conn[socket[d]] = d
        BY Zenon DEF PcbInv
      <4>2. socket[d] # s
        BY <1>l, <2>2, <4>1, Zenon
      <4> QED
        BY <2>4, <4>1, <4>2, Zenon
    <3> QED
      BY <1>1, <1>e, <3>1, <3>2, <3>3, Zenon DEF PcbInv
  <2>9. FreeInv'
    BY <1>1, <1>2, <2>4, Zenon DEF FreeInv
  <2> QED
    BY <2>6, <2>7, <2>8, <2>9, Zenon
<1> QED
  BY <1>3, <1>4, Zenon

\* free_socket(): after lwip_close() has signalled, or in a lwip_accept() that
\* found the pcb gone.
LEMMA FreeOwn ==
    ASSUME TypeOK, AppInv, BacklogInv, PcbInv, FreeInv, NEW a \in Apps,
           PeerGone(a) \/ FreeSocket(a)
    PROVE  AppInv' /\ BacklogInv' /\ PcbInv' /\ FreeInv'
<1>l. None \notin Conns /\ Listener \notin Data /\ Data \subseteq Conns
  BY SelectAssumption, Zenon DEF Conns
<1>t. NetType /\ core \in CoreSet /\ AppType /\ EvType
  BY TypeParts, Zenon
<1> DEFINE s == app[a].s
           c == app[a].c
<1>1. /\ app[a].pc \in {"assign", "free"} /\ core.by # a
      /\ app[a].pc = "assign" => ~pcb[c]
      /\ conn' = [conn EXCEPT ![s] = None]
      /\ AppTo(a, "delete", c, 0)
      /\ UNCHANGED <<socket, pcb, mbox, backlog, ev, core, want>>
  BY Zenon DEF PeerGone, FreeSocket, At, Done, callVars
<1>2. /\ c \in Data /\ c # None /\ s \in Socks /\ conn[s] = c /\ ~pcb[c] /\ ev[s].w
      /\ \A b \in Apps : b # a => app[b].c # c
  BY <1>l, <1>1, ZenonT(30) DEF AppInv, AppOK
<1>3. \A r \in Socks : conn[r] = c => r = s
  BY <1>2 DEF PcbInv
<1>e. \A e : InTodo(e)' <=> InTodo(e)
  BY <1>1, ZenonT(30) DEF InTodo
<1>4. /\ app'[a].pc = "delete" /\ app'[a].c = c
      /\ \A x \in Apps : x # a => app'[x] = app[x]
  BY <1>l, <1>t, <1>1, <1>2, AppMoves, ZeroIsInt, ZenonT(30)
<1>5. \A x \in Apps : app'[x].c = app[x].c
  BY <1>4, Zenon
<1>6. conn'[s] = None /\ \A r \in Socks : r # s => conn'[r] = conn[r]
  BY <1>t, <1>1, <1>2, Zenon DEF NetType
<1> HIDE DEF s, c
<1>7. AppInv'
  <2>1. AppOK(a)'
    BY <1>1, <1>2, <1>3, <1>4, <1>6 DEF AppOK
  <2>2. ASSUME NEW b \in Apps, b # a PROVE AppOK(b)'
    <3>1. app[b].c # None => \A r \in Socks : conn[r] = app[b].c <=> conn'[r] = app[b].c
      BY <1>2, <1>6, <2>2, Zenon
    <3>2. app'[a].c = app[a].c
      BY <1>4, ZenonT(30) DEF c
    <3> QED
      BY <1>1, <1>4, <2>2, <3>1, <3>2, OthersKeepOwn, Zenon
  <2> QED
    BY <2>1, <2>2, ZenonT(30) DEF AppInv
<1>8. BacklogInv'
  <2>1. \A i \in 1 .. Len(backlog) : backlog[i] # None
    BY <1>l, <1>t DEF NetType
  <2>2. \A i \in 1 .. Len(backlog) : \A r \in Socks : conn'[r] # backlog[i]
    BY <1>6, <2>1, Zenon DEF BacklogInv
  <2> QED
    BY <1>1, <1>5, <2>2, ZenonT(30) DEF BacklogInv, Unused
<1>9. PcbInv'
  <2>1. \A x \in Data : Busy(x)' => Busy(x)
    BY <1>l, <1>1, <1>5, <1>6, Zenon DEF Busy, Waits, Unused
  <2>2. \A p, r \in Socks : conn'[p] = conn'[r] /\ conn'[p] # None => p = r
    BY <1>6, Zenon DEF PcbInv
  <2>3. \A d \in Conns : pcb'[d] /\ socket'[d] >= 0 => socket'[d] \in Socks /\ conn'[socket'[d]] = d
    <3> SUFFICES ASSUME NEW d \in Conns, pcb[d], socket[d] >= 0
                 PROVE  socket[d] \in Socks /\ conn'[socket[d]] = d
      BY <1>1, Zenon
    <3>1. d # c /\ socket[d] \in Socks /\ conn[socket[d]] = d
      BY <1>2, Zenon DEF PcbInv
    <3> QED
      BY <1>2, <1>6, <3>1, Zenon
  <2> QED
    BY <1>1, <1>e, <2>1, <2>2, <2>3, Zenon DEF PcbInv
<1>10. FreeInv'
  BY <1>1, <1>2, <1>6, Zenon DEF FreeInv
<1> QED
  BY <1>7, <1>8, <1>9, <1>10, Zenon

\* lwip_accept() gives the netconn its socket number.
LEMMA AssignOwn ==
    ASSUME TypeOK, AppInv, BacklogInv, PcbInv, FreeInv, NEW a \in Apps, Assign(a)
    PROVE  AppInv' /\ BacklogInv' /\ PcbInv' /\ FreeInv'
<1>l. None \notin Conns /\ Listener \notin Data /\ Data \subseteq Conns
  BY SelectAssumption, Zenon DEF Conns
<1>t. NetType /\ core \in CoreSet /\ AppType /\ EvType
  BY TypeParts, Zenon
<1> DEFINE s == app[a].s
           c == app[a].c
<1>1. /\ app[a].pc = "assign"
      /\ socket' = [socket EXCEPT ![c] = s]
      /\ AppTo(a, "replay", c, -1 - socket[c])
      /\ UNCHANGED <<conn, pcb, mbox, backlog, ev, core, want>>
  BY Zenon DEF Assign, At, callVars
<1>2. /\ c \in Data /\ c \in Conns /\ c # None /\ s \in Socks /\ conn[s] = c /\ socket[c] < 0
      /\ \A b \in Apps : b # a => app[b].c # c
  BY <1>l, <1>1, Zenon DEF AppInv, AppOK
<1>3. -1 - socket[c] \in Int /\ -1 - socket[c] >= 0
  BY <1>t, <1>2 DEF NetType
<1>e. \A e : InTodo(e)' <=> InTodo(e)
  BY <1>1, Zenon DEF InTodo
<1>4. /\ app'[a].pc = "replay" /\ app'[a].c = c /\ app'[a].s = -1 - socket[c]
      /\ \A x \in Apps : x # a => app'[x] = app[x]
  <2>1. PICK k \in Int : k = -1 - socket[c]
    BY <1>3, Zenon
  <2>2. AppTo(a, "replay", c, k)
    BY <1>1, <2>1, Zenon
  <2>3. /\ app'[a].pc = "replay" /\ app'[a].c = c /\ app'[a].s = k
        /\ \A x \in Apps : x # a => app'[x] = app[x]
    BY <1>t, <1>2, <2>2, AppMoves, Zenon
  <2> QED
    BY <2>1, <2>3, Zenon
<1>5. \A x \in Apps : app'[x].c = app[x].c
  BY <1>4, Zenon
<1>6. socket'[c] = s /\ \A x \in Conns : x # c => socket'[x] = socket[x]
  BY <1>t, <1>1, <1>2, Zenon DEF NetType
<1>7. s >= 0 /\ s < NSock /\ s # -1
  BY <1>2, SelectAssumption DEF Socks
<1> HIDE DEF s, c
<1>8. AppInv'
  <2>1. AppOK(a)'
    BY <1>2, <1>3, <1>4, Zenon DEF AppOK
  <2>2. ASSUME NEW b \in Apps, b # a PROVE AppOK(b)'
    <3>1. app[b].c # None => socket'[app[b].c] = socket[app[b].c]
      BY <1>t, <1>2, <1>6, <2>2, Zenon DEF AppType
    <3>2. app'[a].c = app[a].c
      BY <1>4, ZenonT(30) DEF c
    <3> QED
      BY <1>1, <1>4, <2>2, <3>1, <3>2, OthersKeepOwn, Zenon
  <2> QED
    BY <2>1, <2>2, Zenon DEF AppInv
<1>9. BacklogInv'
  <2>1. \A i \in 1 .. Len(backlog) : backlog[i] # c /\ backlog[i] \in Conns
    BY <1>l, <1>t DEF BacklogInv, Unused, NetType, c
  <2>2. \A i \in 1 .. Len(backlog) : socket'[backlog[i]] < 0
    BY <1>6, <2>1, Zenon DEF BacklogInv
  <2> QED
    BY <1>1, <1>5, <2>2, ZenonT(30) DEF BacklogInv, Unused
<1>10. PcbInv'
  <2>1. \A x : Busy(x)' <=> Busy(x)
    BY <1>1, <1>5, Zenon DEF Busy, Waits, Unused
  <2>2. \A x \in Conns : socket'[x] < NSock
    BY <1>6, <1>7, Zenon DEF PcbInv
  <2>3. \A d \in Conns : pcb'[d] /\ socket'[d] >= 0 => socket'[d] \in Socks /\ conn'[socket'[d]] = d
    <3> SUFFICES ASSUME NEW d \in Conns, pcb[d], socket'[d] >= 0
                 PROVE  socket'[d] \in Socks /\ conn[socket'[d]] = d
      BY <1>1, Zenon
    <3>1. CASE d = c
      BY <1>2, <1>6, <3>1, Zenon
    <3>2. CASE d # c
      BY <1>6, <3>2, Zenon DEF PcbInv
    <3> QED
      BY <3>1, <3>2, Zenon
  <2>4. \A d \in Data : ~pcb'[d] /\ Busy(d)' => socket'[d] # -1 \/ InTodo(<<d, "RCVPLUS">>)'
    BY <1>l, <1>1, <1>e, <1>6, <1>7, <2>1, Zenon DEF PcbInv
  <2> QED
    BY <1>1, <1>e, <2>2, <2>3, <2>4, Zenon DEF PcbInv
<1>11. FreeInv'
  BY <1>1, Zenon DEF FreeInv
<1> QED
  BY <1>8, <1>9, <1>10, <1>11, Zenon

\* lwip_accept() plays back the events; the thread is done with the netconn.
LEMMA ReplayOwn ==
    ASSUME TypeOK, AppInv, BacklogInv, PcbInv, FreeInv, NEW a \in Apps, Replay(a)
    PROVE  AppInv' /\ BacklogInv' /\ PcbInv' /\ FreeInv'
<1>l. None \notin Conns /\ Listener \in Conns /\ Listener \notin Data /\ Data \subseteq Conns
  BY SelectAssumption, Zenon DEF Conns
<1>t. NetType /\ core \in CoreSet /\ AppType /\ EvType
  BY TypeParts, Zenon
<1>1. /\ app[a].pc = "replay" /\ LockFree
      /\ core' = Holding(a, Repeat(app[a].s, <<app[a].c, "RCVPLUS">>))
      /\ AppTo(a, "idle", None, 0)
      /\ UNCHANGED <<conn, socket, pcb, mbox, backlog, ev, want>>
  BY Zenon DEF Replay, At, callVars, connVars
<1>2. app[a].c \in Data /\ app[a].c \in Conns /\ app[a].s \in Int
  BY <1>l, <1>t, <1>1, Zenon DEF AppInv, AppOK, AppType
<1>3. NoMinus'
  BY <1>1, <1>2, TodoMany, Zenon
<1>4. \A e : ~InTodo(e)
  BY <1>t, <1>1, TodoEmpty, Zenon
<1>5. /\ app'[a].pc = "idle" /\ app'[a].c = None
      /\ \A x \in Apps : x # a => app'[x] = app[x]
  BY <1>t, <1>1, AppMoves, ZeroIsInt, Zenon
<1>6. UNCHANGED <<conn, socket, pcb, mbox, backlog, ev, want>>
  BY <1>1, Zenon
<1>7. AppInv'
  <2>1. AppOK(a)'
    BY <1>5, Zenon DEF AppOK
  <2>2. ASSUME NEW b \in Apps, b # a PROVE AppOK(b)'
    BY <1>4, <1>5, <1>6, <2>2, OthersKeepOwn, Zenon
  <2> QED
    BY <2>1, <2>2, Zenon DEF AppInv
<1>8. BacklogInv'
  <2>1. Unused(Listener)' <=> Unused(Listener)
    BY <1>l, <1>2, <1>5, Zenon DEF Unused
  <2>2. \A i \in 1 .. Len(backlog) : backlog[i] # None
    BY <1>l, <1>t DEF NetType
  <2>3. \A i \in 1 .. Len(backlog) : \A b \in Apps : app'[b].c # backlog[i]
    BY <1>5, <2>2, Zenon DEF BacklogInv, Unused
  <2> QED
    BY <1>6, <2>1, <2>3, Zenon DEF BacklogInv, Unused
<1>9. PcbInv'
  <2>1. \A x \in Data : Busy(x)' => Busy(x)
    BY <1>l, <1>5, <1>6, Zenon DEF Busy, Waits, Unused
  <2>2. \A d \in Data : ~pcb'[d] /\ Busy(d)' => socket'[d] # -1 \/ InTodo(<<d, "RCVPLUS">>)'
    BY <1>4, <1>6, <2>1, Zenon DEF PcbInv
  <2> QED
    BY <1>3, <1>6, <2>2, Zenon DEF PcbInv, NoMinus
<1>10. FreeInv'
  BY <1>6, Zenon DEF FreeInv
<1> QED
  BY <1>7, <1>8, <1>9, <1>10, Zenon

\* lwip_close() and netconn_delete(): lwip_netconn_do_delconn() takes the pcb.
LEMMA DeleteOwn ==
    ASSUME TypeOK, AppInv, BacklogInv, PcbInv, FreeInv, NEW a \in Apps, NEW c \in Data,
           \/ Close(a, c)
           \/ NetconnDelete(a) /\ app[a].c = c
    PROVE  AppInv' /\ BacklogInv' /\ PcbInv' /\ FreeInv'
<1>l. None \notin Conns /\ Listener \in Conns /\ Listener \notin Data /\ Data \subseteq Conns
      /\ c \in Conns
  BY SelectAssumption, Zenon DEF Conns
<1>t. NetType /\ core \in CoreSet /\ AppType /\ EvType
  BY TypeParts, Zenon
<1>1. /\ LockFree /\ pcb' = [pcb EXCEPT ![c] = FALSE] /\ mbox' = [mbox EXCEPT ![c] = 0]
      /\ core' = Holding(a, DelEvents(c))
      /\ UNCHANGED <<conn, socket, backlog, ev, want>>
  BY Zenon DEF Close, NetconnDelete, DelConn, DelEvents, callVars
<1>2. InTodo(<<c, "RCVPLUS">>)' /\ InTodo(<<c, "SENDPLUS">>)' /\ NoMinus' /\ core'.by = a
  BY <1>l, <1>1, TodoDelete, Zenon
<1>3. \A e : ~InTodo(e)
  BY <1>t, <1>1, TodoEmpty, Zenon
<1>4. (\A x \in Conns : pcb'[x] <=> pcb[x] /\ x # c) /\ mbox'[Listener] = mbox[Listener]
  BY <1>l, <1>t, <1>1, Zenon DEF NetType
<1>5. /\ \A x \in Apps : x # a => app'[x] = app[x]
      /\ app'[a].c = c
      /\ app[a].c = c \/ Unused(c)
      /\ \/ /\ app[a].c = None /\ app'[a].pc = "free"
            /\ app'[a].s = socket[c] /\ socket[c] \in Socks /\ conn[socket[c]] = c
         \/ /\ app[a].c = c /\ app'[a].pc = "netconn_free" /\ app[a].pc = "delete"
  <2>1. CASE Close(a, c)
    <3>1. /\ app[a].pc = "idle" /\ Unused(c) /\ socket[c] >= 0 /\ conn[socket[c]] = c
          /\ AppTo(a, "free", c, socket[c])
      BY <2>1, ZenonT(30) DEF Close, At
    <3>2. socket[c] \in Socks /\ socket[c] \in Int
      BY <1>l, <1>t, <3>1, SelectAssumption DEF PcbInv, NetType, Socks
    <3>3. app[a].c = None
      BY <3>1, ZenonT(30) DEF AppInv, AppOK
    <3> QED
      BY <1>l, <1>t, <3>1, <3>2, <3>3, AppMoves, ZeroIsInt, ZenonT(30)
  <2>2. CASE NetconnDelete(a) /\ app[a].c = c
    <3>1. app[a].pc = "delete" /\ AppTo(a, "netconn_free", c, 0)
      BY <2>2, Zenon DEF NetconnDelete, At
    <3> QED
      BY <1>l, <1>t, <2>2, <3>1, AppMoves, ZeroIsInt, Zenon
  <2> QED
    BY <2>1, <2>2, ZenonT(30)
<1>6. UNCHANGED <<conn, socket, backlog, ev, want>>
  BY <1>1, Zenon
<1>u. \A b \in Apps : b # a => app[b].c # c
  <2>1. CASE app[a].c = c
    BY <1>l, <2>1, Zenon DEF AppInv, AppOK
  <2>2. CASE Unused(c)
    BY <2>2, Zenon DEF Unused
  <2> QED
    BY <1>5, <2>1, <2>2, Zenon
<1>7. AppInv'
  <2>1. AppOK(a)'
    <3>1. /\ c \in Data /\ c # None /\ \A b \in Apps : b # a => app'[b].c # c
          /\ ~pcb'[c] /\ \E i \in 1 .. Len(core'.todo) : core'.todo[i] = <<c, "SENDPLUS">>
      BY <1>l, <1>2, <1>4, <1>5, <1>u, ZenonT(30) DEF InTodo
    <3>2. CASE app'[a].pc = "free"
      <4>1. app'[a].s \in Socks /\ conn'[app'[a].s] = c /\ socket'[c] = app'[a].s
        BY <1>5, <1>6, <3>2, Zenon
      <4> QED
        BY <1>2, <1>5, <3>1, <3>2, <4>1, Zenon DEF AppOK, InTodo
    <3>3. CASE app'[a].pc = "netconn_free"
      <4>1. \A r \in Socks : conn'[r] # c
        BY <1>5, <1>6, <3>3, ZenonT(30) DEF AppInv, AppOK
      <4> QED
        BY <1>5, <3>1, <3>3, <4>1, ZenonT(30) DEF AppOK
    <3> QED
      BY <1>5, <3>2, <3>3, Zenon
  <2>2. ASSUME NEW b \in Apps, b # a PROVE AppOK(b)'
    <3>1. app[b].pc = "free" => (pcb'[app[b].c] => pcb[app[b].c])
      BY <1>l, <1>4, Zenon DEF AppInv, AppOK
    <3>2. app'[a].c # None => app'[a].c = app[a].c \/ Unused(app'[a].c)
      BY <1>5, Zenon
    <3> QED
      BY <1>3, <1>5, <1>6, <2>2, <3>1, <3>2, OthersKeepOwn, Zenon
  <2> QED
    BY <2>1, <2>2, Zenon DEF AppInv
<1>8. BacklogInv'
  <2>1. Unused(Listener)' <=> Unused(Listener)
    BY <1>l, <1>5, ZenonT(30) DEF Unused
  <2>2. \A i \in 1 .. Len(backlog) : backlog[i] # c
    BY <1>5, ZenonT(30) DEF BacklogInv, Unused
  <2>3. \A i \in 1 .. Len(backlog) : \A b \in Apps : app'[b].c # backlog[i]
    BY <1>5, <2>2 DEF BacklogInv, Unused
  <2> QED
    BY <1>4, <1>6, <2>1, <2>3, Zenon DEF BacklogInv, Unused
<1>9. PcbInv'
  <2>1. \A x \in Data : Busy(x)' => Busy(x) \/ x = c
    BY <1>l, <1>5, <1>6, Zenon DEF Busy, Waits, Unused
  <2>2. \A d \in Data : ~pcb'[d] /\ Busy(d)' => socket'[d] # -1 \/ InTodo(<<d, "RCVPLUS">>)'
    BY <1>l, <1>2, <1>3, <1>4, <1>6, <2>1, Zenon DEF PcbInv
  <2>3. \A d \in Conns : pcb'[d] /\ socket'[d] >= 0 => socket'[d] \in Socks /\ conn'[socket'[d]] = d
    BY <1>4, <1>6, Zenon DEF PcbInv
  <2> QED
    BY <1>2, <1>6, <2>2, <2>3, Zenon DEF PcbInv, NoMinus
<1>10. FreeInv'
  BY <1>6, Zenon DEF FreeInv
<1> QED
  BY <1>7, <1>8, <1>9, <1>10, Zenon

\* netconn_free(): the memory may become the next netconn.
LEMMA NetconnFreeOwn ==
    ASSUME TypeOK, AppInv, BacklogInv, PcbInv, FreeInv, NEW a \in Apps, NetconnFree(a)
    PROVE  AppInv' /\ BacklogInv' /\ PcbInv' /\ FreeInv'
<1>l. None \notin Conns /\ Listener \in Conns /\ Listener \notin Data /\ Data \subseteq Conns
  BY SelectAssumption, Zenon DEF Conns
<1>t. NetType /\ core \in CoreSet /\ AppType /\ EvType
  BY TypeParts, Zenon
<1> DEFINE c == app[a].c
<1>1. /\ app[a].pc = "netconn_free"
      /\ socket' = [socket EXCEPT ![c] = -1]
      /\ AppTo(a, "idle", None, 0)
      /\ UNCHANGED <<conn, pcb, mbox, backlog, ev, core, want>>
  BY Zenon DEF NetconnFree, At, callVars
<1>2. /\ c \in Data /\ c \in Conns /\ c # None /\ \A r \in Socks : conn[r] # c
      /\ \A b \in Apps : b # a => app[b].c # c
  BY <1>l, <1>1, ZenonT(30) DEF AppInv, AppOK
<1>3. /\ app'[a].pc = "idle" /\ app'[a].c = None
      /\ \A x \in Apps : x # a => app'[x] = app[x]
  BY <1>t, <1>1, AppMoves, ZeroIsInt, Zenon
<1>e. \A e : InTodo(e)' <=> InTodo(e)
  BY <1>1, Zenon DEF InTodo
<1>4. socket'[c] = -1 /\ \A x \in Conns : x # c => socket'[x] = socket[x]
  <2>1. \A v : [socket EXCEPT ![c] = v][c] = v
               /\ \A x \in Conns : x # c => [socket EXCEPT ![c] = v][x] = socket[x]
    BY <1>t, <1>2, Zenon DEF NetType
  <2> QED
    BY <1>1, <2>1, Zenon
<1>5. \A i \in 1 .. Len(backlog) : backlog[i] # c /\ backlog[i] # None /\ backlog[i] \in Conns
  BY <1>l, <1>t, SMTT(30) DEF BacklogInv, Unused, NetType
<1>6. UNCHANGED <<conn, pcb, mbox, backlog, ev, core, want>>
  BY <1>1, Zenon
<1> HIDE DEF c
<1>7. AppInv'
  <2>1. AppOK(a)'
    BY <1>3, Zenon DEF AppOK
  <2>2. ASSUME NEW b \in Apps, b # a PROVE AppOK(b)'
    <3>1. app[b].c # None => socket'[app[b].c] = socket[app[b].c]
      BY <1>t, <1>2, <1>4, <2>2, Zenon DEF AppType
    <3> QED
      BY <1>3, <1>6, <2>2, <3>1, OthersKeepOwn, Zenon
  <2> QED
    BY <2>1, <2>2, Zenon DEF AppInv
<1>8. BacklogInv'
  <2>1. Unused(Listener)' <=> Unused(Listener)
    BY <1>l, <1>2, <1>3, Zenon DEF Unused, c
  <2>2. \A i \in 1 .. Len(backlog) : \A b \in Apps : app'[b].c # backlog[i]
    BY <1>3, <1>5, Zenon DEF BacklogInv, Unused
  <2>3. \A i \in 1 .. Len(backlog) : socket'[backlog[i]] < 0
    BY <1>4, <1>5, Zenon DEF BacklogInv
  <2> QED
    BY <1>6, <2>1, <2>2, <2>3, Zenon DEF BacklogInv, Unused
<1>9. PcbInv'
  <2>1. \A x \in Data : Busy(x)' => Busy(x) /\ x # c
    BY <1>l, <1>2, <1>3, <1>5, <1>6, ZenonT(30) DEF Busy, Waits, Unused
  <2>2. \A x \in Conns : socket'[x] < NSock
    <3>1. -1 < NSock
      BY SelectAssumption
    <3> QED
      BY <1>4, <3>1, Zenon DEF PcbInv
  <2>3. \A d \in Conns : pcb'[d] /\ socket'[d] >= 0 => socket'[d] \in Socks /\ conn'[socket'[d]] = d
    <3> SUFFICES ASSUME NEW d \in Conns, pcb[d], socket'[d] >= 0
                 PROVE  socket'[d] \in Socks /\ conn[socket'[d]] = d
      BY <1>6, Zenon
    <3>1. ~(-1 >= 0)
      OBVIOUS
    <3>2. d # c /\ socket'[d] = socket[d]
      BY <1>4, <3>1, Zenon
    <3> QED
      BY <3>2, Zenon DEF PcbInv
  <2>4. \A d \in Data : ~pcb'[d] /\ Busy(d)' => socket'[d] # -1 \/ InTodo(<<d, "RCVPLUS">>)'
    BY <1>l, <1>e, <1>4, <1>6, <2>1, Zenon DEF PcbInv
  <2> QED
    BY <1>e, <1>6, <2>2, <2>3, <2>4, Zenon DEF PcbInv
<1>10. FreeInv'
  BY <1>6, Zenon DEF FreeInv
<1> QED
  BY <1>7, <1>8, <1>9, <1>10, Zenon

\* Every step keeps the netconns with their owners.
LEMMA OwnStep ==
    ASSUME TypeOK, OwnInv, [Next]_vars
    PROVE  OwnInv'
<1> USE DEF OwnInv
<1>1. CASE UNCHANGED vars
  <2>1. UNCHANGED <<conn, socket, pcb, mbox, backlog, ev, core, app, want>>
    BY <1>1, ZenonT(30) DEF vars, connVars, callVars
  <2>2. AppInv'
    BY <2>1, ZenonT(30) DEF AppInv, AppOK, InTodo
  <2>3. BacklogInv'
    BY <2>1, Zenon DEF BacklogInv, Unused
  <2>4. PcbInv'
    BY <2>1, Zenon DEF PcbInv, Unused, Busy, Waits, InTodo
  <2>5. FreeInv'
    BY <2>1, Zenon DEF FreeInv
  <2> QED
    BY <2>2, <2>3, <2>4, <2>5, Zenon
<1>2. CASE Stack
  <2>1. ASSUME NEW d \in Data, \/ AcceptFunction(d) \/ RecvTcp(d) \/ ErrTcp(d)
                               \/ \E evt \in Events : SentTcp(d, evt)
        PROVE  OwnInv'
    <3>1. "ERROR" \in Events
      BY Zenon DEF Events
    <3> QED
      BY <2>1, <3>1, AcceptOwn, CallbackOwn, Zenon
  <2> QED
    BY <1>2, <2>1, EventOwn, CheckOwn, Zenon DEF Stack
<1>3. ASSUME NEW a \in Apps, App(a) PROVE OwnInv'
  <2>1. ASSUME NEW c \in Conns, Fetch(a, c) PROVE OwnInv'
    BY <2>1, FetchOwn, Zenon
  <2>2. ASSUME NEW c \in Conns, Close(a, c) PROVE OwnInv'
    <3>1. c \in Data
      BY <2>2, Zenon DEF Close, Conns
    <3> QED
      BY <2>2, <3>1, DeleteOwn, Zenon
  <2>3. CASE NetconnDelete(a)
    <3>1. app[a].c \in Data
      BY <2>3, Zenon DEF NetconnDelete, At, AppInv, AppOK
    <3> QED
      BY <2>3, <3>1, DeleteOwn, Zenon
  <2>4. CASE Minus(a) \/ AllocSocket(a)
    BY <2>4, MinusOwn, AllocOwn, Zenon
  <2>5. CASE PeerGone(a) \/ FreeSocket(a)
    BY <2>5, FreeOwn, Zenon
  <2>6. CASE Assign(a) \/ Replay(a) \/ NetconnFree(a)
    BY <2>6, AssignOwn, ReplayOwn, NetconnFreeOwn, Zenon
  <2> QED
    BY <1>3, <2>1, <2>2, <2>3, <2>4, <2>5, <2>6, Zenon DEF App, AppStep
<1>4. CASE \E t \in Threads : Waiter(t)
  BY <1>4, WaiterOwn, Zenon
<1> QED
  BY <1>1, <1>2, <1>3, <1>4, Zenon DEF Next

\* The types and the owners are right when the listener has just been opened.
LEMMA OwnStarts ==
    ASSUME Init
    PROVE  TypeOK /\ OwnInv
<1>l. Listener \in Conns /\ None \notin Conns /\ Listener \notin Data
      /\ Data \subseteq Conns /\ NSock \in Nat \ {0}
  BY SelectAssumption, Zenon DEF Conns
<1>1. NetType /\ EvType /\ AppType
  <2>1. socket \in [Conns -> Int]
    BY DEF Init
  <2>2. backlog \in Seq(Data)
    BY DEF Init
  <2>3. ev \in [Socks -> [r : Int, w : BOOLEAN, e : BOOLEAN]]
    BY DEF Init
  <2>4. conn \in [Socks -> Conns \cup {None}] /\ mbox \in [Conns -> Nat]
        /\ pcb \in [Conns -> BOOLEAN] /\ failed \in [Conns -> BOOLEAN]
    BY <1>l, Zenon DEF Init
  <2>5. AppType
    BY DEF Init, AppType
  <2> QED
    BY <2>1, <2>2, <2>3, <2>4, <2>5, ZenonT(30) DEF NetType, EvType
<1>2. core \in CoreSet /\ core.todo = <<>> /\ core.check = None
  <2>1. <<>> \in Seq(Conns \X Events)
    BY SMTT(30)
  <2> QED
    BY <2>1, HoldingType, Zenon DEF Init
<1>3. WaitingType /\ CallType /\ CbType
  BY SelectAssumption DEF Init, WaitingType, CallType, CbType
<1>4. TypeOK
  BY <1>1, <1>2, <1>3, TypeParts, Zenon
<1>5. \A e : ~InTodo(e)
  BY <1>2, TodoEmpty, Zenon DEF LockFree
<1>6. \A c : c # None => Unused(c)
  BY Zenon DEF Init, Unused
<1>7. AppInv
  BY Zenon DEF Init, AppInv, AppOK
<1>8. BacklogInv
  BY <1>l, <1>6 DEF Init, BacklogInv
<1>9. PcbInv
  <2>1. 0 \in Socks
    BY <1>l DEF Socks
  <2>2. \A x \in Data : ~Busy(x)
    BY <1>l, <1>6 DEF Init, Busy, Waits
  <2>3. /\ \A r, s \in Socks : conn[r] = conn[s] /\ conn[r] # None => r = s
        /\ \A d \in Conns : pcb[d] /\ socket[d] >= 0 => socket[d] \in Socks /\ conn[socket[d]] = d
    BY <1>l, <2>1, Zenon DEF Init
  <2>4. \A d \in Conns : socket[d] < NSock
    BY <1>l DEF Init
  <2> QED
    BY <1>5, <2>2, <2>3, <2>4, Zenon DEF PcbInv
<1>10. FreeInv
  BY Zenon DEF Init, FreeInv, SocksOf
<1> QED
  BY <1>4, <1>7, <1>8, <1>9, <1>10, Zenon DEF OwnInv

\* The netconns and sockets have their owners, and all values their types,
\* whatever the threads do: netconn_accept() finds a netconn for every message
\* it takes, no socket is given to two netconns, and no netconn that somebody
\* still has is taken for a new connection.
THEOREM SocketsOwned == Spec => [](TypeOK /\ OwnInv)
<1>1. Init => TypeOK /\ OwnInv
  BY OwnStarts, Zenon
<1>2. (TypeOK /\ OwnInv) /\ [Next]_vars => (TypeOK /\ OwnInv)'
  BY TypeStep, OwnStep, Zenon
<1> HIDE DEF OwnInv, TypeOK
<1> QED
  BY <1>1, <1>2, PTL DEF Spec

-----------------------------------------------------------------------------
(* lwip_select() and lwip_poll().                                          *)

\* select_waiting does not overflow in lwip_poll(), which then takes back what
\* it has not counted: nobody calls it, or there are too few threads.
NoPollOverflow == Polls = {} \/ Cardinality(Threads) < SelWaitMod

\* Which sockets a thread has counted itself in, at each step of a call.
CountOK(t) ==
    /\ t \in linked <=> pc[t] \in {"inc", "scan2", "wait", "dec"}
    /\ t \notin linked => counted[t] = {} /\ ~signalled[t] /\ sem[t] = 0
    /\ pc[t] = "inc" => counted[t] = SocksOf(want[t]) \ left[t] /\ left[t] \subseteq SocksOf(want[t])
    /\ pc[t] \in {"scan2", "wait"} => counted[t] = SocksOf(want[t])
    /\ pc[t] = "wait" => left[t] = SocksOf(want[t]) /\ ~nready[t]
    /\ pc[t] = "dec" => left[t] = counted[t]
    /\ signalled[t] /\ pc[t] # "dec" => sem[t] > 0

CountInv == \A t \in Threads : CountOK(t)

\* The sockets that a thread has looked at since it announced itself there.
Looked(t) ==
    CASE pc[t] = "inc" -> IF t \in Polls THEN counted[t] ELSE {}
      [] pc[t] = "scan2" -> SocksOf(want[t]) \ left[t]
      [] pc[t] = "wait" -> SocksOf(want[t])
      [] OTHER -> {}

\* The strengthening of NoLostWakeup, from the look at a socket on.
WakeOK(t) ==
    \A p \in want[t] : p[1] \in Looked(t) /\ p[2] \in Ready(ev[p[1]])
                       => nready[t] \/ sem[t] > 0 \/ CheckComes(t)

WakeInv == \A t \in Threads : WakeOK(t)

-----------------------------------------------------------------------------
(* select_waiting.                                                         *)

\* Nothing happens to the call of a thread.
Still(u) ==
    /\ pc'[u] = pc[u] /\ want'[u] = want[u] /\ left'[u] = left[u] /\ counted'[u] = counted[u]
    /\ nready'[u] = nready[u] /\ signalled'[u] = signalled[u] /\ sem'[u] = sem[u]
    /\ u \in linked' <=> u \in linked

\* Then its count is what it was.
LEMMA StillCounts ==
    ASSUME NEW u \in Threads, CountOK(u), Still(u)
    PROVE  CountOK(u)'
  BY Zenon DEF CountOK, Still

\* A step of a call happens to that call only.
LEMMA OthersStill ==
    ASSUME TypeOK, NEW t \in Threads, Waiter(t), NEW u \in Threads, u # t
    PROVE  Still(u)
<1>t. CallType /\ CbType
  BY TypeParts, Zenon
<1> USE <1>t DEF Still, CallType, CbType, cbVars
<1>r. Return(t) => /\ pc'[u] = pc[u] /\ want'[u] = want[u] /\ left'[u] = left[u]
                   /\ nready'[u] = nready[u]
  BY Zenon DEF Return
<1>1. CASE Call(t)
  BY <1>1, Zenon DEF Call, Goto
<1>2. CASE Scan(t)
  BY <1>2, Zenon DEF Scan
<1>3. CASE Scanned1(t)
  BY <1>3, <1>r, Zenon DEF Scanned1, Goto
<1>4. CASE SemNewFails(t)
  BY <1>4, <1>r, Zenon DEF SemNewFails
<1>5. CASE Link(t)
  BY <1>5, Zenon DEF Link, Goto
<1>6. CASE IncWaiting(t)
  BY <1>6, Zenon DEF IncWaiting
<1>7. CASE WaitingFull(t)
  BY <1>7, Zenon DEF WaitingFull, Goto
<1>8. CASE Counted(t)
  BY <1>8, Zenon DEF Counted, Goto
<1>9. CASE Scanned2(t)
  BY <1>9, Zenon DEF Scanned2, Goto
<1>10. CASE Wake(t)
  BY <1>10, Zenon DEF Wake, Goto
<1>11. CASE TimeOut(t)
  BY <1>11, Zenon DEF TimeOut, Goto
<1>12. CASE DecWaiting(t)
  BY <1>12, Zenon DEF DecWaiting
<1>13. CASE Unlink(t)
  BY <1>13, <1>r, ZenonT(30) DEF Unlink, Goto
<1>14. CASE Scanned3(t)
  BY <1>14, <1>r, Zenon DEF Scanned3
<1> QED
  BY <1>1, <1>2, <1>3, <1>4, <1>5, <1>6, <1>7, <1>8, <1>9, <1>10, <1>11, <1>12, <1>13,
     <1>14, ZenonT(30)
     DEF Waiter, WaiterStep

\* The threads that have counted themselves in on a socket.
Counters(s) == {t \in Threads : s \in counted[t]}

\* They are finitely many.
LEMMA CountersFinite ==
    ASSUME NEW s
    PROVE  IsFiniteSet(Counters(s)) /\ Cardinality(Counters(s)) \in Nat
  BY SelectAssumption, FS_Subset, FS_CardinalityType, Zenon DEF Counters

\* When one more thread announces itself there is one more.
LEMMA CountersInc ==
    ASSUME NEW s, NEW t \in Threads, s \notin counted[t],
           counted \in [Threads -> SUBSET Socks],
           counted' = [counted EXCEPT ![t] = @ \cup {s}]
    PROVE  /\ Cardinality(Counters(s)') = Cardinality(Counters(s)) + 1
           /\ \A r : r # s => Counters(r)' = Counters(r)
<1>1. Counters(s)' = Counters(s) \cup {t} /\ t \notin Counters(s)
  BY Zenon DEF Counters
<1>2. Cardinality(Counters(s) \cup {t}) = Cardinality(Counters(s)) + 1
  BY <1>1, CountersFinite, FS_AddElement, Zenon
<1>3. \A r : r # s => Counters(r)' = Counters(r)
  BY Zenon DEF Counters
<1> QED
  BY <1>1, <1>2, <1>3, Zenon

\* When a thread takes its announcement back there is one less.
LEMMA CountersDec ==
    ASSUME NEW s, NEW t \in Threads, s \in counted[t],
           counted \in [Threads -> SUBSET Socks],
           counted' = [counted EXCEPT ![t] = @ \ {s}]
    PROVE  /\ Cardinality(Counters(s)') = Cardinality(Counters(s)) - 1
           /\ Cardinality(Counters(s)) > 0
           /\ \A r : r # s => Counters(r)' = Counters(r)
<1>1. Counters(s)' = Counters(s) \ {t} /\ t \in Counters(s)
  BY Zenon DEF Counters
<1>2. Cardinality(Counters(s) \ {t}) = Cardinality(Counters(s)) - 1
  BY <1>1, CountersFinite, FS_RemoveElement, Zenon
<1>3. IsFiniteSet(Counters(s) \ {t})
  BY CountersFinite, FS_RemoveElement, Zenon
<1>4. Cardinality(Counters(s) \ {t}) \in Nat
  BY <1>3, FS_CardinalityType, Zenon
<1>5. \A r : r # s => Counters(r)' = Counters(r)
  BY Zenon DEF Counters
<1>6. Cardinality(Counters(s)) > 0
  BY <1>2, <1>4, CountersFinite
<1> QED
  BY <1>1, <1>2, <1>5, <1>6, Zenon

\* select_waiting of a socket counts fewer threads than there are.
LEMMA PollRoom ==
    ASSUME NoPollOverflow, TypeOK, WaitingAccounted,
           NEW t \in Polls, NEW s \in Socks, s \notin counted[t]
    PROVE  waiting[s] # SelWaitMod - 1
<1>1. t \in Threads /\ IsFiniteSet(Threads) /\ SelWaitMod \in Nat
  BY SelectAssumption, Zenon
<1>2. Cardinality(Threads) < SelWaitMod /\ Cardinality(Threads) \in Nat
  BY <1>1, FS_CardinalityType, Zenon DEF NoPollOverflow
<1>3. Counters(s) \subseteq Threads \ {t}
  BY Zenon DEF Counters
<1>4. IsFiniteSet(Threads \ {t}) /\ Cardinality(Threads \ {t}) = Cardinality(Threads) - 1
  BY <1>1, FS_RemoveElement, Zenon
<1>5. Cardinality(Counters(s)) <= Cardinality(Threads \ {t})
  BY <1>3, <1>4, FS_Subset, Zenon
<1>6. waiting[s] = Cardinality(Counters(s))
  BY Zenon DEF WaitingAccounted, Counters
<1> QED
  BY <1>1, <1>2, <1>4, <1>5, <1>6, CountersFinite

\* A step of a call keeps its own count, and select_waiting with it.
LEMMA WaiterCounts ==
    ASSUME NoPollOverflow, TypeOK, CountInv, WaitingAccounted, NEW t \in Threads, Waiter(t)
    PROVE  CountOK(t)' /\ WaitingAccounted'
<1>t. CallType /\ CbType /\ WaitingType
  BY TypeParts, Zenon
<1>p. pc \in [Threads -> {"idle", "scan1", "link", "inc", "scan2", "wait", "dec", "scan3"}]
      /\ want \in [Threads -> SUBSET (Socks \X Kinds)]
      /\ left \in [Threads -> SUBSET Socks] /\ counted \in [Threads -> SUBSET Socks]
      /\ nready \in [Threads -> BOOLEAN] /\ signalled \in [Threads -> BOOLEAN]
      /\ sem \in [Threads -> Nat]
  BY <1>t, Zenon DEF CallType, CbType
<1>c. CountOK(t)
  BY Zenon DEF CountInv
<1>u. UNCHANGED <<waiting, counted>> => WaitingAccounted'
  BY Zenon DEF WaitingAccounted
<1>r. ASSUME Return(t), pc[t] \in {"scan1", "link", "scan3"}, UNCHANGED <<linked, counted, cbVars>>
      PROVE  CountOK(t)'
  BY <1>c, <1>p, <1>r, Zenon DEF Return, CountOK, cbVars
<1>1. CASE Call(t)
  BY <1>1, <1>c, <1>p, <1>u, Zenon DEF Call, Goto, CountOK, cbVars
<1>2. CASE Scan(t)
  BY <1>2, <1>c, <1>p, <1>u, Zenon DEF Scan, CountOK, cbVars
<1>3. CASE Scanned1(t)
  <2>1. WaitingAccounted'
    BY <1>3, <1>u, Zenon DEF Scanned1
  <2>2. CASE Return(t)
    BY <1>3, <1>r, <2>1, <2>2, Zenon DEF Scanned1
  <2>3. CASE ~Return(t)
    BY <1>3, <1>c, <1>p, <2>1, <2>3, Zenon DEF Scanned1, Goto, CountOK, cbVars
  <2> QED
    BY <2>2, <2>3, Zenon
<1>4. CASE SemNewFails(t)
  BY <1>4, <1>r, <1>u, Zenon DEF SemNewFails
<1>5. CASE Link(t)
  BY <1>5, <1>c, <1>p, <1>u, Zenon DEF Link, Goto, CountOK, cbVars
<1>6. CASE IncWaiting(t)
  <2>1. PICK s \in Socks : s = First(left[t]) /\ s \in left[t]
    BY <1>6, <1>p, FirstIn, Zenon DEF IncWaiting
  <2>2. /\ pc[t] = "inc"
        /\ waiting' = [waiting EXCEPT ![s] = @ + 1]
        /\ counted' = [counted EXCEPT ![t] = @ \cup {s}]
        /\ left' = [left EXCEPT ![t] = @ \ {s}]
        /\ UNCHANGED <<linked, pc, want, cbVars>>
    BY <1>6, <2>1, Zenon DEF IncWaiting
  <2>3. s \notin counted[t] /\ left[t] \subseteq SocksOf(want[t])
        /\ counted[t] = SocksOf(want[t]) \ left[t]
    BY <1>c, <2>1, <2>2, Zenon DEF CountOK
  <2>4. WaitingAccounted'
    <3>1. /\ Cardinality(Counters(s)') = Cardinality(Counters(s)) + 1
          /\ \A r : r # s => Counters(r)' = Counters(r)
      BY <1>p, <2>2, <2>3, CountersInc, Zenon
    <3>2. waiting'[s] = waiting[s] + 1 /\ \A r \in Socks : r # s => waiting'[r] = waiting[r]
      BY <1>t, <2>1, <2>2, Zenon DEF WaitingType
    <3>3. \A r \in Socks : waiting[r] = Cardinality(Counters(r))
      BY Zenon DEF WaitingAccounted, Counters
    <3>4. \A r \in Socks : waiting'[r] = Cardinality(Counters(r)')
      BY <2>1, <3>1, <3>2, <3>3, Zenon
    <3> QED
      BY <3>4, Zenon DEF WaitingAccounted, Counters
  <2>5. counted'[t] = SocksOf(want'[t]) \ left'[t] /\ left'[t] \subseteq SocksOf(want'[t])
    BY <1>p, <2>1, <2>2, <2>3, Zenon
  <2>6. CountOK(t)'
    BY <1>c, <1>p, <2>2, <2>5, Zenon DEF CountOK, cbVars
  <2> QED
    BY <2>4, <2>6, Zenon
<1>7. CASE WaitingFull(t)
  <2>1. t \notin Polls
    <3>1. SUFFICES ASSUME t \in Polls PROVE FALSE
      BY Zenon
    <3> DEFINE s == First(left[t])
    <3>2. s \in left[t] /\ s \in Socks
      BY <1>7, <1>p, FirstIn, Zenon DEF WaitingFull
    <3>3. (waiting[s] + 1) % SelWaitMod = 0 /\ pc[t] = "inc"
      BY <1>7, Zenon DEF WaitingFull, Goto
    <3> HIDE DEF s
    <3>4. waiting[s] = SelWaitMod - 1
      BY <1>t, <3>2, <3>3, WaitingRoom, Zenon DEF WaitingType
    <3>5. s \notin counted[t]
      BY <1>c, <3>2, <3>3, Zenon DEF CountOK
    <3> QED
      BY <3>1, <3>2, <3>4, <3>5, PollRoom, Zenon
  <2> QED
    BY <1>7, <1>c, <1>p, <1>u, <2>1, Zenon DEF WaitingFull, Goto, CountOK, cbVars
<1>8. CASE Counted(t)
  BY <1>8, <1>c, <1>p, <1>u, Zenon DEF Counted, Goto, CountOK, cbVars
<1>9. CASE Scanned2(t)
  BY <1>9, <1>c, <1>p, <1>u, Zenon DEF Scanned2, Goto, CountOK, cbVars
<1>10. CASE Wake(t)
  BY <1>10, <1>c, <1>p, <1>u, Zenon DEF Wake, Goto, CountOK
<1>11. CASE TimeOut(t)
  BY <1>11, <1>c, <1>p, <1>u, Zenon DEF TimeOut, Goto, CountOK, cbVars
<1>12. CASE DecWaiting(t)
  <2>1. PICK s \in Socks : s = First(left[t]) /\ s \in left[t]
    BY <1>12, <1>p, FirstIn, Zenon DEF DecWaiting
  <2>2. /\ pc[t] = "dec"
        /\ waiting' = [waiting EXCEPT ![s] = IF @ > 0 THEN @ - 1 ELSE @]
        /\ counted' = [counted EXCEPT ![t] = @ \ {s}]
        /\ left' = [left EXCEPT ![t] = @ \ {s}]
        /\ UNCHANGED <<linked, pc, want, cbVars>>
    BY <1>12, <2>1, Zenon DEF DecWaiting
  <2>3. s \in counted[t] /\ left[t] = counted[t]
    BY <1>c, <2>1, <2>2, Zenon DEF CountOK
  <2>4. WaitingAccounted'
    <3>1. /\ Cardinality(Counters(s)') = Cardinality(Counters(s)) - 1
          /\ Cardinality(Counters(s)) > 0
          /\ \A r : r # s => Counters(r)' = Counters(r)
      BY <1>p, <2>2, <2>3, CountersDec, Zenon
    <3>3. \A r \in Socks : waiting[r] = Cardinality(Counters(r))
      BY Zenon DEF WaitingAccounted, Counters
    <3>2. waiting'[s] = waiting[s] - 1 /\ \A r \in Socks : r # s => waiting'[r] = waiting[r]
      BY <1>t, <2>1, <2>2, <3>1, <3>3, Zenon DEF WaitingType
    <3>4. \A r \in Socks : waiting'[r] = Cardinality(Counters(r)')
      BY <2>1, <3>1, <3>2, <3>3, Zenon
    <3> QED
      BY <3>4, Zenon DEF WaitingAccounted, Counters
  <2>5. left'[t] = counted'[t]
    BY <1>p, <2>2, <2>3, Zenon
  <2>6. CountOK(t)'
    BY <1>c, <1>p, <2>2, <2>5, Zenon DEF CountOK, cbVars
  <2> QED
    BY <2>4, <2>6, Zenon
<1>13. CASE Unlink(t)
  <2>1. WaitingAccounted'
    BY <1>13, <1>u, Zenon DEF Unlink
  <2>2. /\ pc[t] = "dec" /\ left[t] = {} /\ linked' = linked \ {t} /\ UNCHANGED counted
        /\ signalled' = [signalled EXCEPT ![t] = FALSE] /\ sem' = [sem EXCEPT ![t] = 0]
    BY <1>13, Zenon DEF Unlink
  <2>3. pc'[t] \in {"idle", "scan3"}
    BY <1>13, <1>p, Zenon DEF Unlink, Goto, Return
  <2>4. t \notin linked' /\ counted'[t] = {} /\ ~signalled'[t] /\ sem'[t] = 0
    BY <1>c, <1>p, <2>2, Zenon DEF CountOK
  <2>5. CountOK(t)'
    BY <2>3, <2>4, Zenon DEF CountOK
  <2> QED
    BY <2>1, <2>5, Zenon
<1>14. CASE Scanned3(t)
  BY <1>14, <1>r, <1>u, Zenon DEF Scanned3
<1> QED
  BY <1>1, <1>2, <1>3, <1>4, <1>5, <1>6, <1>7, <1>8, <1>9, <1>10, <1>11, <1>12, <1>13,
     <1>14, ZenonT(30)
     DEF Waiter, WaiterStep

\* What happens to the calls in a step of the stack or of an application.
LEMMA OtherSteps ==
    ASSUME Stack \/ \E a \in Apps : App(a)
    PROVE  \/ SelectCheckWaiters
           \/ UNCHANGED <<linked, waiting, callVars, cbVars>>
<1>1. CASE Stack
  BY <1>1, Zenon DEF Stack, AcceptFunction, RecvTcp, ErrTcp, SentTcp, EventCallback
<1>2. ASSUME NEW a \in Apps, App(a) PROVE UNCHANGED <<linked, waiting, callVars, cbVars>>
  BY <1>2, Zenon DEF App, AppStep, Minus, AllocSocket, PeerGone, Assign, Replay, FreeSocket,
              NetconnDelete, NetconnFree, Fetch, Close
<1> QED
  BY <1>1, <1>2, Zenon

\* select_check_waiters() signals who is on the list and asked for the event.
LEMMA CheckEffect ==
    ASSUME TypeOK, SelectCheckWaiters
    PROVE  /\ UNCHANGED <<linked, waiting, callVars, ev>>
           /\ \A t \in Threads :
                 /\ CheckComes(t) => signalled'[t] /\ sem'[t] = sem[t] + 1
                 /\ ~CheckComes(t) => signalled'[t] = signalled[t] /\ sem'[t] = sem[t]
<1>t. CbType
  BY TypeParts, Zenon
<1> DEFINE hit == {t \in linked : /\ ~signalled[t]
                                  /\ \E k \in core.check.has : <<core.check.s, k>> \in want[t]}
<1>1. /\ core.check # None
      /\ signalled' = [t \in Threads |-> signalled[t] \/ t \in hit]
      /\ sem' = [t \in Threads |-> IF t \in hit THEN sem[t] + 1 ELSE sem[t]]
      /\ UNCHANGED <<linked, waiting, callVars, ev>>
  BY Zenon DEF SelectCheckWaiters
<1>2. \A t \in Threads : t \in hit <=> CheckComes(t)
  BY <1>1, Zenon DEF CheckComes
<1> HIDE DEF hit
<1> QED
  BY <1>t, <1>1, <1>2, Zenon DEF CbType

\* Every step keeps the counts.
LEMMA CountStep ==
    ASSUME NoPollOverflow, TypeOK, CountInv, WaitingAccounted, [Next]_vars
    PROVE  CountInv' /\ WaitingAccounted'
<1>t. CallType /\ CbType
  BY TypeParts, Zenon
<1>1. CASE UNCHANGED <<linked, waiting, callVars, cbVars>>
  <2>1. \A u \in Threads : Still(u)
    BY <1>1, Zenon DEF Still, callVars, cbVars
  <2>2. CountInv'
    BY <2>1, StillCounts, Zenon DEF CountInv
  <2>3. WaitingAccounted'
    BY <1>1, Zenon DEF WaitingAccounted, callVars
  <2> QED
    BY <2>2, <2>3, Zenon
<1>2. CASE SelectCheckWaiters
  <2>1. WaitingAccounted'
    BY <1>2, CheckEffect, Zenon DEF WaitingAccounted, callVars
  <2>2. ASSUME NEW t \in Threads PROVE CountOK(t)'
    <3>1. CountOK(t) /\ sem[t] \in Nat
      BY <1>t, Zenon DEF CountInv, CbType
    <3>2. UNCHANGED <<linked, pc, want, left, counted, nready>>
      BY <1>2, CheckEffect, Zenon DEF callVars
    <3>3. CASE CheckComes(t)
      <4>1. t \in linked /\ sem'[t] = sem[t] + 1
        BY <1>2, <3>3, CheckEffect, Zenon DEF CheckComes
      <4> QED
        BY <3>1, <3>2, <4>1 DEF CountOK
    <3>4. CASE ~CheckComes(t)
      <4>1. signalled'[t] = signalled[t] /\ sem'[t] = sem[t]
        BY <1>2, <3>4, CheckEffect, Zenon
      <4>2. Still(t)
        BY <3>2, <4>1, Zenon DEF Still
      <4> QED
        BY <3>1, <4>2, StillCounts, Zenon
    <3> QED
      BY <3>3, <3>4, Zenon
  <2> QED
    BY <2>1, <2>2, Zenon DEF CountInv
<1>3. ASSUME NEW t \in Threads, Waiter(t) PROVE CountInv' /\ WaitingAccounted'
  <2>1. CountOK(t)' /\ WaitingAccounted'
    BY <1>3, WaiterCounts, Zenon
  <2>2. \A u \in Threads : u # t => CountOK(u)'
    BY <1>3, OthersStill, StillCounts, Zenon DEF CountInv
  <2> QED
    BY <2>1, <2>2, Zenon DEF CountInv
<1>4. CASE UNCHANGED vars
  BY <1>1, <1>4, Zenon DEF vars
<1> QED
  BY <1>1, <1>2, <1>3, <1>4, OtherSteps, Zenon DEF Next

-----------------------------------------------------------------------------
(* Wake-ups.                                                               *)

\* What a thread has looked at it has announced itself on.
LEMMA LookedCounted ==
    ASSUME NEW t \in Threads, CountOK(t)
    PROVE  /\ Looked(t) \subseteq counted[t]
           /\ Looked(t) # {} => pc[t] \in {"inc", "scan2", "wait"}
  BY Zenon DEF Looked, CountOK

\* A look at one more socket notes what it finds there.
LEMMA LookFinds ==
    ASSUME TypeOK, NEW t \in Threads, NEW s \in Socks, WakeOK(t),
           UNCHANGED <<ev, core, want, linked, cbVars>>,
           nready'[t] <=> Found(t, s),
           Looked(t)' \subseteq Looked(t) \cup {s}
    PROVE  WakeOK(t)'
<1>t. want \in [Threads -> SUBSET (Socks \X Kinds)]
  BY Zenon DEF TypeOK
<1>1. ASSUME NEW p \in want[t], p[1] \in Looked(t)', p[2] \in Ready(ev[p[1]])
      PROVE  nready'[t] \/ sem[t] > 0 \/ CheckComes(t)
  <2>1. p = <<p[1], p[2]>>
    BY <1>t
  <2>2. CASE p[1] = s
    <3>1. <<s, p[2]>> \in want[t] /\ p[2] \in Ready(ev[s])
      BY <1>1, <2>1, <2>2, Zenon
    <3> QED
      BY <3>1, Zenon DEF Found
  <2>3. CASE p[1] \in Looked(t)
    <3>1. nready[t] \/ sem[t] > 0 \/ CheckComes(t)
      BY <1>1, <2>3, Zenon DEF WakeOK
    <3> QED
      BY <3>1, Zenon DEF Found
  <2> QED
    BY <1>1, <2>2, <2>3, Zenon
<1> QED
  BY <1>1, Zenon DEF WakeOK, CheckComes, cbVars

\* Nothing new was looked at, and nothing became ready.
LEMMA LookStays ==
    ASSUME NEW t \in Threads, WakeOK(t),
           UNCHANGED <<ev, core>>,
           want'[t] = want[t] /\ sem'[t] = sem[t] /\ signalled'[t] = signalled[t],
           t \in linked' <=> t \in linked,
           nready'[t] = nready[t],
           Looked(t)' \subseteq Looked(t)
    PROVE  WakeOK(t)'
<1>1. CheckComes(t)' <=> CheckComes(t)
  BY Zenon DEF CheckComes
<1> QED
  BY <1>1, Zenon DEF WakeOK

\* A step of a call overlooks nothing on its sockets.
LEMMA WaiterWakes ==
    ASSUME TypeOK, CountInv, NEW t \in Threads, WakeOK(t), Waiter(t)
    PROVE  WakeOK(t)'
<1>t. CallType /\ CbType
  BY TypeParts, Zenon
<1>p. pc \in [Threads -> {"idle", "scan1", "link", "inc", "scan2", "wait", "dec", "scan3"}]
      /\ want \in [Threads -> SUBSET (Socks \X Kinds)]
      /\ left \in [Threads -> SUBSET Socks] /\ counted \in [Threads -> SUBSET Socks]
      /\ nready \in [Threads -> BOOLEAN]
  BY <1>t, Zenon DEF CallType
<1>c. CountOK(t)
  BY Zenon DEF CountInv
<1>o. UNCHANGED <<ev, core>>
  BY Zenon DEF Waiter, WaiterStep, Scan, Scanned1, Link, IncWaiting, WaitingFull,
     Counted, Scanned2,
         Wake, DecWaiting, Unlink, Scanned3, Call, SemNewFails, TimeOut, outVars
<1>e. Looked(t)' = {} => WakeOK(t)'
  BY Zenon DEF WakeOK
<1>n. pc'[t] \notin {"inc", "scan2", "wait"} => WakeOK(t)'
  <2>1. pc'[t] \notin {"inc", "scan2", "wait"} => Looked(t)' = {}
    BY Zenon DEF Looked
  <2> QED
    BY <1>e, <2>1, Zenon
<1>r. Return(t) => WakeOK(t)'
  BY <1>n, <1>p, Zenon DEF Return
<1>1. CASE Call(t) \/ SemNewFails(t) \/ WaitingFull(t) \/ Wake(t) \/ TimeOut(t)
  BY <1>1, <1>n, <1>p, <1>r, Zenon DEF Call, SemNewFails, WaitingFull, Wake, TimeOut, Goto
<1>2. CASE Scanned1(t) \/ Unlink(t) \/ Scanned3(t) \/ DecWaiting(t)
  BY <1>2, <1>n, <1>p, <1>r, Zenon DEF Scanned1, Unlink, Scanned3, DecWaiting, Goto
<1>3. CASE Link(t)
  <2>1. pc'[t] = "inc" /\ counted'[t] = {}
    BY <1>3, <1>c, <1>p, Zenon DEF Link, Goto, CountOK
  <2>2. Looked(t)' = {}
    BY <2>1, Zenon DEF Looked
  <2> QED
    BY <1>e, <2>2, Zenon
<1>4. CASE Scan(t)
  <2>1. CASE pc[t] # "scan2"
    BY <1>4, <1>n, <2>1, Zenon DEF Scan
  <2>2. CASE pc[t] = "scan2"
    <3>1. PICK s \in Socks : s = First(left[t])
      BY <1>4, <1>p, FirstIn, Zenon DEF Scan
    <3>2. /\ nready' = [nready EXCEPT ![t] = Found(t, s)]
          /\ left' = [left EXCEPT ![t] = @ \ {s}]
          /\ UNCHANGED <<linked, pc, want, counted, cbVars>>
      BY <1>4, <3>1, Zenon DEF Scan
    <3>3. nready'[t] <=> Found(t, s)
      BY <1>p, <3>2, Zenon
    <3>4. Looked(t)' \subseteq Looked(t) \cup {s}
      <4>1. Looked(t) = SocksOf(want[t]) \ left[t]
        BY <2>2, Zenon DEF Looked
      <4>2. Looked(t)' = SocksOf(want[t]) \ (left[t] \ {s})
        BY <1>p, <2>2, <3>2, Zenon DEF Looked
      <4> QED
        BY <4>1, <4>2, Zenon
    <3> QED
      BY <1>o, <3>2, <3>3, <3>4, LookFinds, Zenon
  <2> QED
    BY <2>1, <2>2, Zenon
<1>5. CASE IncWaiting(t)
  <2>1. CASE t \notin Polls
    <3>1. pc'[t] = "inc"
      BY <1>5, Zenon DEF IncWaiting
    <3>2. Looked(t)' = {}
      BY <2>1, <3>1, Zenon DEF Looked
    <3> QED
      BY <1>e, <3>2, Zenon
  <2>2. CASE t \in Polls
    <3>1. PICK s \in Socks : s = First(left[t])
      BY <1>5, <1>p, FirstIn, Zenon DEF IncWaiting
    <3>2. /\ nready' = [nready EXCEPT ![t] = Found(t, s)]
          /\ counted' = [counted EXCEPT ![t] = @ \cup {s}]
          /\ UNCHANGED <<linked, pc, want, cbVars>> /\ pc[t] = "inc"
      BY <1>5, <2>2, <3>1, Zenon DEF IncWaiting
    <3>3. nready'[t] <=> Found(t, s)
      BY <1>p, <3>2, Zenon
    <3>4. Looked(t)' \subseteq Looked(t) \cup {s}
      BY <1>p, <2>2, <3>2, Zenon DEF Looked
    <3> QED
      BY <1>o, <3>2, <3>3, <3>4, LookFinds, Zenon
  <2> QED
    BY <2>1, <2>2, Zenon
<1>6. CASE Counted(t)
  <2>1. /\ left[t] = {} /\ pc[t] = "inc" /\ pc'[t] = "scan2"
        /\ left'[t] = IF t \in Polls THEN {} ELSE SocksOf(want[t])
        /\ UNCHANGED <<linked, want, counted, nready, cbVars>>
    BY <1>6, <1>p, Zenon DEF Counted, Goto
  <2>2. Looked(t)' \subseteq Looked(t)
    <3>1. counted[t] = SocksOf(want[t])
      BY <1>c, <2>1, Zenon DEF CountOK
    <3> QED
      BY <2>1, <3>1, Zenon DEF Looked
  <2> QED
    BY <1>o, <2>1, <2>2, LookStays, Zenon DEF cbVars
<1>7. CASE Scanned2(t)
  <2>1. /\ left[t] = {} /\ pc[t] = "scan2" /\ pc'[t] \in {"dec", "wait"}
        /\ UNCHANGED <<linked, want, counted, nready, cbVars>>
    BY <1>7, <1>p, Zenon DEF Scanned2, Goto
  <2>2. Looked(t)' \subseteq Looked(t)
    BY <2>1, Zenon DEF Looked
  <2> QED
    BY <1>o, <2>1, <2>2, LookStays, Zenon DEF cbVars
<1> QED
  BY <1>1, <1>2, <1>3, <1>4, <1>5, <1>6, <1>7, Zenon DEF Waiter, WaiterStep

\* check_waiters of event_callback() misses nothing that became ready.
LEMMA CheckWaitersComplete ==
    ASSUME NEW e \in [r : Int, w : BOOLEAN, e : BOOLEAN], NEW evt \in Events, NEW k,
           k \in Ready(Apply(e, evt)), k \notin Ready(e)
    PROVE  CheckWaiters(e, evt)
<1>1. /\ k \in Kinds
      /\ \/ k = "r" /\ Apply(e, evt).r > 0
         \/ k = "w" /\ Apply(e, evt).w
         \/ k = "e" /\ Apply(e, evt).e
      /\ ~(k = "r" /\ e.r > 0) /\ ~(k = "w" /\ e.w) /\ ~(k = "e" /\ e.e)
  BY Zenon DEF Ready
<1>2. CASE k = "r"
  <2>1. /\ Apply(e, evt).r = e.r + (IF evt = "RCVPLUS" THEN 1
                                    ELSE IF evt = "RCVMINUS" THEN -1 ELSE 0)
        /\ e.r \in Int
    BY Zenon DEF Apply
  <2>2. ~(e.r > 0) /\ Apply(e, evt).r > 0
    BY <1>1, <1>2, Zenon
  <2>3. evt = "RCVPLUS" /\ e.r + 1 <= 1
    BY <2>1, <2>2
  <2> QED
    BY <2>3, Zenon DEF CheckWaiters
<1>3. CASE k = "w"
  BY <1>1, <1>3, ApplyW, Zenon DEF CheckWaiters
<1>4. CASE k = "e"
  <2>1. Apply(e, evt).e <=> e.e \/ evt = "ERROR"
    BY Zenon DEF Apply
  <2> QED
    BY <1>1, <1>4, <2>1, Zenon DEF CheckWaiters
<1> QED
  BY <1>1, <1>2, <1>3, <1>4, Zenon

\* event_callback(): an announced thread is checked for when its event comes.
LEMMA EventWakes ==
    ASSUME TypeOK, PcbInv, CountInv, WaitingAccounted, WakeInv, EventCallback,
           NEW t \in Threads
    PROVE  WakeOK(t)'
<1>t. NetType /\ EvType /\ core \in CoreSet /\ CallType /\ CbType
  BY TypeParts, Zenon
<1> DEFINE c == Head(core.todo)[1]
           evt == Head(core.todo)[2]
           s == socket[c]
           chk == [s |-> s, has |-> Ready(Apply(ev[s], evt))]
<1>1. /\ c \in Conns /\ evt \in Events
      /\ core.check = None
      /\ \A r \in Socks : r # s \/ conn[r] = None => ev'[r] = ev[r]
      /\ s \in Socks /\ conn[s] # None => ev'[s] = Apply(ev[s], evt)
      /\ UNCHANGED <<linked, callVars, cbVars, waiting>>
  BY CallbackEffect, Zenon
<1>2. s >= 0 /\ conn[s] # None /\ waiting[s] # 0 /\ CheckWaiters(ev[s], evt)
      => core' = Held(core.by, Tail(core.todo), chk)
  <2>1. SUFFICES ASSUME s >= 0, conn[s] # None, waiting[s] # 0, CheckWaiters(ev[s], evt)
                 PROVE  core' = Held(core.by, Tail(core.todo), chk)
    BY Zenon
  <2>2. s \in Int
    BY <1>t, <1>1, Zenon DEF NetType
  <2>3. ~(s < 0)
    BY <2>1, <2>2
  <2> QED
    BY <2>1, <2>3, ZenonT(30) DEF EventCallback
<1> HIDE DEF c, evt
<1>3. CountOK(t) /\ WakeOK(t)
  BY Zenon DEF CountInv, WakeInv
<1>4. UNCHANGED <<linked, pc, want, left, counted, nready, signalled, sem>>
  BY <1>1, Zenon DEF callVars, cbVars
<1>5. Looked(t)' = Looked(t)
  BY <1>4, Zenon DEF Looked
<1>6. ASSUME NEW p \in want[t], p[1] \in Looked(t), p[2] \in Ready(ev'[p[1]])
      PROVE  nready[t] \/ sem[t] > 0 \/ CheckComes(t)'
  <2>1. p[1] \in Socks /\ p = <<p[1], p[2]>>
    BY <1>t DEF CallType
  <2>2. CASE p[2] \in Ready(ev[p[1]])
    BY <1>1, <1>3, <1>6, <2>2, Zenon DEF WakeOK, CheckComes
  <2>3. CASE p[2] \notin Ready(ev[p[1]])
    <3>1. p[1] = s /\ conn[s] # None /\ ev'[s] = Apply(ev[s], evt) /\ s \in Socks
      BY <1>1, <1>6, <2>1, <2>3, Zenon
    <3>2. ev[s] \in [r : Int, w : BOOLEAN, e : BOOLEAN]
      BY <1>t, <3>1, Zenon DEF EvType
    <3>3. p[2] \in Ready(Apply(ev[s], evt)) /\ p[2] \notin Ready(ev[s])
      BY <1>6, <2>3, <3>1, Zenon
    <3>4. CheckWaiters(ev[s], evt)
      BY <1>1, <3>2, <3>3, CheckWaitersComplete, Zenon
    <3>5. waiting[s] # 0
      <4>1. t \in Counters(s)
        BY <1>3, <1>6, <3>1, LookedCounted, Zenon DEF Counters
      <4>2. Cardinality(Counters(s)) # 0
        BY <4>1, CountersFinite, FS_EmptySet, Zenon
      <4> QED
        BY <3>1, <4>2, Zenon DEF WaitingAccounted, Counters
    <3>6. core' = Held(core.by, Tail(core.todo), chk)
      BY <1>2, <3>1, <3>4, <3>5, SelectAssumption, SMTT(30) DEF Socks
    <3>7. core'.check = chk /\ chk.s = s /\ chk.has = Ready(Apply(ev[s], evt))
      <4>1. chk.s = s /\ chk.has = Ready(Apply(ev[s], evt))
        BY Zenon
      <4> HIDE DEF chk
      <4>2. Held(core.by, Tail(core.todo), chk).check = chk
        BY Zenon DEF Held
      <4> QED
        BY <3>6, <4>1, <4>2, Zenon
    <3>8. chk # None
      <4>1. chk \in [s : Socks, has : SUBSET Kinds]
        BY <3>1, Zenon DEF Ready
      <4> HIDE DEF chk
      <4> QED
        BY <4>1, SelectAssumption, Zenon
    <3>9. t \in linked /\ (signalled[t] => sem[t] > 0)
      BY <1>3, <1>6, LookedCounted, Zenon DEF CountOK
    <3>10. <<s, p[2]>> \in want[t]
      BY <1>6, <2>1, <3>1, Zenon
    <3> HIDE DEF chk
    <3>11. ~signalled[t] => CheckComes(t)'
      BY <1>4, <3>3, <3>7, <3>8, <3>9, <3>10, ZenonT(30) DEF CheckComes
    <3> QED
      BY <3>9, <3>11, Zenon
  <2> QED
    BY <2>2, <2>3, Zenon
<1> QED
  BY <1>4, <1>5, <1>6, Zenon DEF WakeOK

\* A step that makes nothing ready on the sockets of a thread.
LEMMA NothingReady ==
    ASSUME TypeOK, NEW t \in Threads, WakeOK(t), UNCHANGED <<linked, callVars, cbVars>>,
           core' = core \/ core.check = None,
           \A p \in want[t] : p[2] \in Ready(ev'[p[1]]) => p[2] \in Ready(ev[p[1]])
    PROVE  WakeOK(t)'
<1>1. UNCHANGED <<linked, pc, want, left, counted, nready, signalled, sem>>
  BY Zenon DEF callVars, cbVars
<1>2. Looked(t)' = Looked(t)
  BY <1>1, Zenon DEF Looked
<1>3. CheckComes(t) => CheckComes(t)'
  BY <1>1, Zenon DEF CheckComes
<1> QED
  BY <1>1, <1>2, <1>3, Zenon DEF WakeOK

\* Every step keeps the wake-ups.
LEMMA WakeStep ==
    ASSUME TypeOK, OwnInv, CountInv, WaitingAccounted, WakeInv, [Next]_vars
    PROVE  WakeInv'
<1>t. NetType /\ EvType /\ core \in CoreSet /\ CallType /\ CbType /\ AppType
  BY TypeParts, Zenon
<1>1. SUFFICES ASSUME NEW t \in Threads PROVE WakeOK(t)'
  BY Zenon DEF WakeInv
<1>w. WakeOK(t) /\ CountOK(t)
  BY Zenon DEF WakeInv, CountInv
<1>s. \A p \in want[t] : p[1] \in Socks
  BY <1>t DEF CallType
<1>u. UNCHANGED ev /\ UNCHANGED <<linked, callVars, cbVars>> /\ (core' = core \/ core.check = None)
      => WakeOK(t)'
  BY <1>w, NothingReady, Zenon
<1>2. CASE UNCHANGED vars
  BY <1>2, <1>u, Zenon DEF vars
<1>3. ASSUME NEW d \in Data, \/ AcceptFunction(d) \/ RecvTcp(d) \/ ErrTcp(d)
                             \/ \E evt \in Events : SentTcp(d, evt)
      PROVE  WakeOK(t)'
  BY <1>3, <1>u, Zenon DEF AcceptFunction, RecvTcp, ErrTcp, SentTcp, LockFree
<1>4. CASE EventCallback
  BY <1>4, EventWakes, Zenon DEF OwnInv
<1>5. CASE SelectCheckWaiters
  <2>1. /\ UNCHANGED <<linked, pc, want, left, counted, nready, ev>>
        /\ CheckComes(t) => sem'[t] = sem[t] + 1
        /\ ~CheckComes(t) => sem'[t] = sem[t]
    BY <1>5, CheckEffect, Zenon DEF callVars
  <2>2. Looked(t)' = Looked(t)
    BY <2>1, Zenon DEF Looked
  <2>3. CheckComes(t) \/ sem[t] > 0 => sem'[t] > 0
    BY <1>t, <2>1 DEF CbType
  <2> QED
    BY <1>w, <2>1, <2>2, <2>3, Zenon DEF WakeOK
<1>6. ASSUME NEW a \in Apps, App(a) PROVE WakeOK(t)'
  <2>1. ASSUME NEW c \in Conns, Fetch(a, c) \/ Close(a, c) PROVE WakeOK(t)'
    BY <2>1, <1>u, Zenon DEF Fetch, Close, DelConn, LockFree
  <2>2. CASE PeerGone(a) \/ Assign(a) \/ Replay(a) \/ FreeSocket(a) \/ NetconnDelete(a)
             \/ NetconnFree(a)
    BY <2>2, <1>u, Zenon DEF PeerGone, Assign, Replay, FreeSocket, NetconnDelete,
       NetconnFree, DelConn,
                      LockFree
  <2>3. CASE Minus(a)
    <3>1. /\ ev' = [ev EXCEPT ![app[a].s] = Apply(@, "RCVMINUS")]
          /\ UNCHANGED <<core, linked, callVars, cbVars>>
      BY <2>3, Zenon DEF Minus
    <3>2. \A r \in Socks : ev'[r] = ev[r] \/ ev'[r] = Apply(ev[r], "RCVMINUS")
      BY <1>t, <3>1, Zenon DEF EvType
    <3>3. ASSUME NEW r \in Socks, NEW k, k \in Ready(Apply(ev[r], "RCVMINUS"))
          PROVE  k \in Ready(ev[r])
      <4>1. ev[r] \in [r : Int, w : BOOLEAN, e : BOOLEAN] /\ "RCVMINUS" \in Events
        BY <1>t, Zenon DEF EvType, Events
      <4>2. ~CheckWaiters(ev[r], "RCVMINUS")
        BY Zenon DEF CheckWaiters
      <4> QED
        BY <3>3, <4>1, <4>2, CheckWaitersComplete, Zenon
    <3> QED
      BY <1>s, <1>w, <3>1, <3>2, <3>3, NothingReady, ZenonT(30)
  <2>4. CASE AllocSocket(a)
    <3> DEFINE free == {x \in Socks : conn[x] = None}
               s == CHOOSE x \in free : \A y \in free : x <= y
    <3>1. UNCHANGED <<core, linked, callVars, cbVars>>
      BY <2>4, Zenon DEF AllocSocket
    <3>2. CASE free = {}
      BY <1>u, <2>4, <3>1, <3>2, Zenon DEF AllocSocket
    <3>3. CASE free # {}
      <4>1. ev' = [ev EXCEPT ![s] = [r |-> 0, w |-> TRUE, e |-> FALSE]]
        BY <2>4, <3>3, Zenon DEF AllocSocket
      <4>2. s \in Socks /\ conn[s] = None
        BY <3>3, FreeSocketIs, Zenon
      <4> HIDE DEF s
      <4>3. ASSUME NEW p \in want[t], p[2] \in Ready(ev'[p[1]])
            PROVE  p[2] \in Ready(ev[p[1]])
        <5>1. CASE p[1] = s
          <6>1. s \in SocksOf(want[t])
            BY <5>1, Zenon DEF SocksOf
          <6>2. ev[s].w
            BY <4>2, <6>1, Zenon DEF OwnInv, FreeInv
          <6>3. ev'[s] = [r |-> 0, w |-> TRUE, e |-> FALSE]
            BY <1>t, <4>1, <4>2, Zenon DEF EvType
          <6>4. Ready([r |-> 0, w |-> TRUE, e |-> FALSE]) = {"w"}
            BY DEF Ready, Kinds
          <6>5. "w" \in Ready(ev[s])
            BY <6>2, Zenon DEF Ready, Kinds
          <6> QED
            BY <4>3, <5>1, <6>3, <6>4, <6>5, Zenon
        <5>2. CASE p[1] # s
          BY <1>s, <1>t, <4>1, <4>3, <5>2, Zenon DEF EvType
        <5> QED
          BY <5>1, <5>2, Zenon
      <4> QED
        BY <1>w, <3>1, <4>3, NothingReady, Zenon
    <3> QED
      BY <3>2, <3>3, Zenon
  <2> QED
    BY <1>6, <2>1, <2>2, <2>3, <2>4, Zenon DEF App, AppStep
<1>7. ASSUME NEW u \in Threads, Waiter(u) PROVE WakeOK(t)'
  <2>1. CASE t = u
    BY <1>7, <1>w, <2>1, WaiterWakes, Zenon
  <2>2. CASE t # u
    <3>1. Still(t)
      BY <1>7, <2>2, OthersStill, Zenon
    <3>2. UNCHANGED <<ev, core>>
      BY <1>7, Zenon DEF Waiter, WaiterStep, Scan, Scanned1, Link, IncWaiting,
         WaitingFull, Counted,
                  Scanned2, Wake, DecWaiting, Unlink, Scanned3, Call, SemNewFails,
                  TimeOut, outVars
    <3>3. Looked(t)' = Looked(t)
      BY <3>1, Zenon DEF Looked, Still
    <3> QED
      BY <1>w, <3>1, <3>2, <3>3, LookStays, Zenon DEF Still
  <2> QED
    BY <2>1, <2>2, Zenon
<1> QED
  BY <1>2, <1>3, <1>4, <1>5, <1>6, <1>7, ZenonT(30) DEF Next, Stack

-----------------------------------------------------------------------------
(* The theorems.                                                           *)

\* The inductive invariant: the types, the owners, the counts and the looks.
SelectInv == TypeOK /\ OwnInv /\ CountInv /\ WaitingAccounted /\ WakeInv

\* The invariant holds when the listener has just been opened.
LEMMA SelectStarts ==
    ASSUME Init
    PROVE  SelectInv
<1>1. CountInv
  BY Zenon DEF Init, CountInv, CountOK
<1>2. WaitingAccounted
  <2>1. \A s \in Socks : {t \in Threads : s \in counted[t]} = {}
    BY Zenon DEF Init
  <2>2. \A s \in Socks : waiting[s] = 0
    BY Zenon DEF Init
  <2> QED
    BY <2>1, <2>2, FS_EmptySet, Zenon DEF WaitingAccounted
<1>3. WakeInv
  BY Zenon DEF Init, WakeInv, WakeOK
<1> QED
  BY <1>1, <1>2, <1>3, OwnStarts, Zenon DEF SelectInv

\* And every step keeps it.
LEMMA SelectStep ==
    ASSUME NoPollOverflow, SelectInv, [Next]_vars
    PROVE  SelectInv'
  BY TypeStep, OwnStep, CountStep, WakeStep, Zenon DEF SelectInv

\* So it always holds.
LEMMA SelectInvariant ==
    ASSUME NoPollOverflow
    PROVE  Spec => []SelectInv
<1>1. Init => SelectInv
  BY SelectStarts, Zenon
<1>2. SelectInv /\ [Next]_vars => SelectInv'
  BY SelectStep, Zenon
<1> HIDE DEF SelectInv
<1> QED
  BY <1>1, <1>2, PTL DEF Spec

\* select_waiting of a socket is the number of calls of lwip_select() and
\* lwip_poll() that announced themselves on it and have not taken it back, for
\* any number of threads, sockets and connections, as long as it cannot
\* overflow under a lwip_poll().
THEOREM WaitersCounted ==
    ASSUME NoPollOverflow
    PROVE  Spec => []WaitingAccounted
<1>1. SelectInv => WaitingAccounted
  BY Zenon DEF SelectInv
<1> HIDE DEF SelectInv
<1> QED
  BY <1>1, SelectInvariant, PTL

\* The LWIP_ASSERT of the loops that take select_waiting back holds under the
\* same condition.
THEOREM DecrementSafe ==
    ASSUME NoPollOverflow
    PROVE  Spec => []WaitingPositive
<1>1. SelectInv => WaitingPositive
  <2>1. SUFFICES ASSUME SelectInv, NEW t \in Threads, pc[t] = "dec", left[t] # {}
                 PROVE  waiting[First(left[t])] > 0
    BY Zenon DEF WaitingPositive
  <2>2. PICK s \in Socks : s = First(left[t]) /\ s \in left[t]
    <3>1. left[t] \in SUBSET Socks
      BY <2>1, Zenon DEF SelectInv, TypeOK
    <3> QED
      BY <2>1, <3>1, FirstIn, Zenon
  <2>3. t \in Counters(s)
    BY <2>1, <2>2, Zenon DEF SelectInv, CountInv, CountOK, Counters
  <2>4. Cardinality(Counters(s)) # 0
    BY <2>3, CountersFinite, FS_EmptySet, Zenon
  <2>5. waiting[s] = Cardinality(Counters(s))
    BY <2>1, Zenon DEF SelectInv, WaitingAccounted, Counters
  <2> QED
    BY <2>2, <2>4, <2>5, CountersFinite
<1> HIDE DEF SelectInv
<1> QED
  BY <1>1, SelectInvariant, PTL

\* A thread asleep in lwip_select() or lwip_poll() while an event it asks for
\* is there has been signalled or is about to be.
THEOREM NoWakeupLost ==
    ASSUME NoPollOverflow
    PROVE  Spec => []NoLostWakeup
<1>1. SelectInv => NoLostWakeup
  <2>1. SUFFICES ASSUME SelectInv, NEW t \in Threads, pc[t] = "wait", WantReady(t)
                 PROVE  sem[t] > 0 \/ CheckComes(t)
    BY Zenon DEF NoLostWakeup
  <2>2. PICK p \in want[t] : p[2] \in Ready(ev[p[1]])
    BY <2>1, Zenon DEF WantReady
  <2>3. p[1] \in Looked(t)
    BY <2>1, Zenon DEF Looked, SocksOf
  <2>4. ~nready[t] /\ WakeOK(t)
    BY <2>1, Zenon DEF SelectInv, CountInv, CountOK, WakeInv
  <2> QED
    BY <2>2, <2>3, <2>4, Zenon DEF WakeOK
<1> HIDE DEF SelectInv
<1> QED
  BY <1>1, SelectInvariant, PTL

=============================================================================
