---------------------------- MODULE LwipIoProofs ----------------------------
(***************************************************************************)
(* Descriptors and lwIP sockets stay paired, for any number of threads,    *)
(* descriptors and sockets.  Numbers are reused, so the argument is about  *)
(* the sockets behind them: each is carried by one thread, then named by   *)
(* one descriptor, and no number is closed while its descriptor is open.   *)
(***************************************************************************)
EXTENDS LwipIo, TLAPS

\* an iop whose lwIP socket has not been closed
Live(f) ==
    \/ st[f] = "open"
    \/ st[f] = "closing" /\ \E t \in Threads : fd[t] = f /\ pc[t] \in {"close", "lwip_close"}

\* no socket has two numbers, no descriptor two owners, no number two carriers
Distinct ==
    /\ \A n, m \in Socks : sock[n] = sock[m] /\ sock[n] # 0 => n = m
    /\ \A f, g \in Iops : iopId[f] = iopId[g] /\ iopId[f] # 0 => f = g
    /\ \A t, u \in Threads : \A n \in Socks : Carries(t, n) /\ Carries(u, n) => t = u

\* nothing is older than its creation
Old ==
    /\ \A n \in Socks : sock[n] <= made
    /\ \A f \in Iops : iopId[f] <= made
    /\ \A t \in Threads : meant[t] <= made

\* a socket that a thread carries was never behind a descriptor
Fresh ==
    \A t \in Threads : \A n \in Socks : Carries(t, n) =>
        /\ sock[n] # 0
        /\ \A f \in Iops : iopId[f] # sock[n]
        /\ \A u \in Threads : meant[u] # sock[n]

\* a descriptor whose socket is not closed yet names it
LiveNames == \A f \in Iops : Live(f) /\ data0[f] >= 0 => sock[data0[f]] = iopId[f]

IopShape ==
    \A f \in Iops : (data0[f] >= 0 <=> iopId[f] # 0) /\ (st[f] = "free" => iopId[f] = 0)

\* each closing descriptor has one thread in close()
Closes(t) == pc[t] \in {"close", "lwip_close", "free"}
Closers ==
    /\ \A t \in Threads : Closes(t) => st[fd[t]] = "closing"
    /\ \A t, u \in Threads : Closes(t) /\ Closes(u) /\ fd[t] = fd[u] => t = u
    /\ \A t \in Threads : pc[t] = "lwip_close" => s[t] = data0[fd[t]] /\ s[t] >= 0
    /\ \A t \in Threads : pc[t] = "free" /\ iopId[fd[t]] # 0 =>
          \A n \in Socks : sock[n] # iopId[fd[t]]

\* a call knows the number of its descriptor for as long as it is the same
Calls ==
    \A t \in Threads : pc[t] \in {"call", "inside", "accept", "make"} =>
        /\ s[t] >= 0
        /\ pc[t] \in {"call", "inside"} =>
              meant[t] # 0 /\ (meant[t] = iopId[fd[t]] => data0[fd[t]] = s[t])

\* a thread that is going to release the mutex has it
Mutex == \A t \in Threads : pc[t] \in {"socket", "make"} => owner = t /\ nest >= 1

IInv ==
    /\ TypeOK /\ Mutex /\ Distinct /\ Old /\ Fresh /\ LiveNames /\ IopShape
    /\ Closers /\ Calls /\ NoOrphan

-----------------------------------------------------------------------------
\* Socket preserves the invariant.
LEMMA SocketKeeps ==
  ASSUME NEW t \in Threads, IInv, Socket(t)
  PROVE  IInv'
<1>. USE IoAssumption DEF IInv, mutexVars, iopVars, sockVars, Iops, Socks, Ids, Carries, Live, Closes,
         Socket, At, Lock, MayLock
<1>1. TypeOK'
  BY DEF TypeOK, Mutex, Calls
<1>2. Mutex'
  BY DEF TypeOK, Mutex
<1>3. Distinct'
  BY DEF TypeOK, Distinct, Old, Fresh, Mutex, LiveNames, Calls
<1>4. Old'
  BY Zenon DEF TypeOK, Old
<1>5. Fresh'
  BY DEF TypeOK, Fresh, Distinct, Old, IopShape, LiveNames, Closers, Calls, Mutex
<1>6. LiveNames'
  BY DEF TypeOK, LiveNames, IopShape, Closers, Distinct, Fresh, Calls, Mutex
<1>7. IopShape'
  BY Zenon DEF TypeOK, IopShape, Fresh, Calls
<1>8. Closers'
  BY DEF TypeOK, Closers
<1>9. Calls'
  BY Zenon DEF TypeOK, Calls, Fresh, IopShape, Closers
<1>10. NoOrphan'
  <2>. SUFFICES ASSUME NEW n \in Socks, sock'[n] # 0
       PROVE  (\E g \in Iops : Names(g, n)') \/ (\E u \in Threads : Carries(u, n)')
    BY Zenon DEF NoOrphan
  <2>1. ASSUME NEW g \in Iops, Names(g, n) PROVE Names(g, n)'
    BY <2>1, Zenon DEF TypeOK, Names
  <2>2. ASSUME NEW u \in Threads, Carries(u, n) PROVE Carries(u, n)'
    BY <2>2, Zenon DEF TypeOK
  <2>. QED  BY <2>1, <2>2 DEF NoOrphan
<1>. QED  BY <1>1, <1>2, <1>3, <1>4, <1>5, <1>6, <1>7, <1>8, <1>9, <1>10

\* LwipSocket preserves the invariant.
LEMMA LwipSocketKeeps ==
  ASSUME NEW t \in Threads, IInv, LwipSocket(t)
  PROVE  IInv'
<1>. USE IoAssumption DEF IInv, mutexVars, iopVars, sockVars, Iops, Socks, Ids, Carries, Live, Closes,
         LwipSocket, At, NewSocket
<1>1. TypeOK'
  BY DEF TypeOK, Mutex, Calls
<1>2. Mutex'
  BY Zenon DEF TypeOK, Mutex
<1>3. Distinct'
  BY SMTT(30) DEF TypeOK, Distinct, Old, Fresh, Mutex, LiveNames, Calls
<1>4. Old'
  <2>1. made' = made + 1 /\ made \in Nat
    BY DEF TypeOK
  <2>2. \A n \in Socks : sock'[n] <= made'
    BY <2>1, SMTT(30) DEF TypeOK, Old
  <2>3. \A f \in Iops : iopId[f] \in Int /\ iopId[f] <= made
    BY DEF TypeOK, Old
  <2>4. \A u \in Threads : meant[u] \in Int /\ meant[u] <= made
    BY DEF TypeOK, Old
  <2>5. iopId' = iopId /\ meant' = meant
    BY Zenon
  <2>. QED  BY <2>1, <2>2, <2>3, <2>4, <2>5 DEF Old
<1>5. Fresh'
  BY DEF TypeOK, Fresh, Distinct, Old, IopShape, LiveNames, Closers, Calls, Mutex
<1>6. LiveNames'
  BY DEF TypeOK, LiveNames, IopShape, Closers, Distinct, Fresh, Calls, Mutex
<1>7. IopShape'
  BY Zenon DEF TypeOK, IopShape, Fresh, Calls
<1>8. Closers'
  BY DEF TypeOK, Closers, Old
<1>9. Calls'
  BY DEF TypeOK, Calls, Fresh, IopShape, Closers
<1>10. NoOrphan'
  <2>. SUFFICES ASSUME NEW n \in Socks, sock'[n] # 0
       PROVE  (\E g \in Iops : Names(g, n)') \/ (\E u \in Threads : Carries(u, n)')
    BY Zenon DEF NoOrphan
  <2>1. CASE sock[n] = 0
    BY <2>1 DEF TypeOK, LiveNames, IopShape, Closers, Distinct, Fresh, Mutex, Calls, Names
  <2>2. CASE sock[n] # 0
    <3>1. sock'[n] = sock[n]
      BY <2>2, Zenon DEF TypeOK
    <3>2. ASSUME NEW g \in Iops, Names(g, n) PROVE Names(g, n)'
      BY <3>1, <3>2, Zenon DEF Names
    <3>3. ASSUME NEW u \in Threads, Carries(u, n) PROVE Carries(u, n)'
      BY <3>3, Zenon DEF TypeOK
    <3>. QED  BY <2>2, <3>2, <3>3 DEF NoOrphan
  <2>. QED  BY <2>1, <2>2
<1>. QED  BY <1>1, <1>2, <1>3, <1>4, <1>5, <1>6, <1>7, <1>8, <1>9, <1>10

\* LwipSocketFails preserves the invariant.
LEMMA LwipSocketFailsKeeps ==
  ASSUME NEW t \in Threads, IInv, LwipSocketFails(t)
  PROVE  IInv'
<1>. USE IoAssumption DEF IInv, mutexVars, iopVars, sockVars, Iops, Socks, Ids, Carries, Live, Closes,
         LwipSocketFails, At
<1>1. TypeOK'
  BY Zenon DEF TypeOK, Mutex, Calls
<1>2. Mutex'
  BY Zenon DEF TypeOK, Mutex
<1>3. Distinct'
  BY DEF TypeOK, Distinct, Old, Fresh, Mutex, LiveNames, Calls
<1>4. Old'
  BY Zenon DEF TypeOK, Old
<1>5. Fresh'
  BY DEF TypeOK, Fresh, Distinct, Old, IopShape, LiveNames, Closers, Calls, Mutex
<1>6. LiveNames'
  BY DEF TypeOK, LiveNames, IopShape, Closers, Distinct, Fresh, Calls, Mutex
<1>7. IopShape'
  BY Zenon DEF TypeOK, IopShape, Fresh, Calls
<1>8. Closers'
  BY DEF TypeOK, Closers
<1>9. Calls'
  BY Zenon DEF TypeOK, Calls, Fresh, IopShape, Closers
<1>10. NoOrphan'
  <2>. SUFFICES ASSUME NEW n \in Socks, sock'[n] # 0
       PROVE  (\E g \in Iops : Names(g, n)') \/ (\E u \in Threads : Carries(u, n)')
    BY Zenon DEF NoOrphan
  <2>1. ASSUME NEW g \in Iops, Names(g, n) PROVE Names(g, n)'
    BY <2>1, Zenon DEF TypeOK, Names
  <2>2. ASSUME NEW u \in Threads, Carries(u, n) PROVE Carries(u, n)'
    BY <2>2, Zenon DEF TypeOK
  <2>. QED  BY <2>1, <2>2 DEF NoOrphan
<1>. QED  BY <1>1, <1>2, <1>3, <1>4, <1>5, <1>6, <1>7, <1>8, <1>9, <1>10

\* SocketMade preserves the invariant.
LEMMA SocketMadeKeeps ==
  ASSUME NEW t \in Threads, IInv, SocketMade(t)
  PROVE  IInv'
<1>. USE IoAssumption DEF IInv, mutexVars, iopVars, sockVars, Iops, Socks, Ids, Carries, Live, Closes,
         SocketMade, At, MakeSysfd, Unlock
<1>1. TypeOK'
  BY SMTT(30) DEF TypeOK, Mutex, Calls
<1>2. Mutex'
  BY ZenonT(30) DEF TypeOK, Mutex
<1>3. Distinct'
  BY SMTT(30) DEF TypeOK, Distinct, Old, Fresh, Mutex, LiveNames, Calls
<1>4. Old'
  BY DEF TypeOK, Old
<1>5. Fresh'
  BY DEF TypeOK, Fresh, Distinct, Old, IopShape, LiveNames, Closers, Calls, Mutex
<1>6. LiveNames'
  BY DEF TypeOK, LiveNames, IopShape, Closers, Distinct, Fresh, Calls, Mutex
<1>7. IopShape'
  BY DEF TypeOK, IopShape, Fresh, Calls
<1>8. Closers'
  BY DEF TypeOK, Closers
<1>9. Calls'
  BY DEF TypeOK, Calls, Fresh, IopShape, Closers
<1>10. NoOrphan'
  <2>. SUFFICES ASSUME NEW n \in Socks, sock'[n] # 0
       PROVE  (\E g \in Iops : Names(g, n)') \/ (\E u \in Threads : Carries(u, n)')
    BY Zenon DEF NoOrphan
  <2>1. ASSUME NEW g \in Iops, Names(g, n) PROVE Names(g, n)'
    BY <2>1, Zenon DEF TypeOK, Names
  <2>2. ASSUME NEW u \in Threads, u # t, Carries(u, n) PROVE Carries(u, n)'
    BY <2>2, Zenon DEF TypeOK
  <2>3. ASSUME Carries(t, n) PROVE \E g \in Iops : Names(g, n)'
    BY <2>3 DEF TypeOK, Names
  <2>. QED  BY <2>1, <2>2, <2>3 DEF NoOrphan
<1>. QED  BY <1>1, <1>2, <1>3, <1>4, <1>5, <1>6, <1>7, <1>8, <1>9, <1>10

\* SocketNotMade preserves the invariant.
LEMMA SocketNotMadeKeeps ==
  ASSUME NEW t \in Threads, IInv, SocketNotMade(t)
  PROVE  IInv'
<1>. USE IoAssumption DEF IInv, mutexVars, iopVars, sockVars, Iops, Socks, Ids, Carries, Live, Closes,
         SocketNotMade, At, CloseSock, Unlock
<1>1. TypeOK'
  BY DEF TypeOK, Mutex, Calls
<1>2. Mutex'
  BY Zenon DEF TypeOK, Mutex
<1>3. Distinct'
  BY DEF TypeOK, Distinct, Old, Fresh, Mutex, LiveNames, Calls
<1>4. Old'
  BY DEF TypeOK, Old
<1>5. Fresh'
  BY DEF TypeOK, Fresh, Distinct, Old, IopShape, LiveNames, Closers, Calls, Mutex
<1>6. LiveNames'
  BY DEF TypeOK, LiveNames, IopShape, Closers, Distinct, Fresh, Calls, Mutex
<1>7. IopShape'
  BY Zenon DEF TypeOK, IopShape, Fresh, Calls
<1>8. Closers'
  BY DEF TypeOK, Closers
<1>9. Calls'
  BY Zenon DEF TypeOK, Calls, Fresh, IopShape, Closers
<1>10. NoOrphan'
  <2>. SUFFICES ASSUME NEW n \in Socks, sock'[n] # 0
       PROVE  (\E g \in Iops : Names(g, n)') \/ (\E u \in Threads : Carries(u, n)')
    BY Zenon DEF NoOrphan
  <2>1. ASSUME NEW g \in Iops, Names(g, n) PROVE Names(g, n)'
    BY <2>1, Zenon DEF TypeOK, LiveNames, IopShape, Closers, Distinct, Fresh, Mutex,
       Calls, Names
  <2>2. ASSUME NEW u \in Threads, Carries(u, n) PROVE Carries(u, n)'
    BY <2>2, Zenon DEF TypeOK
  <2>. QED  BY <2>1, <2>2 DEF NoOrphan, TypeOK
<1>. QED  BY <1>1, <1>2, <1>3, <1>4, <1>5, <1>6, <1>7, <1>8, <1>9, <1>10

\* Translate preserves the invariant.
LEMMA TranslateKeeps ==
  ASSUME NEW t \in Threads, NEW f \in Iops, NEW op \in {"call", "accept", "select"},
         IInv, Translate(t, f, op)
  PROVE  IInv'
<1>. USE IoAssumption DEF IInv, mutexVars, iopVars, sockVars, Iops, Socks, Ids, Carries, Live, Closes,
         Translate, MayLock
<1>1. TypeOK'
  BY Zenon DEF TypeOK, Mutex, Calls
<1>2. Mutex'
  BY Zenon DEF TypeOK, Mutex
<1>3. Distinct'
  BY DEF TypeOK, Distinct, Old, Fresh, Mutex, LiveNames, Calls
<1>4. Old'
  BY Zenon DEF TypeOK, Old
<1>5. Fresh'
  BY DEF TypeOK, Fresh, Distinct, Old, IopShape, LiveNames, Closers, Calls, Mutex
<1>6. LiveNames'
  BY DEF TypeOK, LiveNames, IopShape, Closers, Distinct, Fresh, Calls, Mutex
<1>7. IopShape'
  BY Zenon DEF TypeOK, IopShape, Fresh, Calls
<1>8. Closers'
  BY DEF TypeOK, Closers
<1>9. Calls'
  BY DEF TypeOK, Calls, Fresh, IopShape, Closers
<1>10. NoOrphan'
  <2>. SUFFICES ASSUME NEW n \in Socks, sock'[n] # 0
       PROVE  (\E g \in Iops : Names(g, n)') \/ (\E u \in Threads : Carries(u, n)')
    BY Zenon DEF NoOrphan
  <2>1. ASSUME NEW g \in Iops, Names(g, n) PROVE Names(g, n)'
    BY <2>1, Zenon DEF TypeOK, Names
  <2>2. ASSUME NEW u \in Threads, Carries(u, n) PROVE Carries(u, n)'
    BY <2>2, Zenon DEF TypeOK
  <2>. QED  BY <2>1, <2>2 DEF NoOrphan
<1>. QED  BY <1>1, <1>2, <1>3, <1>4, <1>5, <1>6, <1>7, <1>8, <1>9, <1>10

\* Enter preserves the invariant.
LEMMA EnterKeeps ==
  ASSUME NEW t \in Threads, IInv, Enter(t)
  PROVE  IInv'
<1>. USE IoAssumption DEF IInv, mutexVars, iopVars, sockVars, Iops, Socks, Ids, Carries, Live, Closes,
         Enter
<1>1. TypeOK'
  BY Zenon DEF TypeOK, Mutex, Calls
<1>2. Mutex'
  BY Zenon DEF TypeOK, Mutex
<1>3. Distinct'
  BY DEF TypeOK, Distinct, Old, Fresh, Mutex, LiveNames, Calls
<1>4. Old'
  BY Zenon DEF TypeOK, Old
<1>5. Fresh'
  BY DEF TypeOK, Fresh, Distinct, Old, IopShape, LiveNames, Closers, Calls, Mutex
<1>6. LiveNames'
  BY DEF TypeOK, LiveNames, IopShape, Closers, Distinct, Fresh, Calls, Mutex
<1>7. IopShape'
  BY Zenon DEF TypeOK, IopShape, Fresh, Calls
<1>8. Closers'
  BY DEF TypeOK, Closers
<1>9. Calls'
  BY DEF TypeOK, Calls, Fresh, IopShape, Closers
<1>10. NoOrphan'
  <2>. SUFFICES ASSUME NEW n \in Socks, sock'[n] # 0
       PROVE  (\E g \in Iops : Names(g, n)') \/ (\E u \in Threads : Carries(u, n)')
    BY Zenon DEF NoOrphan
  <2>1. ASSUME NEW g \in Iops, Names(g, n) PROVE Names(g, n)'
    BY <2>1, Zenon DEF TypeOK, Names
  <2>2. ASSUME NEW u \in Threads, Carries(u, n) PROVE Carries(u, n)'
    BY <2>2, Zenon DEF TypeOK
  <2>. QED  BY <2>1, <2>2 DEF NoOrphan
<1>. QED  BY <1>1, <1>2, <1>3, <1>4, <1>5, <1>6, <1>7, <1>8, <1>9, <1>10

\* Leave preserves the invariant.
LEMMA LeaveKeeps ==
  ASSUME NEW t \in Threads, IInv, Leave(t)
  PROVE  IInv'
<1>. USE IoAssumption DEF IInv, mutexVars, iopVars, sockVars, Iops, Socks, Ids, Carries, Live, Closes,
         Leave, At
<1>1. TypeOK'
  BY Zenon DEF TypeOK, Mutex, Calls
<1>2. Mutex'
  BY Zenon DEF TypeOK, Mutex
<1>3. Distinct'
  BY DEF TypeOK, Distinct, Old, Fresh, Mutex, LiveNames, Calls
<1>4. Old'
  BY Zenon DEF TypeOK, Old
<1>5. Fresh'
  BY DEF TypeOK, Fresh, Distinct, Old, IopShape, LiveNames, Closers, Calls, Mutex
<1>6. LiveNames'
  BY DEF TypeOK, LiveNames, IopShape, Closers, Distinct, Fresh, Calls, Mutex
<1>7. IopShape'
  BY Zenon DEF TypeOK, IopShape, Fresh, Calls
<1>8. Closers'
  BY DEF TypeOK, Closers
<1>9. Calls'
  BY Zenon DEF TypeOK, Calls, Fresh, IopShape, Closers
<1>10. NoOrphan'
  <2>. SUFFICES ASSUME NEW n \in Socks, sock'[n] # 0
       PROVE  (\E g \in Iops : Names(g, n)') \/ (\E u \in Threads : Carries(u, n)')
    BY Zenon DEF NoOrphan
  <2>1. ASSUME NEW g \in Iops, Names(g, n) PROVE Names(g, n)'
    BY <2>1, Zenon DEF TypeOK, Names
  <2>2. ASSUME NEW u \in Threads, Carries(u, n) PROVE Carries(u, n)'
    BY <2>2, Zenon DEF TypeOK
  <2>. QED  BY <2>1, <2>2 DEF NoOrphan
<1>. QED  BY <1>1, <1>2, <1>3, <1>4, <1>5, <1>6, <1>7, <1>8, <1>9, <1>10

\* LwipSelected preserves the invariant.
LEMMA LwipSelectedKeeps ==
  ASSUME NEW t \in Threads, IInv, LwipSelected(t)
  PROVE  IInv'
<1>. USE IoAssumption DEF IInv, mutexVars, iopVars, sockVars, Iops, Socks, Ids, Carries, Live, Closes,
         LwipSelected, At
<1>1. TypeOK'
  BY Zenon DEF TypeOK, Mutex, Calls
<1>2. Mutex'
  BY Zenon DEF TypeOK, Mutex
<1>3. Distinct'
  BY DEF TypeOK, Distinct, Old, Fresh, Mutex, LiveNames, Calls
<1>4. Old'
  BY Zenon DEF TypeOK, Old
<1>5. Fresh'
  BY DEF TypeOK, Fresh, Distinct, Old, IopShape, LiveNames, Closers, Calls, Mutex
<1>6. LiveNames'
  BY DEF TypeOK, LiveNames, IopShape, Closers, Distinct, Fresh, Calls, Mutex
<1>7. IopShape'
  BY Zenon DEF TypeOK, IopShape, Fresh, Calls
<1>8. Closers'
  BY DEF TypeOK, Closers
<1>9. Calls'
  BY ZenonT(30) DEF TypeOK, Calls, Fresh, IopShape, Closers
<1>10. NoOrphan'
  <2>. SUFFICES ASSUME NEW n \in Socks, sock'[n] # 0
       PROVE  (\E g \in Iops : Names(g, n)') \/ (\E u \in Threads : Carries(u, n)')
    BY Zenon DEF NoOrphan
  <2>1. ASSUME NEW g \in Iops, Names(g, n) PROVE Names(g, n)'
    BY <2>1, Zenon DEF TypeOK, Names
  <2>2. ASSUME NEW u \in Threads, Carries(u, n) PROVE Carries(u, n)'
    BY <2>2, Zenon DEF TypeOK
  <2>. QED  BY <2>1, <2>2 DEF NoOrphan
<1>. QED  BY <1>1, <1>2, <1>3, <1>4, <1>5, <1>6, <1>7, <1>8, <1>9, <1>10

\* TranslateBack preserves the invariant.
LEMMA TranslateBackKeeps ==
  ASSUME NEW t \in Threads, IInv, TranslateBack(t)
  PROVE  IInv'
<1>. USE IoAssumption DEF IInv, mutexVars, iopVars, sockVars, Iops, Socks, Ids, Carries, Live, Closes,
         TranslateBack, At, MayLock
<1>1. TypeOK'
  BY Zenon DEF TypeOK, Mutex, Calls
<1>2. Mutex'
  BY Zenon DEF TypeOK, Mutex
<1>3. Distinct'
  BY DEF TypeOK, Distinct, Old, Fresh, Mutex, LiveNames, Calls
<1>4. Old'
  BY Zenon DEF TypeOK, Old
<1>5. Fresh'
  BY DEF TypeOK, Fresh, Distinct, Old, IopShape, LiveNames, Closers, Calls, Mutex
<1>6. LiveNames'
  BY DEF TypeOK, LiveNames, IopShape, Closers, Distinct, Fresh, Calls, Mutex
<1>7. IopShape'
  BY Zenon DEF TypeOK, IopShape, Fresh, Calls
<1>8. Closers'
  BY DEF TypeOK, Closers
<1>9. Calls'
  BY ZenonT(30) DEF TypeOK, Calls, Fresh, IopShape, Closers
<1>10. NoOrphan'
  <2>. SUFFICES ASSUME NEW n \in Socks, sock'[n] # 0
       PROVE  (\E g \in Iops : Names(g, n)') \/ (\E u \in Threads : Carries(u, n)')
    BY Zenon DEF NoOrphan
  <2>1. ASSUME NEW g \in Iops, Names(g, n) PROVE Names(g, n)'
    BY <2>1, Zenon DEF TypeOK, Names
  <2>2. ASSUME NEW u \in Threads, Carries(u, n) PROVE Carries(u, n)'
    BY <2>2, Zenon DEF TypeOK
  <2>. QED  BY <2>1, <2>2 DEF NoOrphan
<1>. QED  BY <1>1, <1>2, <1>3, <1>4, <1>5, <1>6, <1>7, <1>8, <1>9, <1>10

\* LwipAccept preserves the invariant.
LEMMA LwipAcceptKeeps ==
  ASSUME NEW t \in Threads, IInv, LwipAccept(t)
  PROVE  IInv'
<1>. USE IoAssumption DEF IInv, mutexVars, iopVars, sockVars, Iops, Socks, Ids, Carries, Live, Closes,
         LwipAccept, At, NewSocket
<1>1. TypeOK'
  BY SMTT(30) DEF TypeOK, Mutex, Calls
<1>2. Mutex'
  BY Zenon DEF TypeOK, Mutex
<1>3. Distinct'
  BY SMTT(30) DEF TypeOK, Distinct, Old, Fresh, Mutex, LiveNames, Calls
<1>4. Old'
  <2>1. made' = made + 1 /\ made \in Nat
    BY DEF TypeOK
  <2>2. \A n \in Socks : sock'[n] <= made'
    BY <2>1, SMTT(30) DEF TypeOK, Old
  <2>3. \A f \in Iops : iopId[f] \in Int /\ iopId[f] <= made
    BY DEF TypeOK, Old
  <2>4. \A u \in Threads : meant[u] \in Int /\ meant[u] <= made
    BY DEF TypeOK, Old
  <2>5. iopId' = iopId /\ meant' = meant
    BY Zenon
  <2>. QED  BY <2>1, <2>2, <2>3, <2>4, <2>5 DEF Old
<1>5. Fresh'
  BY DEF TypeOK, Fresh, Distinct, Old, IopShape, LiveNames, Closers, Calls, Mutex
<1>6. LiveNames'
  BY DEF TypeOK, LiveNames, IopShape, Closers, Distinct, Fresh, Calls, Mutex
<1>7. IopShape'
  BY Zenon DEF TypeOK, IopShape, Fresh, Calls
<1>8. Closers'
  BY DEF TypeOK, Closers, Old
<1>9. Calls'
  BY DEF TypeOK, Calls, Fresh, IopShape, Closers
<1>10. NoOrphan'
  <2>. SUFFICES ASSUME NEW n \in Socks, sock'[n] # 0
       PROVE  (\E g \in Iops : Names(g, n)') \/ (\E u \in Threads : Carries(u, n)')
    BY Zenon DEF NoOrphan
  <2>1. CASE sock[n] = 0
    BY <2>1 DEF TypeOK, LiveNames, IopShape, Closers, Distinct, Fresh, Mutex, Calls, Names
  <2>2. CASE sock[n] # 0
    <3>1. sock'[n] = sock[n]
      BY <2>2, Zenon DEF TypeOK
    <3>2. ASSUME NEW g \in Iops, Names(g, n) PROVE Names(g, n)'
      BY <3>1, <3>2, Zenon DEF Names
    <3>3. ASSUME NEW u \in Threads, Carries(u, n) PROVE Carries(u, n)'
      BY <3>3, Zenon DEF TypeOK
    <3>. QED  BY <2>2, <3>2, <3>3 DEF NoOrphan
  <2>. QED  BY <2>1, <2>2
<1>. QED  BY <1>1, <1>2, <1>3, <1>4, <1>5, <1>6, <1>7, <1>8, <1>9, <1>10

\* LwipAcceptFails preserves the invariant.
LEMMA LwipAcceptFailsKeeps ==
  ASSUME NEW t \in Threads, IInv, LwipAcceptFails(t)
  PROVE  IInv'
<1>. USE IoAssumption DEF IInv, mutexVars, iopVars, sockVars, Iops, Socks, Ids, Carries, Live, Closes,
         LwipAcceptFails, At
<1>1. TypeOK'
  BY Zenon DEF TypeOK, Mutex, Calls
<1>2. Mutex'
  BY Zenon DEF TypeOK, Mutex
<1>3. Distinct'
  BY DEF TypeOK, Distinct, Old, Fresh, Mutex, LiveNames, Calls
<1>4. Old'
  BY Zenon DEF TypeOK, Old
<1>5. Fresh'
  BY DEF TypeOK, Fresh, Distinct, Old, IopShape, LiveNames, Closers, Calls, Mutex
<1>6. LiveNames'
  BY DEF TypeOK, LiveNames, IopShape, Closers, Distinct, Fresh, Calls, Mutex
<1>7. IopShape'
  BY Zenon DEF TypeOK, IopShape, Fresh, Calls
<1>8. Closers'
  BY DEF TypeOK, Closers
<1>9. Calls'
  BY ZenonT(30) DEF TypeOK, Calls, Fresh, IopShape, Closers
<1>10. NoOrphan'
  <2>. SUFFICES ASSUME NEW n \in Socks, sock'[n] # 0
       PROVE  (\E g \in Iops : Names(g, n)') \/ (\E u \in Threads : Carries(u, n)')
    BY Zenon DEF NoOrphan
  <2>1. ASSUME NEW g \in Iops, Names(g, n) PROVE Names(g, n)'
    BY <2>1, Zenon DEF TypeOK, Names
  <2>2. ASSUME NEW u \in Threads, Carries(u, n) PROVE Carries(u, n)'
    BY <2>2, Zenon DEF TypeOK
  <2>. QED  BY <2>1, <2>2 DEF NoOrphan
<1>. QED  BY <1>1, <1>2, <1>3, <1>4, <1>5, <1>6, <1>7, <1>8, <1>9, <1>10

\* AcceptMade preserves the invariant.
LEMMA AcceptMadeKeeps ==
  ASSUME NEW t \in Threads, IInv, AcceptMade(t)
  PROVE  IInv'
<1>. USE IoAssumption DEF IInv, mutexVars, iopVars, sockVars, Iops, Socks, Ids, Carries, Live, Closes,
         AcceptMade, At, MakeSysfd, MayLock
<1>1. TypeOK'
  BY SMTT(30) DEF TypeOK, Mutex, Calls
<1>2. Mutex'
  BY Zenon DEF TypeOK, Mutex
<1>3. Distinct'
  BY SMTT(30) DEF TypeOK, Distinct, Old, Fresh, Mutex, LiveNames, Calls
<1>4. Old'
  BY DEF TypeOK, Old
<1>5. Fresh'
  BY DEF TypeOK, Fresh, Distinct, Old, IopShape, LiveNames, Closers, Calls, Mutex
<1>6. LiveNames'
  BY DEF TypeOK, LiveNames, IopShape, Closers, Distinct, Fresh, Calls, Mutex
<1>7. IopShape'
  BY DEF TypeOK, IopShape, Fresh, Calls
<1>8. Closers'
  BY DEF TypeOK, Closers
<1>9. Calls'
  BY DEF TypeOK, Calls, Fresh, IopShape, Closers
<1>10. NoOrphan'
  <2>. SUFFICES ASSUME NEW n \in Socks, sock'[n] # 0
       PROVE  (\E g \in Iops : Names(g, n)') \/ (\E u \in Threads : Carries(u, n)')
    BY Zenon DEF NoOrphan
  <2>1. ASSUME NEW g \in Iops, Names(g, n) PROVE Names(g, n)'
    BY <2>1, Zenon DEF TypeOK, Names
  <2>2. ASSUME NEW u \in Threads, u # t, Carries(u, n) PROVE Carries(u, n)'
    BY <2>2, Zenon DEF TypeOK
  <2>3. ASSUME Carries(t, n) PROVE \E g \in Iops : Names(g, n)'
    BY <2>3 DEF TypeOK, Names
  <2>. QED  BY <2>1, <2>2, <2>3 DEF NoOrphan
<1>. QED  BY <1>1, <1>2, <1>3, <1>4, <1>5, <1>6, <1>7, <1>8, <1>9, <1>10

\* AcceptNotMade preserves the invariant.
LEMMA AcceptNotMadeKeeps ==
  ASSUME NEW t \in Threads, IInv, AcceptNotMade(t)
  PROVE  IInv'
<1>. USE IoAssumption DEF IInv, mutexVars, iopVars, sockVars, Iops, Socks, Ids, Carries, Live, Closes,
         AcceptNotMade, At, MayLock
<1>1. TypeOK'
  BY Zenon DEF TypeOK, Mutex, Calls
<1>2. Mutex'
  BY Zenon DEF TypeOK, Mutex
<1>3. Distinct'
  BY DEF TypeOK, Distinct, Old, Fresh, Mutex, LiveNames, Calls
<1>4. Old'
  BY Zenon DEF TypeOK, Old
<1>5. Fresh'
  BY DEF TypeOK, Fresh, Distinct, Old, IopShape, LiveNames, Closers, Calls, Mutex
<1>6. LiveNames'
  BY ZenonT(30) DEF TypeOK, LiveNames, IopShape, Closers, Distinct, Fresh, Calls, Mutex
<1>7. IopShape'
  BY Zenon DEF TypeOK, IopShape, Fresh, Calls
<1>8. Closers'
  BY DEF TypeOK, Closers
<1>9. Calls'
  BY ZenonT(30) DEF TypeOK, Calls, Fresh, IopShape, Closers
<1>10. NoOrphan'
  <2>. SUFFICES ASSUME NEW n \in Socks, sock'[n] # 0
       PROVE  (\E g \in Iops : Names(g, n)') \/ (\E u \in Threads : Carries(u, n)')
    BY Zenon DEF NoOrphan
  <2>1. ASSUME NEW g \in Iops, Names(g, n) PROVE Names(g, n)'
    BY <2>1, Zenon DEF TypeOK, Names
  <2>2. ASSUME NEW u \in Threads, Carries(u, n) PROVE Carries(u, n)'
    BY <2>2, Zenon DEF TypeOK
  <2>. QED  BY <2>1, <2>2 DEF NoOrphan
<1>. QED  BY <1>1, <1>2, <1>3, <1>4, <1>5, <1>6, <1>7, <1>8, <1>9, <1>10

\* AcceptClose preserves the invariant.
LEMMA AcceptCloseKeeps ==
  ASSUME NEW t \in Threads, IInv, AcceptClose(t)
  PROVE  IInv'
<1>. USE IoAssumption DEF IInv, mutexVars, iopVars, sockVars, Iops, Socks, Ids, Carries, Live, Closes,
         AcceptClose, At, CloseSock
<1>1. TypeOK'
  BY Zenon DEF TypeOK, Mutex, Calls
<1>2. Mutex'
  BY Zenon DEF TypeOK, Mutex
<1>3. Distinct'
  BY DEF TypeOK, Distinct, Old, Fresh, Mutex, LiveNames, Calls
<1>4. Old'
  BY DEF TypeOK, Old
<1>5. Fresh'
  BY DEF TypeOK, Fresh, Distinct, Old, IopShape, LiveNames, Closers, Calls, Mutex
<1>6. LiveNames'
  BY DEF TypeOK, LiveNames, IopShape, Closers, Distinct, Fresh, Calls, Mutex
<1>7. IopShape'
  BY Zenon DEF TypeOK, IopShape, Fresh, Calls
<1>8. Closers'
  BY DEF TypeOK, Closers
<1>9. Calls'
  BY ZenonT(30) DEF TypeOK, Calls, Fresh, IopShape, Closers
<1>10. NoOrphan'
  <2>. SUFFICES ASSUME NEW n \in Socks, sock'[n] # 0
       PROVE  (\E g \in Iops : Names(g, n)') \/ (\E u \in Threads : Carries(u, n)')
    BY Zenon DEF NoOrphan
  <2>1. ASSUME NEW g \in Iops, Names(g, n) PROVE Names(g, n)'
    BY <2>1, Zenon DEF TypeOK, LiveNames, IopShape, Closers, Distinct, Fresh, Mutex,
       Calls, Names
  <2>2. ASSUME NEW u \in Threads, Carries(u, n) PROVE Carries(u, n)'
    BY <2>2, Zenon DEF TypeOK
  <2>. QED  BY <2>1, <2>2 DEF NoOrphan, TypeOK
<1>. QED  BY <1>1, <1>2, <1>3, <1>4, <1>5, <1>6, <1>7, <1>8, <1>9, <1>10

\* Close preserves the invariant.
LEMMA CloseKeeps ==
  ASSUME NEW t \in Threads, NEW f \in Iops, IInv, Close(t, f)
  PROVE  IInv'
<1>. USE IoAssumption DEF IInv, mutexVars, iopVars, sockVars, Iops, Socks, Ids, Carries, Live, Closes,
         Close
<1>1. TypeOK'
  BY Zenon DEF TypeOK, Mutex, Calls
<1>2. Mutex'
  BY Zenon DEF TypeOK, Mutex
<1>3. Distinct'
  BY DEF TypeOK, Distinct, Old, Fresh, Mutex, LiveNames, Calls
<1>4. Old'
  BY Zenon DEF TypeOK, Old
<1>5. Fresh'
  BY DEF TypeOK, Fresh, Distinct, Old, IopShape, LiveNames, Closers, Calls, Mutex
<1>6. LiveNames'
  BY DEF TypeOK, LiveNames, IopShape, Closers, Distinct, Fresh, Calls, Mutex
<1>7. IopShape'
  BY Zenon DEF TypeOK, IopShape, Fresh, Calls
<1>8. Closers'
  BY DEF TypeOK, Closers
<1>9. Calls'
  BY ZenonT(30) DEF TypeOK, Calls, Fresh, IopShape, Closers
<1>10. NoOrphan'
  <2>. SUFFICES ASSUME NEW n \in Socks, sock'[n] # 0
       PROVE  (\E g \in Iops : Names(g, n)') \/ (\E u \in Threads : Carries(u, n)')
    BY Zenon DEF NoOrphan
  <2>1. ASSUME NEW g \in Iops, Names(g, n) PROVE Names(g, n)'
    BY <2>1, Zenon DEF TypeOK, Names
  <2>2. ASSUME NEW u \in Threads, Carries(u, n) PROVE Carries(u, n)'
    BY <2>2, Zenon DEF TypeOK
  <2>. QED  BY <2>1, <2>2 DEF NoOrphan
<1>. QED  BY <1>1, <1>2, <1>3, <1>4, <1>5, <1>6, <1>7, <1>8, <1>9, <1>10

\* CloseHandler preserves the invariant.
LEMMA CloseHandlerKeeps ==
  ASSUME NEW t \in Threads, IInv, CloseHandler(t)
  PROVE  IInv'
<1>. USE IoAssumption DEF IInv, mutexVars, iopVars, sockVars, Iops, Socks, Ids, Carries, Live, Closes,
         CloseHandler, At, MayLock
<1>1. TypeOK'
  BY Zenon DEF TypeOK, Mutex, Calls
<1>2. Mutex'
  BY Zenon DEF TypeOK, Mutex
<1>3. Distinct'
  BY DEF TypeOK, Distinct, Old, Fresh, Mutex, LiveNames, Calls
<1>4. Old'
  BY Zenon DEF TypeOK, Old
<1>5. Fresh'
  BY DEF TypeOK, Fresh, Distinct, Old, IopShape, LiveNames, Closers, Calls, Mutex
<1>6. LiveNames'
  BY DEF TypeOK, LiveNames, IopShape, Closers, Distinct, Fresh, Calls, Mutex
<1>7. IopShape'
  BY ZenonT(30) DEF TypeOK, IopShape, Fresh, Calls
<1>8. Closers'
  <2>1. \A u \in Threads : Closes(u)' => Closes(u)
    BY Zenon DEF TypeOK
  <2>2. ASSUME NEW u \in Threads, pc'[u] = "lwip_close"
        PROVE  s'[u] = data0'[fd'[u]] /\ s'[u] >= 0
    BY <2>2 DEF TypeOK, Closers
  <2>3. ASSUME NEW u \in Threads, pc'[u] = "free", iopId'[fd'[u]] # 0, NEW n \in Socks
        PROVE  sock'[n] # iopId'[fd'[u]]
    <3>1. CASE u = t
      <4>1. fd[t] \in Iops /\ data0[fd[t]] \in Int
        BY DEF TypeOK
      <4>2. data0[fd[t]] < 0
        BY <2>3, <3>1, Zenon DEF TypeOK
      <4>3. iopId[fd[t]] = 0
        BY <4>1, <4>2 DEF IopShape
      <4>. QED  BY <2>3, <3>1, <4>3
    <3>2. CASE u # t
      BY <2>3, <3>2, Zenon DEF TypeOK, Closers
    <3>. QED  BY <3>1, <3>2
  <2>4. st' = st /\ fd' = fd
    BY Zenon
  <2>5. \A u \in Threads : Closes(u)' => st'[fd'[u]] = "closing"
    BY <2>1, <2>4, Zenon DEF Closers
  <2>6. \A u, v \in Threads : Closes(u)' /\ Closes(v)' /\ fd'[u] = fd'[v] => u = v
    BY <2>1, <2>4 DEF Closers
  <2>. QED  BY <2>2, <2>3, <2>5, <2>6 DEF Closers
<1>9. Calls'
  BY ZenonT(30) DEF TypeOK, Calls, Fresh, IopShape, Closers
<1>10. NoOrphan'
  <2>. SUFFICES ASSUME NEW n \in Socks, sock'[n] # 0
       PROVE  (\E g \in Iops : Names(g, n)') \/ (\E u \in Threads : Carries(u, n)')
    BY Zenon DEF NoOrphan
  <2>1. ASSUME NEW g \in Iops, Names(g, n) PROVE Names(g, n)'
    BY <2>1, Zenon DEF TypeOK, Names
  <2>2. ASSUME NEW u \in Threads, Carries(u, n) PROVE Carries(u, n)'
    BY <2>2, Zenon DEF TypeOK
  <2>. QED  BY <2>1, <2>2 DEF NoOrphan
<1>. QED  BY <1>1, <1>2, <1>3, <1>4, <1>5, <1>6, <1>7, <1>8, <1>9, <1>10

\* LwipClose preserves the invariant.
LEMMA LwipCloseKeeps ==
  ASSUME NEW t \in Threads, IInv, LwipClose(t)
  PROVE  IInv'
<1>. USE IoAssumption DEF IInv, mutexVars, iopVars, sockVars, Iops, Socks, Ids, Carries, Live, Closes,
         LwipClose, At, CloseSock
<1>1. TypeOK'
  BY Zenon DEF TypeOK, Mutex, Calls
<1>2. Mutex'
  BY Zenon DEF TypeOK, Mutex
<1>3. Distinct'
  BY DEF TypeOK, Distinct, Old, Fresh, Mutex, LiveNames, Calls
<1>4. Old'
  BY DEF TypeOK, Old
<1>5. Fresh'
  <2>1. s[t] \in Socks /\ sock[s[t]] = iopId[fd[t]] /\ fd[t] \in Iops
    BY DEF TypeOK, Closers, LiveNames
  <2>2. ASSUME NEW u \in Threads, NEW n \in Socks, Carries(u, n)'
        PROVE  Carries(u, n) /\ n # s[t] /\ sock'[n] = sock[n]
    <3>1. Carries(u, n)
      BY <2>2, Zenon DEF TypeOK
    <3>. QED  BY <2>1, <3>1 DEF TypeOK, Fresh
  <2>. QED  BY <2>2 DEF Fresh
<1>6. LiveNames'
  BY DEF TypeOK, LiveNames, IopShape, Closers, Distinct, Fresh, Calls, Mutex
<1>7. IopShape'
  BY Zenon DEF TypeOK, IopShape, Fresh, Calls
<1>8. Closers'
  BY SMTT(30) DEF TypeOK, Closers, Distinct, LiveNames, IopShape
<1>9. Calls'
  BY ZenonT(30) DEF TypeOK, Calls, Fresh, IopShape, Closers
<1>10. NoOrphan'
  <2>. SUFFICES ASSUME NEW n \in Socks, sock'[n] # 0
       PROVE  (\E g \in Iops : Names(g, n)') \/ (\E u \in Threads : Carries(u, n)')
    BY Zenon DEF NoOrphan
  <2>1. ASSUME NEW g \in Iops, Names(g, n) PROVE Names(g, n)'
    BY <2>1, Zenon DEF TypeOK, LiveNames, IopShape, Closers, Distinct, Fresh, Mutex,
       Calls, Names
  <2>2. ASSUME NEW u \in Threads, Carries(u, n) PROVE Carries(u, n)'
    BY <2>2, ZenonT(30) DEF TypeOK
  <2>. QED  BY <2>1, <2>2 DEF NoOrphan, TypeOK
<1>. QED  BY <1>1, <1>2, <1>3, <1>4, <1>5, <1>6, <1>7, <1>8, <1>9, <1>10

\* LibioFree preserves the invariant.
LEMMA LibioFreeKeeps ==
  ASSUME NEW t \in Threads, IInv, LibioFree(t)
  PROVE  IInv'
<1>. USE IoAssumption DEF IInv, mutexVars, iopVars, sockVars, Iops, Socks, Ids, Carries, Live, Closes,
         LibioFree, At
<1>1. TypeOK'
  BY Zenon DEF TypeOK, Mutex, Calls
<1>2. Mutex'
  BY Zenon DEF TypeOK, Mutex
<1>3. Distinct'
  BY SMTT(30) DEF TypeOK, Distinct, Old, Fresh, Mutex, LiveNames, Calls
<1>4. Old'
  BY DEF TypeOK, Old
<1>5. Fresh'
  BY DEF TypeOK, Fresh, Distinct, Old, IopShape, LiveNames, Closers, Calls, Mutex
<1>6. LiveNames'
  BY DEF TypeOK, LiveNames, IopShape, Closers, Distinct, Fresh, Calls, Mutex
<1>7. IopShape'
  BY DEF TypeOK, IopShape, Fresh, Calls
<1>8. Closers'
  BY DEF TypeOK, Closers
<1>9. Calls'
  BY DEF TypeOK, Calls, Fresh, IopShape, Closers
<1>10. NoOrphan'
  <2>. SUFFICES ASSUME NEW n \in Socks, sock'[n] # 0
       PROVE  (\E g \in Iops : Names(g, n)') \/ (\E u \in Threads : Carries(u, n)')
    BY Zenon DEF NoOrphan
  <2>1. ASSUME NEW g \in Iops, Names(g, n) PROVE Names(g, n)'
    BY <2>1 DEF TypeOK, LiveNames, IopShape, Closers, Distinct, Fresh, Mutex, Calls, Names
  <2>2. ASSUME NEW u \in Threads, Carries(u, n) PROVE Carries(u, n)'
    BY <2>2, Zenon DEF TypeOK
  <2>. QED  BY <2>1, <2>2 DEF NoOrphan, TypeOK
<1>. QED  BY <1>1, <1>2, <1>3, <1>4, <1>5, <1>6, <1>7, <1>8, <1>9, <1>10

-----------------------------------------------------------------------------

\* The invariant holds at first.
LEMMA InitIInv == Init => IInv
BY IoAssumption DEF Init, IInv, TypeOK, Mutex, Distinct, Old, Fresh, LiveNames, IopShape,
   Closers, Closes, Calls, NoOrphan, Live, Carries, Iops, Socks, Ids

\* Every step preserves it.
LEMMA NextIInv == IInv /\ [Next]_vars => IInv'
<1>. SUFFICES ASSUME IInv, [Next]_vars PROVE IInv'
  OBVIOUS
<1>1. CASE UNCHANGED vars
  BY <1>1 DEF IInv, TypeOK, Mutex, Distinct, Old, Fresh, LiveNames, IopShape, Closers,
     Closes,
     Calls, NoOrphan, Live, Carries, Names, vars, mutexVars, iopVars, sockVars, callVars
<1>2. ASSUME NEW t \in Threads, Step(t) PROVE IInv'
  BY <1>2, LwipSocketKeeps, LwipSocketFailsKeeps, SocketMadeKeeps, SocketNotMadeKeeps,
     EnterKeeps, LeaveKeeps, LwipSelectedKeeps, TranslateBackKeeps, LwipAcceptKeeps,
     LwipAcceptFailsKeeps, AcceptMadeKeeps, AcceptNotMadeKeeps, AcceptCloseKeeps,
     CloseHandlerKeeps, LwipCloseKeeps, LibioFreeKeeps, Zenon DEF Step
<1>3. ASSUME NEW t \in Threads, Begin(t) PROVE IInv'
  BY <1>3, SocketKeeps, CloseKeeps, TranslateKeeps, Zenon DEF Begin
<1>. QED  BY <1>1, <1>2, <1>3 DEF Next

\* The invariant holds in every state.
LEMMA IInvAlways == Spec => []IInv
BY InitIInv, NextIInv, PTL DEF Spec

\* Types are kept; in particular the mutex is never released too often.
THEOREM IoTyping == Spec => []TypeOK
<1>1. IInv => TypeOK
  BY Zenon DEF IInv
<1>. QED  BY <1>1, IInvAlways, PTL

\* An open descriptor names the lwIP socket it was made for.
THEOREM OwnSocket == Spec => []NamesOwnSocket
<1>1. IInv => NamesOwnSocket
  BY Zenon DEF IInv, LiveNames, Live, IopShape, NamesOwnSocket
<1>. QED  BY <1>1, IInvAlways, PTL

\* No lwIP socket loses its last owner.
THEOREM NothingOrphaned == Spec => []NoOrphan
<1>1. IInv => NoOrphan
  BY Zenon DEF IInv
<1>. QED  BY <1>1, IInvAlways, PTL

\* A call works on the socket its descriptor had, until somebody closes it.
THEOREM CallsHit == Spec => []CallsHitOwn
<1>1. IInv => CallsHitOwn
  BY Zenon DEF IInv, TypeOK, LiveNames, Live, Calls, CallsHitOwn, IopShape
<1>. QED  BY <1>1, IInvAlways, PTL

=============================================================================
