----------------------------- MODULE PortProofs -----------------------------
(***************************************************************************)
(* The two places where the RTEMS port takes something over from the stack *)
(* and must not lose it: the transmit path, for rings, polling limits and  *)
(* numbers of calls of any size, and whichever descriptor a restarted DMA  *)
(* begins at; and the mailboxes, for any number of threads, any size and   *)
(* any number of messages.  EthTx and Mbox have no variables in common.    *)
(***************************************************************************)
EXTENDS EthTx, Mbox, FiniteSetTheorems, TLAPS

-----------------------------------------------------------------------------
(* The transmit path. *)

\* The next index of a ring is in it.
LEMMA TxSuccType == 0 \in Ring /\ \A i \in Ring : Succ(i) \in Ring
BY TxAssumption DEF Ring, Succ

\* What a sequence that has grown by one element holds.
LEMMA Grown ==
  ASSUME NEW s \in Seq(Nat), NEW m \in Nat
  PROVE  /\ Append(s, m) \in Seq(Nat)
         /\ Len(Append(s, m)) = Len(s) + 1
         /\ \A k \in 1 .. Len(s) : Append(s, m)[k] = s[k]
         /\ Append(s, m)[Len(s) + 1] = m
OBVIOUS

\* Every step keeps the types.
LEMMA TxTypeStep == TypeOK /\ [Next]_vars => TypeOK'
<1> SUFFICES ASSUME TypeOK, [Next]_vars PROVE TypeOK'
  OBVIOUS
<1> USE TxAssumption DEF TypeOK, callVars
<1>1. CASE DmaSend
  BY <1>1, TxSuccType, Grown DEF DmaSend
<1>2. CASE DmaSuspend
  BY <1>2 DEF DmaSuspend
<1>3. CASE OutputTooLarge
  BY <1>3 DEF OutputTooLarge
<1>4. CASE Output
  BY <1>4 DEF Output
<1>5. CASE Poll
  BY <1>5 DEF Poll
<1>6. CASE WaitTimeout
  BY <1>6 DEF WaitTimeout
<1>7. CASE Submit
  BY <1>7 DEF Submit
<1>8. CASE Complete
  <2>1. late' \in BOOLEAN
    BY <1>8 DEF Complete
  <2> QED
    BY <1>8, <2>1, TxSuccType DEF Complete
<1>9. CASE LinkUp
  BY <1>9, TxSuccType DEF LinkUp
<1>10. CASE LinkDown
  BY <1>10 DEF LinkDown
<1>11. CASE UNCHANGED vars
  BY <1>11 DEF vars
<1> QED
  BY <1>1, <1>2, <1>3, <1>4, <1>5, <1>6, <1>7, <1>8, <1>9, <1>10, <1>11
  DEF Next, Dma, Running

\* TypeOK holds of every ring: in particular both indices stay in it.
THEOREM TxTyping == Spec => []TypeOK
<1>1. Init => TypeOK
  BY TxAssumption, TxSuccType DEF Init, TypeOK
<1> QED
  BY <1>1, TxTypeStep, PTL DEF Spec

-----------------------------------------------------------------------------

\* While a call runs the bounce buffer holds its frame, and when the call sees
\* its descriptor come back that frame has gone out.
SentInv ==
  /\ tx # "idle" => bounce = calls /\ calls > 0
  /\ tx = "poll" /\ ~desc[tx_desc_idx] => Sent(calls)
  /\ OkMeansSent

\* What has been sent stays sent.
LEMMA SentStays ==
  ASSUME TypeOK, DmaSend, NEW f
  PROVE  (Sent(f) => Sent(f)') /\ Sent(bounce)'
<1>1. wire \in Seq(Nat) /\ bounce \in Nat /\ wire' = Append(wire, bounce) /\ bounce' = bounce
  BY DEF TypeOK, DmaSend, callVars
<1>2. /\ Len(wire) \in Nat /\ Len(wire') = Len(wire) + 1
      /\ \A k \in 1 .. Len(wire) : wire'[k] = wire[k]
      /\ wire'[Len(wire) + 1] = bounce
  BY <1>1, Grown
<1> QED
  BY <1>1, <1>2 DEF Sent

\* Every step keeps SentInv.
LEMMA SentStep == TypeOK /\ SentInv /\ [Next]_vars => SentInv'
<1> SUFFICES ASSUME TypeOK, SentInv, [Next]_vars PROVE SentInv'
  OBVIOUS
<1> USE DEF SentInv, OkMeansSent, callVars
<1>1. CASE DmaSend
  <2>1. UNCHANGED callVars
    BY <1>1 DEF DmaSend
  <2>2. (Sent(calls) => Sent(calls)') /\ Sent(bounce)'
    BY <1>1, <2>1, SentStays
  <2>3. tx = "poll" /\ ~desc'[tx_desc_idx] => Sent(calls)'
    <3>1. CASE desc[tx_desc_idx]
      <4>1. tx = "poll" => bounce = calls
        OBVIOUS
      <4> QED
        BY <2>1, <2>2, <4>1
    <3>2. CASE ~desc[tx_desc_idx]
      BY <2>2, <3>2
    <3> QED
      BY <3>1, <3>2
  <2> QED
    BY <2>1, <2>2, <2>3
<1>2. CASE DmaSuspend
  BY <1>2 DEF DmaSuspend, Sent
<1>3. CASE OutputTooLarge
  BY <1>3 DEF OutputTooLarge
<1>4. CASE Output
  BY <1>4 DEF Output, TypeOK
<1>5. CASE Poll
  BY <1>5 DEF Poll, Sent
<1>6. CASE WaitTimeout
  BY <1>6 DEF WaitTimeout
<1>7. CASE Submit
  <2>1. desc'[tx_desc_idx] /\ tx' = "poll" /\ UNCHANGED <<tx_desc_idx, calls, bounce>>
    BY <1>7 DEF Submit, TypeOK
  <2> QED
    BY <1>7, <2>1 DEF Submit
<1>8. CASE Complete
  <2>1. tx' = "idle" /\ UNCHANGED <<calls, wire>>
    BY <1>8 DEF Complete
  <2>2. errval' = "ERR_OK" => ~desc[tx_desc_idx]
    BY <1>8 DEF Complete
  <2> QED
    BY <1>8, <2>1, <2>2 DEF Complete, Sent
<1>9. CASE LinkUp
  BY <1>9 DEF LinkUp, Sent
<1>10. CASE LinkDown
  BY <1>10 DEF LinkDown, Sent
<1>11. CASE UNCHANGED vars
  BY <1>11 DEF vars, Sent
<1> QED
  BY <1>1, <1>2, <1>3, <1>4, <1>5, <1>6, <1>7, <1>8, <1>9, <1>10, <1>11
  DEF Next, Dma, Running

\* A call that returns ERR_OK has sent its own frame, whatever timed out before
\* it and wherever the DMA restarted.
THEOREM OkIsSent == Spec => []OkMeansSent
<1>1. Init => SentInv
  BY DEF Init, SentInv, OkMeansSent
<1>2. SentInv => OkMeansSent
  BY DEF SentInv
<1> QED
  BY <1>1, <1>2, TxTyping, SentStep, PTL DEF Spec
-----------------------------------------------------------------------------

\* Until a call times out, only the call that runs has a descriptor with the
\* DMA, and what went out before is older than a frame still to be sent.
OrderInv ==
  /\ \A i \in Ring : desc[i] => tx = "poll" /\ i = tx_desc_idx
  /\ \A k \in 1 .. Len(wire) : wire[k] <= calls
  /\ tx = "wait" \/ (tx = "poll" /\ desc[tx_desc_idx])
       => \A k \in 1 .. Len(wire) : wire[k] < calls
  /\ \A j, k \in 1 .. Len(wire) : j < k => wire[j] < wire[k]

\* A step that leaves no call timed out keeps OrderInv.
LEMMA OrderStep ==
  TypeOK /\ SentInv /\ (~late => OrderInv) /\ [Next]_vars => (~late' => OrderInv')
<1> SUFFICES ASSUME TypeOK, SentInv, ~late => OrderInv, [Next]_vars, ~late'
             PROVE  OrderInv'
  OBVIOUS
<1>0. OrderInv
  BY Zenon DEF Next, Dma, Running, DmaSend, DmaSuspend, OutputTooLarge, Output, Poll,
         WaitTimeout, Submit, Complete, LinkUp, LinkDown, vars, callVars
<1>t. /\ wire \in Seq(Nat) /\ Len(wire) \in Nat /\ calls \in Nat /\ tx_desc_idx \in Ring
      /\ \A k \in 1 .. Len(wire) : wire[k] \in Nat
  BY DEF TypeOK
<1> USE <1>0, <1>t DEF OrderInv, callVars
<1>1. CASE DmaSend
  <2>1. tx = "poll" /\ hwIdx = tx_desc_idx /\ bounce = calls
    BY <1>1 DEF DmaSend, TypeOK, SentInv
  <2>2. \A i \in Ring : ~desc'[i]
    BY <1>1, <2>1 DEF DmaSend, TypeOK
  <2>3. \A k \in 1 .. Len(wire) : wire[k] < calls
    BY <1>1, <2>1 DEF DmaSend
  <2>4. wire' = Append(wire, calls) /\ UNCHANGED callVars
    BY <1>1, <2>1 DEF DmaSend
  <2>5. /\ Len(wire') = Len(wire) + 1
        /\ \A k \in 1 .. Len(wire) : wire'[k] = wire[k]
        /\ wire'[Len(wire) + 1] = calls
    BY <2>4, Grown
  <2>6. \A k \in 1 .. Len(wire') : wire'[k] <= calls
    BY <2>3, <2>5
  <2>7. ASSUME NEW j \in 1 .. Len(wire'), NEW k \in 1 .. Len(wire'), j < k
        PROVE  wire'[j] < wire'[k]
    <3>1. j \in 1 .. Len(wire) /\ wire'[j] = wire[j]
      BY <2>5, <2>7
    <3>2. CASE k \in 1 .. Len(wire)
      BY <2>5, <2>7, <3>1, <3>2
    <3>3. CASE k = Len(wire) + 1
      BY <2>3, <2>5, <3>1, <3>3
    <3> QED
      BY <2>5, <3>2, <3>3
  <2> QED
    BY <2>1, <2>2, <2>4, <2>6, <2>7
<1>2. CASE DmaSuspend
  BY <1>2 DEF DmaSuspend
<1>3. CASE OutputTooLarge
  BY <1>3 DEF OutputTooLarge
<1>4. CASE Output
  BY <1>4 DEF Output
<1>5. CASE Poll
  BY <1>5 DEF Poll
<1>6. CASE WaitTimeout
  BY <1>6 DEF WaitTimeout
<1>7. CASE Submit
  BY <1>7 DEF Submit, TypeOK
<1>8. CASE Complete
  <2>1. ~desc[tx_desc_idx]
    BY <1>8, Zenon DEF Complete
  <2> QED
    BY <1>8, <2>1 DEF Complete
<1>9. CASE LinkUp
  BY <1>9 DEF LinkUp
<1>10. CASE LinkDown
  BY <1>10 DEF LinkDown
<1>11. CASE UNCHANGED vars
  BY <1>11 DEF vars
<1> QED
  BY <1>1, <1>2, <1>3, <1>4, <1>5, <1>6, <1>7, <1>8, <1>9, <1>10, <1>11
  DEF Next, Dma, Running

\* Without time-outs no frame is sent twice or out of order, on any ring.
THEOREM SendingInOrder == Spec => []SentInOrder
<1>1. Init => SentInv /\ (~late => OrderInv)
  BY DEF Init, SentInv, OkMeansSent, OrderInv
<1>2. (~late => OrderInv) => SentInOrder
  BY DEF OrderInv, SentInOrder
<1> QED
  BY <1>1, <1>2, TxTyping, SentStep, OrderStep, PTL DEF Spec
-----------------------------------------------------------------------------

\* Where low_level_output puts the next frame.
TxNext == IF tx = "poll" THEN Succ(tx_desc_idx) ELSE tx_desc_idx

\* How far past the DMA a descriptor lies, without the modulus.
Ahead(i) == IF i >= hwIdx THEN i - hwIdx ELSE i - hwIdx + N

\* TxInStep descriptor by descriptor: the n next ones are the DMA's.
TxRun(n) ==
  /\ TxNext = IF hwIdx + n < N THEN hwIdx + n ELSE hwIdx + n - N
  /\ \A i \in Ring : desc[i] <=> Ahead(i) < n

\* An index up to N past one of the ring wraps at most once.
LEMMA TxWraps ==
  ASSUME NEW i \in Ring, NEW k \in 0 .. N
  PROVE  (i + k) % N = IF i + k < N THEN i + k ELSE i + k - N
<1>1. i \in Nat /\ k \in Nat /\ i + k < N + N /\ N \in Nat \ {0}
  BY TxAssumption DEF Ring
<1>2. CASE i + k < N
  BY <1>1, <1>2
<1>3. CASE i + k >= N
  <2>1. i + k - N \in 0 .. N - 1 /\ i + k = N * 1 + (i + k - N)
    BY <1>1, <1>3
  <2> QED
    BY <1>1, <1>3, <2>1
<1> QED
  BY <1>1, <1>2, <1>3

\* The successor of an index, without the modulus.
LEMMA TxSuccWraps ==
  ASSUME NEW i \in Ring
  PROVE  Succ(i) = IF i + 1 < N THEN i + 1 ELSE 0
<1>1. 1 \in 0 .. N /\ i \in Nat /\ i < N /\ N \in Nat
  BY TxAssumption DEF Ring
<1>2. Succ(i) = IF i + 1 < N THEN i + 1 ELSE i + 1 - N
  BY <1>1, TxWraps DEF Succ
<1> QED
  BY <1>1, <1>2

\* Both forms of the invariant say the same.
LEMMA TxRunIsInStep == TypeOK => (TxInStep <=> \E n \in 0 .. N : TxRun(n))
<1> SUFFICES ASSUME TypeOK, NEW n \in 0 .. N
             PROVE  /\ TxNext = (hwIdx + n) % N
                    /\ \A k \in 0 .. N - 1 : desc[(hwIdx + k) % N] = (k < n)
                    <=> TxRun(n)
  BY DEF TxInStep, TxNext
<1>1. hwIdx \in Ring /\ N \in Nat \ {0} /\ desc \in [Ring -> BOOLEAN]
  BY TxAssumption DEF TypeOK
<1>2. (hwIdx + n) % N = IF hwIdx + n < N THEN hwIdx + n ELSE hwIdx + n - N
  BY <1>1, TxWraps
<1>3. ASSUME NEW k \in 0 .. N - 1
      PROVE  (hwIdx + k) % N \in Ring /\ Ahead((hwIdx + k) % N) = k
  <2>1. (hwIdx + k) % N = IF hwIdx + k < N THEN hwIdx + k ELSE hwIdx + k - N
    BY <1>1, TxWraps
  <2> QED
    BY <1>1, <2>1 DEF Ahead, Ring
<1>4. ASSUME NEW i \in Ring
      PROVE  Ahead(i) \in 0 .. N - 1 /\ (hwIdx + Ahead(i)) % N = i
  <2>1. Ahead(i) \in 0 .. N - 1
    BY <1>1 DEF Ahead, Ring
  <2>2. (hwIdx + Ahead(i)) % N
        = IF hwIdx + Ahead(i) < N THEN hwIdx + Ahead(i) ELSE hwIdx + Ahead(i) - N
    BY <1>1, <2>1, TxWraps
  <2> QED
    BY <1>1, <2>1, <2>2 DEF Ahead, Ring
<1>5. \A i \in Ring : desc[i] \in BOOLEAN
  BY <1>1
<1>6. (\A k \in 0 .. N - 1 : desc[(hwIdx + k) % N] = (k < n))
      => \A i \in Ring : desc[i] <=> Ahead(i) < n
  BY <1>4, <1>5
<1>7. (\A i \in Ring : desc[i] <=> Ahead(i) < n)
      => \A k \in 0 .. N - 1 : desc[(hwIdx + k) % N] = (k < n)
  <2> SUFFICES ASSUME \A i \in Ring : desc[i] <=> Ahead(i) < n, NEW k \in 0 .. N - 1
               PROVE  desc[(hwIdx + k) % N] = (k < n)
    OBVIOUS
  <2>1. desc[(hwIdx + k) % N] <=> k < n
    BY <1>3
  <2>2. desc[(hwIdx + k) % N] \in BOOLEAN
    BY <1>3, <1>5
  <2> QED
    BY <2>1, <2>2
<1> QED
  BY <1>2, <1>6, <1>7 DEF TxRun

\* Every step keeps software and DMA in step, if a restarted DMA goes on where
\* it stopped: sending takes the first descriptor of the run, submitting adds
\* one behind the last.
LEMMA TxRunStep ==
  ASSUME ~RestartsAtBase, TypeOK, [Next]_vars, NEW n \in 0 .. N, TxRun(n)
  PROVE  \E m \in 0 .. N : TxRun(m)'
<1>0. TypeOK'
  BY TxTypeStep
<1>t. /\ N \in Nat \ {0} /\ hwIdx \in 0 .. N - 1 /\ tx_desc_idx \in 0 .. N - 1
      /\ desc \in [0 .. N - 1 -> BOOLEAN] /\ tx \in {"idle", "wait", "poll"}
      /\ \A i \in Ring : Succ(i) = IF i + 1 < N THEN i + 1 ELSE 0
  BY TxAssumption, TxSuccWraps DEF TypeOK, Ring
<1>s. UNCHANGED <<desc, hwIdx>> /\ TxNext' = TxNext => TxRun(n)'
  BY DEF TxRun, Ahead
<1> USE DEF callVars, TxNext
<1>1. CASE DmaSend
  <2>1. /\ desc[hwIdx] /\ hwIdx' = IF hwIdx + 1 < N THEN hwIdx + 1 ELSE 0
        /\ desc' = [desc EXCEPT ![hwIdx] = FALSE] /\ TxNext' = TxNext
    BY <1>1, <1>t DEF DmaSend, Ring
  <2>2. n > 0
    BY <1>t, <2>1 DEF TxRun, Ahead, Ring
  <2>3. n - 1 \in 0 .. N
    BY <1>t, <2>2
  <2>4. TxNext' = IF hwIdx' + (n - 1) < N THEN hwIdx' + (n - 1) ELSE hwIdx' + (n - 1) - N
    BY <1>t, <2>1, <2>2 DEF TxRun
  <2>5. ASSUME NEW i \in Ring PROVE desc'[i] <=> Ahead(i)' < n - 1
    <3>1. CASE i = hwIdx
      BY <1>t, <2>1, <2>2, <3>1 DEF Ahead, Ring
    <3>2. CASE i # hwIdx
      <4>1. Ahead(i)' = Ahead(i) - 1 /\ Ahead(i) \in Int
        BY <1>t, <2>1, <3>2 DEF Ahead, Ring
      <4>2. desc'[i] <=> desc[i]
        BY <1>t, <2>1, <3>2 DEF Ring
      <4>3. desc[i] <=> Ahead(i) < n
        BY DEF TxRun
      <4> QED
        BY <4>1, <4>2, <4>3
    <3> QED
      BY <3>1, <3>2
  <2>6. TxRun(n - 1)'
    BY <2>4, <2>5 DEF TxRun
  <2> QED
    BY <2>3, <2>6
<1>2. CASE Submit
  <2>1. /\ ~desc[tx_desc_idx] /\ hwIdx' = hwIdx /\ TxNext = tx_desc_idx
        /\ desc' = [desc EXCEPT ![tx_desc_idx] = TRUE]
        /\ TxNext' = IF tx_desc_idx + 1 < N THEN tx_desc_idx + 1 ELSE 0
    BY <1>2, <1>t DEF Submit, Ring
  <2>2. n < N
    BY <1>t, <2>1 DEF TxRun, Ahead, Ring
  <2>3. n + 1 \in 0 .. N
    BY <1>t, <2>2
  <2>4. TxNext' = IF hwIdx' + (n + 1) < N THEN hwIdx' + (n + 1) ELSE hwIdx' + (n + 1) - N
    BY <1>t, <2>1, <2>2 DEF TxRun
  <2>5. ASSUME NEW i \in Ring PROVE desc'[i] <=> Ahead(i)' < n + 1
    <3>1. Ahead(i)' = Ahead(i) /\ Ahead(i) \in Int
      BY <1>t, <2>1 DEF Ahead, Ring
    <3>2. Ahead(i) = n <=> i = tx_desc_idx
      BY <1>t, <2>1, <2>2 DEF TxRun, Ahead, Ring
    <3>3. desc[i] <=> Ahead(i) < n
      BY DEF TxRun
    <3>4. desc'[i] <=> (desc[i] \/ i = tx_desc_idx)
      BY <1>t, <2>1 DEF Ring
    <3> QED
      BY <3>1, <3>2, <3>3, <3>4
  <2>6. TxRun(n + 1)'
    BY <2>4, <2>5 DEF TxRun
  <2> QED
    BY <2>3, <2>6
<1>3. CASE DmaSuspend \/ OutputTooLarge \/ Poll \/ Output \/ WaitTimeout
  BY <1>3, <1>s DEF DmaSuspend, OutputTooLarge, Poll, Output, WaitTimeout
<1>4. CASE Complete \/ LinkUp \/ LinkDown
  BY <1>4, <1>s DEF Complete, LinkUp, LinkDown
<1>5. CASE UNCHANGED vars
  BY <1>5, <1>s DEF vars
<1> QED
  BY <1>1, <1>2, <1>3, <1>4, <1>5 DEF Next, Dma, Running

\* Software and DMA stay in step on a ring of any size, after any number of
\* time-outs and link changes, if a restarted DMA goes on where it stopped.
THEOREM TxStaysInStep ==
  ASSUME ~RestartsAtBase
  PROVE  Spec => []TxInStep
<1> DEFINE Inv == \E n \in 0 .. N : TxRun(n)
<1>1. Init => Inv
  <2> SUFFICES ASSUME Init PROVE TxRun(0)
    BY TxAssumption
  <2> QED
    BY TxAssumption DEF Init, TxRun, TxNext, Ahead, Ring
<1>2. TypeOK /\ Inv /\ [Next]_vars => Inv'
  <2> SUFFICES ASSUME TypeOK, [Next]_vars, NEW n \in 0 .. N, TxRun(n) PROVE Inv'
    OBVIOUS
  <2>1. \E m \in 0 .. N : TxRun(m)'
    BY TxRunStep
  <2> QED
    BY <2>1
<1>3. TypeOK /\ Inv => TxInStep
  BY TxRunIsInStep
<1> HIDE DEF Inv
<1> QED
  BY <1>1, <1>2, <1>3, TxTyping, PTL DEF Spec

-----------------------------------------------------------------------------
(* The mailboxes. *)

\* A thread that posts has a message of its own, one thread at most frees the
\* mailbox, and a mailbox that does not exist is empty.
MboxTypeInv ==
  /\ MboxTypeOK
  /\ posts <= MaxPosts
  /\ \A t \in Threads : pc[t] \in {"post", "send"} => msg[t] \in 1 .. MaxPosts
  /\ life # "live" => queue = <<>>
  /\ \A t \in Threads : pc[t] = "free" => life = "half"
  /\ \A t, u \in Threads : pc[t] = "free" /\ pc[u] = "free" => t = u
  /\ life = "none" => \A t \in Threads : pc[t] = "idle"

\* The parts of a sequence of numbers that is not empty.
LEMMA HeadTailType ==
  ASSUME NEW s \in Seq(Nat), s # <<>>
  PROVE  Head(s) \in Nat /\ Tail(s) \in Seq(Nat) /\ Len(Tail(s)) = Len(s) - 1
  OBVIOUS

\* A post gives its thread a message of its own.
LEMMA NextMessageType ==
  ASSUME MboxTypeInv, NEW t \in Threads, NextMessage(t)
  PROVE  /\ posts' \in 1 .. MaxPosts
         /\ msg' \in [Threads -> Nat]
         /\ msg'[t] \in 1 .. MaxPosts
         /\ \A u \in Threads \ {t} : msg'[u] = msg[u]
  BY MboxAssumption DEF MboxTypeInv, MboxTypeOK, NextMessage

\* The invariant holds initially.
LEMMA MboxTypeInit == MboxInit => MboxTypeInv
  BY MboxAssumption, SMTT(30) DEF MboxInit, MboxTypeInv, MboxTypeOK, PCs

\* Every step keeps it.
LEMMA MboxTypeStep == MboxTypeInv /\ [MboxNext]_mboxVars => MboxTypeInv'
<1> SUFFICES ASSUME MboxTypeInv, [MboxNext]_mboxVars PROVE MboxTypeInv'
  OBVIOUS
<1> USE MboxAssumption
    DEF MboxTypeInv, MboxTypeOK, PCs, Goto, Return, HasSem, HasQueue
<1>1. CASE New
  BY <1>1 DEF New
<1>2. ASSUME NEW t \in Posters, Post(t) PROVE MboxTypeInv'
  <2>1. t \in Threads /\ NextMessage(t)
    BY <1>2 DEF Post, Threads
  <2>2. /\ posts' \in 1 .. MaxPosts /\ msg' \in [Threads -> Nat]
        /\ \A u \in Threads : u = t \/ pc[u] \in {"post", "send"}
                              => msg'[u] \in 1 .. MaxPosts
    BY <2>1, NextMessageType
  <2>3. pc' \in [Threads -> PCs] /\ sem' \in Nat /\ posts' \in Nat
    BY <1>2, <2>1, <2>2 DEF Post
  <2>4. \A u \in Threads : pc'[u] \in {"post", "send"} => msg'[u] \in 1 .. MaxPosts
    BY <1>2, <2>1, <2>2 DEF Post
  <2> QED
    BY <1>2, <2>1, <2>2, <2>3, <2>4 DEF Post
<1>3. ASSUME NEW t \in Posters, TryPost(t) PROVE MboxTypeInv'
  <2>1. t \in Threads /\ NextMessage(t)
    BY <1>3 DEF TryPost, Threads
  <2>2. /\ posts' \in 1 .. MaxPosts /\ msg' \in [Threads -> Nat]
        /\ \A u \in Threads : u = t \/ pc[u] \in {"post", "send"}
                              => msg'[u] \in 1 .. MaxPosts
    BY <2>1, NextMessageType
  <2>3. CASE HasSem /\ sem > 0
    <3>1. pc' = [pc EXCEPT ![t] = "send"] /\ sem' = sem - 1
      BY <1>3, <2>3 DEF TryPost
    <3>2. sem' \in Nat /\ posts' \in Nat /\ UNCHANGED <<life, queue, status, put, got>>
      BY <1>3, <2>2, <2>3, <3>1 DEF TryPost
    <3> QED
      BY <1>3, <2>1, <2>2, <2>3, <3>1, <3>2
  <2>4. CASE ~(HasSem /\ sem > 0)
    <3>1. /\ pc[t] = "idle" /\ pc' = [pc EXCEPT ![t] = "idle"]
          /\ status' = [status EXCEPT ![t] = "ERR_MEM"]
          /\ posts' \in Nat
          /\ UNCHANGED <<life, queue, sem, put, got>>
      BY <1>3, <2>2, <2>4 DEF TryPost
    <3> QED
      BY <2>1, <2>2, <2>4, <3>1
  <2> QED
    BY <2>3, <2>4, SMTT(30)
<1>4. ASSUME NEW t \in Threads, Obtain(t) PROVE MboxTypeInv'
  BY <1>4 DEF Obtain
<1>5. ASSUME NEW t \in Threads, Send(t) PROVE MboxTypeInv'
  BY <1>5 DEF Send
<1>6. ASSUME NEW t \in Fetchers, Fetch(t) PROVE MboxTypeInv'
  BY <1>6 DEF Fetch, Threads
<1>7. ASSUME NEW t \in Threads, Receive(t) PROVE MboxTypeInv'
  <2>1. queue # <<>> /\ HasQueue
    BY <1>7 DEF Receive, TakeHead
  <2>2. Head(queue) \in Nat /\ Tail(queue) \in Seq(Nat)
    BY <2>1, HeadTailType
  <2>3. queue' \in Seq(Nat) /\ got' \in Seq(Nat)
    BY <1>7, <2>2 DEF Receive, TakeHead
  <2> QED
    BY <1>7, <2>1, <2>3 DEF Receive
<1>8. ASSUME NEW t \in Threads, FetchFails(t) PROVE MboxTypeInv'
  BY <1>8 DEF FetchFails
<1>9. ASSUME NEW t \in Fetchers, TryFetch(t) PROVE MboxTypeInv'
  <2>1. CASE TakeHead
    <3>1. queue # <<>> /\ HasQueue
      BY <2>1 DEF TakeHead
    <3>2. Head(queue) \in Nat /\ Tail(queue) \in Seq(Nat)
      BY <3>1, HeadTailType
    <3>3. queue' \in Seq(Nat) /\ got' \in Seq(Nat)
      BY <2>1, <3>2 DEF TakeHead
    <3> QED
      BY <1>9, <3>1, <3>3, ZenonT(30) DEF TryFetch, Threads
  <2>2. CASE UNCHANGED <<queue, got>>
    BY <1>9, <2>2, ZenonT(30) DEF TryFetch, Threads
  <2> QED
    BY <1>9, <2>1, <2>2 DEF TryFetch
<1>10. ASSUME NEW t \in Threads, Release(t) PROVE MboxTypeInv'
  BY <1>10 DEF Release
<1>11. ASSUME NEW t \in Fetchers, Free(t) PROVE MboxTypeInv'
  <2>1. t \in Threads
    BY DEF Threads
  <2>2. queue' = <<>> /\ life' \in {"half", "freed"}
    BY <1>11, <2>1 DEF Free
  <2>3. pc' \in [Threads -> PCs] /\ queue' \in Seq(Nat)
    BY <1>11, <2>1, <2>2 DEF Free
  <2> QED
    BY <1>11, <2>1, <2>2, <2>3, ZenonT(30) DEF Free
<1>12. CASE UNCHANGED mboxVars
  BY <1>12 DEF mboxVars
<1> QED
  BY <1>1, <1>2, <1>3, <1>4, <1>5, <1>6, <1>7, <1>8, <1>9, <1>10, <1>11, <1>12, SMTT(30)
  DEF MboxNext, Kernel

\* The invariant holds always.
LEMMA MboxTypeInvariant == MboxSpec => []MboxTypeInv
  BY MboxTypeInit, MboxTypeStep, PTL DEF MboxSpec
-----------------------------------------------------------------------------

\* The threads at a place can be counted.
LEMMA AtFinite == \A s : IsFiniteSet(At(s)) /\ Cardinality(At(s)) \in Nat
<1> TAKE s
<1>1. IsFiniteSet(Threads)
  BY MboxAssumption, FS_Union, ZenonT(30) DEF Threads
<1>2. At(s) \in SUBSET Threads
  BY DEF At
<1> QED
  BY <1>1, <1>2, FS_Subset, FS_CardinalityType

\* A thread that moves changes the count of the place it leaves and of the one
\* it comes to, and no other.
LEMMA AtMove ==
  ASSUME MboxTypeInv, NEW t \in Threads, NEW to, pc[t] # to,
         pc' = [pc EXCEPT ![t] = to], NEW s
  PROVE  Cardinality(At(s)') = IF s = to THEN Cardinality(At(s)) + 1
                               ELSE IF s = pc[t] THEN Cardinality(At(s)) - 1
                               ELSE Cardinality(At(s))
<1> USE AtFinite DEF MboxTypeInv, MboxTypeOK
<1>1. CASE s = to
  <2>1. At(s)' = At(s) \cup {t} /\ t \notin At(s)
    BY <1>1 DEF At
  <2> QED
    BY <1>1, <2>1, FS_AddElement, ZenonT(30)
<1>2. CASE s # to /\ s = pc[t]
  <2>1. At(s)' = At(s) \ {t} /\ t \in At(s)
    BY <1>2 DEF At
  <2> QED
    BY <1>2, <2>1, FS_RemoveElement, ZenonT(30)
<1>3. CASE s # to /\ s # pc[t]
  <2>1. At(s)' = At(s)
    BY <1>3 DEF At
  <2> QED
    BY <1>3, <2>1
<1> QED
  BY <1>1, <1>2, <1>3

\* Every step keeps the account of the slots.
LEMMA SlotsStep == MboxTypeInv /\ SlotsAccounted /\ [MboxNext]_mboxVars => SlotsAccounted'
<1> SUFFICES ASSUME MboxTypeInv, SlotsAccounted, [MboxNext]_mboxVars, life' = "live"
             PROVE  sem' + Cardinality(At("send")') + Len(queue')
                      + Cardinality(At("release")') = Size
  BY DEF SlotsAccounted
<1>0. /\ sem \in Nat /\ queue \in Seq(Nat) /\ Len(queue) \in Nat
      /\ Size \in Nat
      /\ Cardinality(At("send")) \in Nat /\ Cardinality(At("release")) \in Nat
  BY AtFinite, MboxAssumption DEF MboxTypeInv, MboxTypeOK
<1>a. \A t \in Threads : \A from, to :
        Goto(t, from, to) /\ from # to =>
          /\ from = "send" => Cardinality(At("send"))' = Cardinality(At("send")) - 1
          /\ to = "send" => Cardinality(At("send"))' = Cardinality(At("send")) + 1
          /\ "send" \notin {from, to} => Cardinality(At("send"))' = Cardinality(At("send"))
          /\ from = "release" => Cardinality(At("release"))' = Cardinality(At("release")) - 1
          /\ to = "release" => Cardinality(At("release"))' = Cardinality(At("release")) + 1
          /\ "release" \notin {from, to} => Cardinality(At("release"))' = Cardinality(At("release"))
  <2> TAKE t \in Threads
  <2> TAKE from, to
  <2> HAVE Goto(t, from, to) /\ from # to
  <2>1. pc[t] = from /\ pc[t] # to /\ pc' = [pc EXCEPT ![t] = to]
    BY DEF Goto
  <2>2. Cardinality(At("send")') = IF "send" = to THEN Cardinality(At("send")) + 1
                                  ELSE IF "send" = pc[t] THEN Cardinality(At("send")) - 1
                                  ELSE Cardinality(At("send"))
    BY <2>1, AtMove, ZenonT(30)
  <2>3. Cardinality(At("release")') = IF "release" = to THEN Cardinality(At("release")) + 1
                                  ELSE IF "release" = pc[t] THEN Cardinality(At("release")) - 1
                                  ELSE Cardinality(At("release"))
    BY <2>1, AtMove, ZenonT(30)
  <2> QED
    BY <2>1, <2>2, <2>3
<1> USE <1>0 DEF SlotsAccounted, Return, HasSem, HasQueue
<1>1. CASE New
  <2>1. At("send") = {} /\ At("release") = {}
    BY <1>1 DEF New, MboxTypeInv, At
  <2>2. At("send")' = {} /\ At("release")' = {}
    BY <1>1, <2>1 DEF New, At
  <2>3. Cardinality(At("send")') = 0 /\ Cardinality(At("release")') = 0
    BY <2>2, FS_EmptySet, ZenonT(30)
  <2>4. sem' = Size /\ Len(queue') = 0
    BY <1>1 DEF New
  <2> QED
    BY <2>3, <2>4
<1>2. ASSUME NEW t \in Posters, Post(t) PROVE SlotsAccounted'
  <2>1. t \in Threads
    BY DEF Threads
  <2> QED
    BY <1>2, <2>1, <1>a DEF Post
<1>3. ASSUME NEW t \in Posters, TryPost(t) PROVE SlotsAccounted'
  <2>1. t \in Threads
    BY DEF Threads
  <2>2. CASE HasSem /\ sem > 0
    <3>1. Goto(t, "idle", "send")
      BY <1>3, <2>2 DEF TryPost
    <3> QED
      BY <1>3, <2>1, <2>2, <3>1, <1>a, SMTT(30) DEF TryPost
  <2>3. CASE ~(HasSem /\ sem > 0)
    <3>1. pc' = pc
      BY <1>3, <2>1, <2>3 DEF TryPost, Goto, MboxTypeInv, MboxTypeOK
    <3> QED
      BY <1>3, <2>3, <3>1 DEF TryPost, At
  <2> QED
    BY <2>2, <2>3
<1>4. ASSUME NEW t \in Threads, Obtain(t) PROVE SlotsAccounted'
  BY <1>4, <1>a, SMTT(30) DEF Obtain
<1>5. ASSUME NEW t \in Threads, Send(t) PROVE SlotsAccounted'
  <2>1. /\ Cardinality(At("send"))' = Cardinality(At("send")) - 1
        /\ Cardinality(At("release"))' = Cardinality(At("release"))
    BY <1>5, <1>a, SMTT(30) DEF Send
  <2>2. Cardinality(At("send")) > 0
    <3>1. At("send") # {}
      BY <1>5 DEF Send, Goto, At
    <3> QED
      BY <3>1, AtFinite, FS_EmptySet
  <2>3. Len(queue) < Size
    BY <1>5, <2>2 DEF Send
  <2>4. msg[t] \in Nat /\ queue' = Append(queue, msg[t])
    BY <1>5, <2>3 DEF Send, MboxTypeInv, MboxTypeOK
  <2>5. Len(queue') = Len(queue) + 1
    BY <2>4
  <2> QED
    BY <1>5, <2>1, <2>5 DEF Send
<1>6. ASSUME NEW t \in Fetchers, Fetch(t) PROVE SlotsAccounted'
  <2>1. t \in Threads
    BY DEF Threads
  <2> QED
    BY <1>6, <2>1, <1>a DEF Fetch
<1>7. ASSUME NEW t \in Threads, Receive(t) PROVE SlotsAccounted'
  <2>1. queue # <<>> /\ queue' = Tail(queue)
    BY <1>7 DEF Receive, TakeHead
  <2>2. Len(queue') = Len(queue) - 1
    BY <2>1, HeadTailType
  <2> QED
    <3>1. /\ Cardinality(At("send"))' = Cardinality(At("send"))
          /\ Cardinality(At("release"))' = Cardinality(At("release")) + 1
      BY <1>7, <1>a DEF Receive
    <3>2. sem' = sem /\ life' = life
      BY <1>7 DEF Receive
    <3> QED
      BY <2>2, <3>1, <3>2
<1>8. ASSUME NEW t \in Threads, FetchFails(t) PROVE SlotsAccounted'
  BY <1>8, <1>a DEF FetchFails
<1>9. ASSUME NEW t \in Fetchers, TryFetch(t) PROVE SlotsAccounted'
  <2>1. t \in Threads
    BY DEF Threads
  <2>2. CASE TakeHead /\ Goto(t, "idle", "release")
    <3>1. queue # <<>> /\ queue' = Tail(queue)
      BY <2>2 DEF TakeHead
    <3>2. Len(queue') = Len(queue) - 1
      BY <3>1, HeadTailType
    <3>3. /\ Cardinality(At("send"))' = Cardinality(At("send"))
          /\ Cardinality(At("release"))' = Cardinality(At("release")) + 1
      BY <2>1, <2>2, <1>a
    <3>4. sem' = sem /\ life' = life
      BY <1>9 DEF TryFetch
    <3> QED
      BY <3>2, <3>3, <3>4
  <2>3. CASE Return(t, "idle", "SYS_MBOX_EMPTY") /\ UNCHANGED queue
    <3>1. pc' = pc
      BY <2>1, <2>3 DEF Goto, MboxTypeInv, MboxTypeOK
    <3> QED
      BY <1>9, <2>3, <3>1 DEF TryFetch, At
  <2> QED
    BY <1>9, <2>2, <2>3 DEF TryFetch
<1>10. ASSUME NEW t \in Threads, Release(t) PROVE SlotsAccounted'
  <2>1. /\ Cardinality(At("send"))' = Cardinality(At("send"))
        /\ Cardinality(At("release"))' = Cardinality(At("release")) - 1
    BY <1>10, <1>a DEF Release
  <2>2. life' = life /\ queue' = queue /\ (life = "live" => sem' = sem + 1)
    BY <1>10 DEF Release
  <2> QED
    BY <2>1, <2>2
<1>11. ASSUME NEW t \in Fetchers, Free(t) PROVE SlotsAccounted'
  BY <1>11 DEF Free
<1>12. CASE UNCHANGED mboxVars
  BY <1>12 DEF mboxVars, At
<1> QED
  BY <1>1, <1>2, <1>3, <1>4, <1>5, <1>6, <1>7, <1>8, <1>9, <1>10, <1>11, <1>12
  DEF MboxNext, Kernel

\* Semaphore and queue agree for any threads and any size.
THEOREM SlotAccounting == MboxSpec => []SlotsAccounted
<1>1. MboxInit => SlotsAccounted
  BY DEF MboxInit, SlotsAccounted
<1> QED
  BY <1>1, MboxTypeInvariant, SlotsStep, PTL DEF MboxSpec

\* MboxTypeOK holds of every mailbox.
THEOREM MboxTyping == MboxSpec => []MboxTypeOK
BY MboxTypeInvariant, PTL DEF MboxTypeInv

\* A thread with a slot finds room, in any mailbox: no message that
\* rtems_message_queue_send is given is dropped.
THEOREM NothingDropped == MboxSpec => []RoomForSenders
<1>1. MboxTypeInv /\ SlotsAccounted => RoomForSenders
  BY AtFinite, MboxAssumption DEF MboxTypeInv, MboxTypeOK, SlotsAccounted, RoomForSenders
<1> QED
  BY <1>1, MboxTypeInvariant, SlotAccounting, PTL

-----------------------------------------------------------------------------

\* The part of the state that an abstract queue has.
seen == <<life = "live", queue, put, got>>

\* A step of the mailbox is a step of the abstract queue, or none that it has.
LEMMA QueueStep ==
  MboxTypeInv /\ SlotsAccounted /\ [MboxNext]_mboxVars => Queue!Next \/ UNCHANGED seen
<1> SUFFICES ASSUME MboxTypeInv, SlotsAccounted, [MboxNext]_mboxVars
             PROVE  Queue!Next \/ UNCHANGED seen
  OBVIOUS
<1> USE DEF seen
<1>1. CASE New
  <2>1. Queue!New
    BY <1>1 DEF New, Queue!New, MboxTypeInv
  <2> QED
    BY <2>1 DEF Queue!Next
<1>2. ASSUME NEW t \in Posters, Post(t) \/ TryPost(t) PROVE UNCHANGED seen
  BY <1>2 DEF Post, TryPost
<1>3. ASSUME NEW t \in Threads, Obtain(t) \/ FetchFails(t) \/ Release(t)
      PROVE  UNCHANGED seen
  BY <1>3 DEF Obtain, FetchFails, Release
<1>4. ASSUME NEW t \in Threads, Send(t) PROVE Queue!Next
  <2>1. msg[t] \in 1 .. MaxPosts
    BY <1>4 DEF Send, Return, Goto, MboxTypeInv
  <2>2. CASE life = "live"
    <3>1. At("send") # {}
      BY <1>4 DEF Send, Return, Goto, At
    <3>2. Cardinality(At("send")) > 0
      BY <3>1, AtFinite, FS_EmptySet
    <3>3. Len(queue) < Size
      BY <2>2, <3>2, AtFinite, MboxAssumption DEF SlotsAccounted, MboxTypeInv, MboxTypeOK
    <3>4. Queue!Put(msg[t])
      BY <1>4, <2>2, <3>3 DEF Send, HasQueue, Queue!Put
    <3> QED
      BY <2>1, <3>4 DEF Queue!Next
  <2>3. CASE life # "live"
    <3>1. Queue!Lose(msg[t])
      BY <1>4, <2>3 DEF Send, HasQueue, Queue!Lose
    <3> QED
      BY <2>1, <3>1 DEF Queue!Next
  <2> QED
    BY <2>2, <2>3
<1>5. ASSUME NEW t \in Fetchers, Fetch(t) PROVE UNCHANGED seen
  BY <1>5 DEF Fetch
<1>6. ASSUME TakeHead, UNCHANGED <<life, put>> PROVE Queue!Next
  <2>1. Queue!Get
    BY <1>6 DEF TakeHead, HasQueue, Queue!Get
  <2> QED
    BY <2>1 DEF Queue!Next
<1>7. ASSUME NEW t \in Threads, Receive(t) PROVE Queue!Next
  BY <1>6, <1>7 DEF Receive
<1>8. ASSUME NEW t \in Fetchers, TryFetch(t) PROVE Queue!Next \/ UNCHANGED seen
  BY <1>6, <1>8 DEF TryFetch
<1>9. ASSUME NEW t \in Fetchers, Free(t) PROVE Queue!Next \/ UNCHANGED seen
  <2>1. CASE life = "live"
    <3>1. life' = "half" /\ queue' = <<>> /\ UNCHANGED <<put, got>>
      BY <1>9, <2>1 DEF Free, Goto, MboxTypeInv, Threads
    <3>2. Queue!Free
      BY <2>1, <3>1 DEF Queue!Free
    <3> QED
      BY <3>2 DEF Queue!Next
  <2>2. CASE life # "live"
    BY <1>9, <2>2 DEF Free
  <2> QED
    BY <2>1, <2>2
<1>10. CASE UNCHANGED mboxVars
  BY <1>10 DEF mboxVars
<1> QED
  BY <1>1, <1>2, <1>3, <1>4, <1>5, <1>7, <1>8, <1>9, <1>10 DEF MboxNext, Kernel

\* The mailbox of sys_arch.c, whoever interleaves its kernel calls, implements
\* the queue lwIP asks for.
THEOREM MboxIsQueue == MboxSpec => QueueSpec
<1>1. MboxInit => Queue!Init
  BY DEF MboxInit, Queue!Init
<1>2. MboxTypeInv /\ SlotsAccounted /\ [MboxNext]_mboxVars
        => [Queue!Next]_<<life = "live", queue, put, got>>
  BY QueueStep DEF seen
<1> QED
  BY <1>1, <1>2, MboxTypeInvariant, SlotAccounting, PTL DEF MboxSpec, QueueSpec, Queue!Spec
=============================================================================
