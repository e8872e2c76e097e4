---------------------------- MODULE EthRxProofs ----------------------------
(***************************************************************************)
(* Proofs about EthRx for a ring of any length, a pool of any size and any *)
(* number of frames and link changes.                                      *)
(***************************************************************************)
EXTENDS EthRx, FiniteSetTheorems, TLAPS

\* What the threads hold: EthIf has a pbuf only from low_level_input's look at
\* a frame to its hand-over, and has none that is NULL to hand over; EthLink
\* fills the ring only while EthIf waits.
Hands ==
  /\ input = "deliver" => p # NoBuf
  /\ input \in {"wait", "look", "recycle", "recycled"} => p = NoBuf
  /\ link = "fill" => input = "wait"

TypeInv == TypeOK /\ Hands

\* The successor of an index of the ring is an index of the ring.
LEMMA SuccType == \A i \in Ring : Succ(i) \in Ring
  BY RingAssumption DEF Ring, Succ

\* Zero is an index of the ring.
LEMMA ZeroInRing == 0 \in Ring
  BY RingAssumption DEF Ring

\* The buffer that is allocated was free.
LEMMA CandidateFree ==
  ASSUME pool \in SUBSET Buffers, NEW b \in Candidates(pool)
  PROVE  b \in pool
  BY PoolAssumption, Zenon

\* The initial state is well typed.
LEMMA TypeInit == Init => TypeInv
<1> SUFFICES ASSUME Init PROVE TypeInv
  BY Zenon
<1>1. desc \in [Ring -> Descriptors]
  BY Zenon DEF Init, Zeroed, Descriptors
<1>2. fill \in 0 .. N
  BY RingAssumption DEF Init
<1> QED
  BY <1>1, <1>2, ZeroInRing, Zenon DEF Init, TypeInv, TypeOK, Hands, InputStates

\* Every step of the receive path keeps the types and what the threads hold.
LEMMA TypeStep == TypeInv /\ [Next]_vars => TypeInv'
<1> SUFFICES ASSUME TypeInv, [Next]_vars PROVE TypeInv'
  BY Zenon
<1> USE RingAssumption, PoolAssumption, EnvAssumption, SuccType, ZeroInRing
    DEF TypeInv, TypeOK, Hands, Descriptors, InputStates,
        hwVars, drvVars, bufVars, thrVars, linkVars, envVars, histVars
<1>1. ASSUME NEW k \in Kinds, DmaReceive(k) PROVE TypeInv'
  <2>1. desc' \in [Ring -> Descriptors]
    BY <1>1 DEF DmaReceive
  <2>2. DMACSR' \in SUBSET {"RI", "TI", "RBU"} /\ hwIdx' \in Ring /\ frames' \in Nat
    BY <1>1 DEF DmaReceive
  <2> QED
    BY <1>1, <2>1, <2>2, Zenon DEF DmaReceive
<1>2. CASE DmaUnavailable
  BY <1>2 DEF DmaUnavailable
<1>3. CASE DmaTransmitted
  BY <1>3 DEF DmaTransmitted
<1>4. CASE EthInterrupt
  BY <1>4 DEF EthInterrupt, Kicked, Signals
<1>5. CASE EthIfWake
  BY <1>5 DEF EthIfWake, EthIfGoto, EthIfMayRun
<1>6. CASE LookEmpty
  BY <1>6, Zenon DEF LookEmpty, EthIfGoto, EthIfMayRun
<1>7. CASE LookSkip
  BY <1>7, Zenon DEF LookSkip, EthIfGoto, EthIfMayRun
<1>8. CASE LookFrame
  BY <1>8 DEF LookFrame, EthIfGoto, EthIfMayRun
<1>9. ASSUME NEW b \in Buffers, Refill(b) PROVE TypeInv'
  <2>1. desc' \in [Ring -> Descriptors]
    BY <1>9, Zenon DEF Refill, Ready
  <2>2. skipped' \in Nat
    BY <1>9 DEF Refill, Signals
  <2> QED
    BY <1>9, <2>1, <2>2, Zenon DEF Refill, EthIfGoto, EthIfMayRun
<1>10. CASE RefillDone
  BY <1>10, Zenon DEF RefillDone, EthIfReturn, EthIfGoto, EthIfMayRun, Kicked
<1>11. CASE RefillOom
  BY <1>11 DEF RefillOom, EthIfReturn, EthIfGoto, EthIfMayRun
<1>12. CASE Deliver
  BY <1>12, Zenon DEF Deliver, EthIfGoto, EthIfMayRun
<1>13. CASE DeliverRefused
  BY <1>13 DEF DeliverRefused, SignalIfOom, Signals, EthIfGoto, EthIfMayRun
<1>14. ASSUME NEW b \in Buffers, StackFree(b) PROVE TypeInv'
  BY <1>14 DEF StackFree
<1>15. CASE StackFreeDone
  BY <1>15 DEF StackFreeDone, SignalIfOom, Signals
<1>16. CASE LinkUp
  BY <1>16 DEF LinkUp
<1>17. ASSUME NEW b \in Buffers, LinkFill(b) PROVE TypeInv'
  <2>1. desc' \in [Ring -> Descriptors]
    BY <1>17, Zenon DEF LinkFill, Ready
  <2>2. fill' \in 0 .. N
    BY <1>17 DEF LinkFill
  <2> QED
    BY <1>17, <2>1, <2>2, Zenon DEF LinkFill
<1>18. CASE LinkFillOom
  BY <1>18 DEF LinkFillOom
<1>19. CASE LinkStart
  BY <1>19, Zenon DEF LinkStart
<1>20. CASE LinkDown
  BY <1>20, Zenon DEF LinkDown
<1>21. CASE UNCHANGED vars
  BY <1>21, ZenonT(30) DEF vars
<1> QED
  BY <1>1, <1>2, <1>3, <1>4, <1>5, <1>6, <1>7, <1>8, <1>9, <1>10, <1>11, <1>12,
     <1>13, <1>14, <1>15, <1>16, <1>17, <1>18, <1>19, <1>20, <1>21, Zenon
  DEF Next, Dma, EthIf, Stack, EthLink, EthLinkBusy

\* The types of the driver's state are invariant, for every ring and pool.
THEOREM Typing == Spec => []TypeOK
<1>1. TypeInv => TypeOK
  BY Zenon DEF TypeInv
<1> QED
  BY <1>1, TypeInit, TypeStep, PTL DEF Spec

\* TypeInv is invariant.
LEMMA TypeInvariant == Spec => []TypeInv
  BY TypeInit, TypeStep, PTL DEF Spec
-----------------------------------------------------------------------------

\* SoleOwner descriptor by descriptor, for the provers.
Apart ==
  /\ pool \cap stack = {}
  /\ p \notin pool \cup stack
  /\ \A i \in Ring : desc[i].backup # NoBuf =>
       /\ desc[i].backup \notin pool \cup stack
       /\ desc[i].backup = p => Taken(i)
  /\ \A i, j \in Ring :
       i # j /\ desc[i].backup # NoBuf => desc[i].backup # desc[j].backup

\* SoleOwner is not inductive: that a frame just taken leaves its buffer named
\* by the descriptor it came from, and by no other, is.
OwnerInv ==
  /\ TypeInv
  /\ input = "refill" /\ p # NoBuf => desc[RxDescIdx].backup = p
  /\ ~failed => Apart

\* The strengthened invariant gives the property.
LEMMA OwnerImplies == OwnerInv => SoleOwner
<1> SUFFICES ASSUME OwnerInv, ~failed
             PROVE  InRing \cap (pool \cup stack \cup {p}) = {}
  BY Zenon DEF OwnerInv, SoleOwner, Apart
<1>1. \A b \in InRing : b \notin pool \cup stack \cup {p}
  BY Zenon DEF OwnerInv, Apart, InRing
<1> QED
  BY <1>1, Zenon

\* In the initial state the ring is empty and every buffer free.
LEMMA OwnerInit == Init => OwnerInv
<1> SUFFICES ASSUME Init PROVE OwnerInv
  BY Zenon
<1>1. \A i \in Ring : desc[i].backup = NoBuf
  BY Zenon DEF Init, Zeroed
<1> QED
  BY <1>1, TypeInit, PoolAssumption, Zenon DEF Init, OwnerInv, Apart

\* Every step keeps the strengthened invariant.
LEMMA OwnerStep == OwnerInv /\ [Next]_vars => OwnerInv'
<1> SUFFICES ASSUME OwnerInv, [Next]_vars PROVE OwnerInv'
  BY Zenon
<1>0. TypeInv'
  BY TypeStep, Zenon DEF OwnerInv
<1> USE <1>0, PoolAssumption
    DEF OwnerInv, Apart, Taken, TypeInv, TypeOK, Hands,
        hwVars, drvVars, bufVars, thrVars, linkVars, envVars, histVars
<1>1. ASSUME NEW k \in Kinds, DmaReceive(k) PROVE OwnerInv'
  <2>1. \A i \in Ring : desc'[i].backup = desc[i].backup
    BY <1>1 DEF DmaReceive
  <2> QED
    BY <1>1, <2>1 DEF DmaReceive
<1>2. CASE DmaUnavailable \/ DmaTransmitted \/ EthInterrupt \/ StackFreeDone
  BY <1>2, Zenon DEF DmaUnavailable, DmaTransmitted, EthInterrupt, StackFreeDone
<1>3. CASE EthIfWake \/ LookEmpty \/ LookSkip
  BY <1>3, Zenon DEF EthIfWake, LookEmpty, LookSkip, EthIfGoto
<1>4. CASE LookFrame
  BY <1>4 DEF LookFrame, EthIfGoto
<1>5. ASSUME NEW b \in Buffers, Refill(b) PROVE OwnerInv'
  <2>1. b \in pool
    BY <1>5, CandidateFree, Zenon DEF Refill
  <2>2. \A i \in Ring : desc'[i].backup = IF i = RxDescIdx THEN b ELSE desc[i].backup
    BY <1>5 DEF Refill, Ready
  <2>3. input' # "refill" /\ pool' = pool \ {b}
    BY <1>5, Zenon DEF Refill, EthIfGoto
  <2>4. CASE ~failed
    <3>1. \A i \in Ring : i # RxDescIdx => desc[i].backup # p \/ desc[i].backup = NoBuf
      BY <2>4, Zenon
    <3>2. \A i \in Ring : desc'[i].backup # NoBuf => desc'[i].backup # p
      BY <2>1, <2>2, <2>4, <3>1, Zenon
    <3>3. \A i, j \in Ring : i # j /\ desc'[i].backup # NoBuf
                            => desc'[i].backup # desc'[j].backup
      BY <2>1, <2>2, <2>4
    <3> QED
      BY <1>5, <2>1, <2>2, <2>3, <2>4, <3>2, <3>3 DEF Refill
  <2> QED
    BY <1>5, <2>3, <2>4, Zenon DEF Refill
<1>6. CASE RefillDone
  BY <1>6, Zenon DEF RefillDone, EthIfReturn, EthIfGoto
<1>7. CASE RefillOom
  BY <1>7, Zenon DEF RefillOom, EthIfReturn, EthIfGoto
<1>8. CASE Deliver
  BY <1>8 DEF Deliver, EthIfGoto
<1>9. CASE DeliverRefused
  BY <1>9 DEF DeliverRefused, EthIfGoto
<1>10. ASSUME NEW b \in Buffers, StackFree(b) PROVE OwnerInv'
  BY <1>10 DEF StackFree, StackMayRun
<1>11. CASE LinkUp
  BY <1>11, Zenon DEF LinkUp
<1>12. ASSUME NEW b \in Buffers, LinkFill(b) PROVE OwnerInv'
  <2>1. b \in pool /\ input = "wait" /\ p = NoBuf
    BY <1>12, CandidateFree, Zenon DEF LinkFill
  <2>2. \A i \in Ring : desc'[i].backup = IF i = fill THEN b ELSE desc[i].backup
    BY <1>12 DEF LinkFill, Ready
  <2> QED
    BY <1>12, <2>1, <2>2 DEF LinkFill
<1>13. CASE LinkFillOom
  BY <1>13, Zenon DEF LinkFillOom
<1>14. CASE LinkStart
  BY <1>14, Zenon DEF LinkStart
<1>15. CASE LinkDown
  BY <1>15, Zenon DEF LinkDown
<1>16. CASE UNCHANGED vars
  BY <1>16, Zenon DEF vars
<1> QED
  BY <1>1, <1>2, <1>3, <1>4, <1>5, <1>6, <1>7, <1>8, <1>9, <1>10, <1>11, <1>12,
     <1>13, <1>14, <1>15, <1>16, Zenon
  DEF Next, Dma, EthIf, Stack, EthLink, EthLinkBusy

\* Zero copy is safe for every ring and pool: until an allocation fails, each
\* buffer is in one place only.
THEOREM SoleOwnership == Spec => []SoleOwner
  BY OwnerInit, OwnerStep, OwnerImplies, PTL DEF Spec
-----------------------------------------------------------------------------

\* A descriptor that was ever given to the DMA has a buffer.
Backed ==
  \A i \in Ring : desc[i].own \/ desc[i].kind # "none" => desc[i].backup # NoBuf

\* Every step keeps it: a failed allocation leaves the old buffer.
LEMMA BackedStep == TypeInv /\ Backed /\ [Next]_vars => Backed'
<1> SUFFICES ASSUME TypeInv, Backed, [Next]_vars PROVE Backed'
  BY Zenon
<1> USE PoolAssumption DEF TypeInv, TypeOK, Backed, hwVars
<1>1. ASSUME NEW k \in Kinds, DmaReceive(k) PROVE Backed'
  BY <1>1, Zenon DEF DmaReceive
<1>2. ASSUME NEW b \in Buffers, Refill(b) PROVE Backed'
  BY <1>2, Zenon DEF Refill, Ready
<1>3. ASSUME NEW b \in Buffers, LinkFill(b) PROVE Backed'
  BY <1>3, Zenon DEF LinkFill, Ready
<1>4. CASE UNCHANGED desc
  BY <1>4, Zenon
<1> QED
  BY <1>1, <1>2, <1>3, <1>4, Zenon
  DEF Next, Dma, EthIf, Stack, EthLink, EthLinkBusy, vars, DmaUnavailable,
      DmaTransmitted, EthInterrupt, EthIfWake, LookEmpty, LookSkip, LookFrame,
      RefillDone, RefillOom, Deliver, DeliverRefused, StackFree, StackFreeDone,
      LinkUp, LinkFillOom, LinkStart, LinkDown

\* low_level_input never meets a frame without a backup pointer, however often
\* allocations fail.
THEOREM LoopHasExit == Spec => []NoEndlessLoop
<1>1. Init => Backed
  BY DEF Init, Backed, Zeroed
<1>2. TypeInv /\ Backed => NoEndlessLoop
  BY Zenon DEF TypeInv, TypeOK, Backed, NoEndlessLoop
<1> QED
  BY <1>1, <1>2, TypeInvariant, BackedStep, PTL DEF Spec

-----------------------------------------------------------------------------

\* The strengthening of NoSleepOnFrame: without giants a frame always comes
\* with a pbuf, and while no allocation fails EthLink leaves no gap and the
\* DMA, stopped, makes none.
WakeInv ==
  /\ link # "up" => dma = "stopped"
  /\ \A i \in Ring : desc[i].kind # "giant"
  /\ input \in {"refill", "refilled"} => p # NoBuf
  /\ link = "fill" /\ ~failed => \A i \in Ring : i < fill => desc[i].own
  /\ NoSleepOnFrame

\* Every step keeps it, if no frame is too long for its pbuf.
LEMMA WakeStep ==
  ASSUME "giant" \notin Kinds
  PROVE  TypeInv /\ WakeInv /\ [Next]_vars => WakeInv'
<1> SUFFICES ASSUME TypeInv, WakeInv, [Next]_vars PROVE WakeInv'
  BY Zenon
<1>0. TypeInv'
  BY TypeStep, Zenon
<1> USE <1>0, PoolAssumption, RingAssumption
    DEF TypeInv, TypeOK, Hands, WakeInv, NoSleepOnFrame, Ring,
        hwVars, drvVars, bufVars, thrVars, linkVars, envVars, histVars
<1>1. ASSUME NEW k \in Kinds, DmaReceive(k) PROVE WakeInv'
  BY <1>1 DEF DmaReceive
<1>2. CASE DmaUnavailable \/ DmaTransmitted
  BY <1>2, Zenon DEF DmaUnavailable, DmaTransmitted
<1>3. CASE EthInterrupt
  BY <1>3 DEF EthInterrupt, Signals, Kicked
<1>4. CASE EthIfWake \/ LookEmpty \/ LookSkip
  BY <1>4, Zenon DEF EthIfWake, LookEmpty, LookSkip, EthIfGoto, EthIfMayRun
<1>5. CASE LookFrame
  BY <1>5 DEF LookFrame, EthIfGoto, EthIfMayRun
<1>6. ASSUME NEW b \in Buffers, Refill(b) PROVE WakeInv'
  BY <1>6 DEF Refill, Ready, EthIfGoto, EthIfMayRun
<1>7. CASE RefillDone \/ RefillOom
  BY <1>7, Zenon DEF RefillDone, RefillOom, EthIfReturn, EthIfGoto, EthIfMayRun, Kicked
<1>8. CASE Deliver \/ DeliverRefused
  BY <1>8, Zenon DEF Deliver, DeliverRefused, SignalIfOom, EthIfGoto, EthIfMayRun
<1>9. ASSUME NEW b \in Buffers, StackFree(b) PROVE WakeInv'
  BY <1>9, Zenon DEF StackFree
<1>10. CASE StackFreeDone
  BY <1>10 DEF StackFreeDone, SignalIfOom, Signals
<1>11. CASE LinkUp
  BY <1>11 DEF LinkUp
<1>12. ASSUME NEW b \in Buffers, LinkFill(b) PROVE WakeInv'
  BY <1>12 DEF LinkFill, Ready
<1>13. CASE LinkFillOom
  BY <1>13, Zenon DEF LinkFillOom
<1>14. CASE LinkStart
  <2>1. ~failed => desc[RxDescIdx].own
    BY <1>14 DEF LinkStart
  <2>2. ~failed' => desc'[RxDescIdx'].own
    BY <1>14, <2>1, Zenon DEF LinkStart
  <2> QED
    BY <1>14, <2>2, Zenon DEF LinkStart
<1>15. CASE LinkDown
  BY <1>15, Zenon DEF LinkDown
<1>16. CASE UNCHANGED vars
  BY <1>16, Zenon DEF vars
<1> QED
  BY <1>1, <1>2, <1>3, <1>4, <1>5, <1>6, <1>7, <1>8, <1>9, <1>10, <1>11, <1>12,
     <1>13, <1>14, <1>15, <1>16, Zenon
  DEF Next, Dma, EthIf, Stack, EthLink, EthLinkBusy

\* No wake-up is lost, for every ring and pool, if the DMA stores no frame too
\* long for its pbuf.
THEOREM NoLostWakeup ==
  ASSUME "giant" \notin Kinds
  PROVE  Spec => []NoSleepOnFrame
<1>1. Init => WakeInv
  BY RingAssumption DEF Init, WakeInv, Zeroed, NoSleepOnFrame
<1>2. WakeInv => NoSleepOnFrame
  BY Zenon DEF WakeInv
<1>3. TypeInv /\ WakeInv /\ [Next]_vars => WakeInv'
  BY WakeStep, Zenon
<1> QED
  BY <1>1, <1>2, <1>3, TypeInvariant, PTL DEF Spec
-----------------------------------------------------------------------------

\* How far behind the next read a descriptor lies, without the modulus.
Behind(i) == IF i >= ReadFrom THEN i - ReadFrom ELSE i - ReadFrom + N

\* RingInStep descriptor by descriptor: the n next ones hold frames, in order.
RxRun(n) ==
  /\ hwIdx = IF ReadFrom + n < N THEN ReadFrom + n ELSE ReadFrom + n - N
  /\ \A i \in Ring : desc[i].own <=> Behind(i) >= n
  /\ \A i, j \in Ring : Behind(i) < Behind(j) /\ Behind(j) < n
                         => desc[i].frame < desc[j].frame

\* The strengthening of RingInStep: before the first link-up nothing wakes
\* EthIf; the DMA runs only while the link is up; EthLink fills the ring from
\* its base, where EthIf will read; what EthIf works on holds a frame; no
\* descriptor is newer than the last frame.
StepInv ==
  /\ link # "up" => dma = "stopped"
  /\ link = "fill" => RxDescIdx = 0
  /\ \A i \in Ring : desc[i].frame <= frames
  /\ link \in {"init", "fill"} => input = "wait"
  /\ link = "init" => RxPktSemaphore = 0 /\ freeing = 0 /\ stack = {}
  /\ ~failed =>
       /\ link = "fill" => \A i \in Ring : i < fill => desc[i].own
       /\ input \in {"refill", "recycle"} => ~desc[RxDescIdx].own
       /\ link \in {"up", "down"} => \E n \in 0 .. N : RxRun(n)

\* An index up to N past one of the ring wraps at most once.
LEMMA Wraps ==
  ASSUME NEW i \in Ring, NEW k \in 0 .. N
  PROVE  (i + k) % N = IF i + k < N THEN i + k ELSE i + k - N
<1>1. i \in Nat /\ k \in Nat /\ i + k < N + N /\ N \in Nat \ {0}
  BY RingAssumption DEF Ring
<1>2. CASE i + k < N
  BY <1>1, <1>2
<1>3. CASE i + k >= N
  <2>1. i + k - N \in 0 .. N - 1 /\ i + k = N * 1 + (i + k - N)
    BY <1>1, <1>3
  <2> QED
    BY <1>1, <1>3, <2>1
<1> QED
  BY <1>1, <1>2, <1>3

\* The successor of an index, without the modulus.
LEMMA SuccWraps ==
  ASSUME NEW i \in Ring
  PROVE  Succ(i) = IF i + 1 < N THEN i + 1 ELSE 0
<1>1. 1 \in 0 .. N /\ i \in Nat /\ i < N /\ N \in Nat
  BY RingAssumption DEF Ring
<1>2. Succ(i) = IF i + 1 < N THEN i + 1 ELSE i + 1 - N
  BY <1>1, Wraps, Zenon DEF Succ
<1> QED
  BY <1>1, <1>2

\* EthIf reads next inside the ring.
LEMMA ReadFromType == TypeOK => ReadFrom \in Ring
  BY SuccType, Zenon DEF TypeOK, ReadFrom

\* A run in this form is one in the form of RingInStep.
LEMMA RunInStep ==
  ASSUME TypeOK, NEW n \in 0 .. N, RxRun(n)
  PROVE  /\ hwIdx = Nth(n)
         /\ \A k \in 0 .. N - 1 : desc[Nth(k)].own = (k >= n)
         /\ \A k \in 0 .. n - 2 : desc[Nth(k)].frame < desc[Nth(k + 1)].frame
<1>1. ReadFrom \in Ring /\ N \in Nat \ {0}
  BY ReadFromType, RingAssumption, Zenon
<1>2. hwIdx = Nth(n)
  BY <1>1, Wraps, Zenon DEF RxRun, Nth
<1>3. ASSUME NEW k \in 0 .. N - 1 PROVE Nth(k) \in Ring /\ Behind(Nth(k)) = k
  <2>1. Nth(k) = IF ReadFrom + k < N THEN ReadFrom + k ELSE ReadFrom + k - N
    BY <1>1, Wraps DEF Nth
  <2> QED
    BY <1>1, <2>1 DEF Behind, Ring
<1>4. ASSUME NEW k \in 0 .. N - 1 PROVE desc[Nth(k)].own = (k >= n)
  <2>1. desc[Nth(k)].own <=> k >= n
    BY <1>3, Zenon DEF RxRun
  <2>2. desc[Nth(k)].own \in BOOLEAN
    BY <1>3, Zenon DEF TypeOK, Descriptors
  <2> QED
    BY <2>1, <2>2
<1>5. ASSUME NEW k \in 0 .. n - 2 PROVE desc[Nth(k)].frame < desc[Nth(k + 1)].frame
  <2>1. k \in 0 .. N - 1 /\ k + 1 \in 0 .. N - 1 /\ k + 1 < n /\ k < k + 1
    BY <1>1
  <2> QED
    BY <1>3, <2>1, Zenon DEF RxRun
<1> QED
  BY <1>2, <1>4, <1>5, Zenon

\* A stored frame makes the run longer by one: its descriptor lies n behind.
LEMMA RunReceive ==
  ASSUME TypeInv, StepInv, NEW k \in Kinds, DmaReceive(k), NEW n \in 0 .. N, RxRun(n)
  PROVE  n + 1 \in 0 .. N /\ RxRun(n + 1)'
<1>t. /\ N \in Nat \ {0} /\ hwIdx \in 0 .. N - 1 /\ ReadFrom \in 0 .. N - 1
      /\ desc \in [Ring -> Descriptors] /\ frames \in Nat
      /\ \A i \in Ring : desc[i].frame \in Nat /\ desc[i].frame <= frames
  BY RingAssumption, ReadFromType, Zenon DEF TypeInv, TypeOK, Ring, Descriptors, StepInv
<1>1. /\ desc[hwIdx].own /\ hwIdx' = IF hwIdx + 1 < N THEN hwIdx + 1 ELSE 0
      /\ ReadFrom' = ReadFrom
  BY <1>t, SuccWraps, Zenon DEF DmaReceive, ReadFrom, drvVars, thrVars, Ring
<1>2. \A i \in Ring : /\ desc'[i].own <=> desc[i].own /\ i # hwIdx
                      /\ desc'[i].frame = IF i = hwIdx THEN frames + 1 ELSE desc[i].frame
  BY <1>t, Zenon DEF DmaReceive
<1>3. n < N
  BY <1>t, <1>1 DEF RxRun, Behind, Ring
<1>4. hwIdx' = IF ReadFrom' + (n + 1) < N THEN ReadFrom' + (n + 1) ELSE ReadFrom' + (n + 1) - N
  BY <1>t, <1>1, <1>3 DEF RxRun
<1>5. ASSUME NEW i \in Ring
      PROVE  Behind(i)' = Behind(i) /\ Behind(i) \in Int /\ (Behind(i) = n <=> i = hwIdx)
  BY <1>t, <1>1, <1>3 DEF RxRun, Behind, Ring
<1>6. ASSUME NEW i \in Ring PROVE desc'[i].own <=> Behind(i)' >= n + 1
  <2>1. desc[i].own <=> Behind(i) >= n
    BY Zenon DEF RxRun
  <2> QED
    BY <1>2, <1>5, <2>1
<1>7. ASSUME NEW i \in Ring, NEW j \in Ring, Behind(i)' < Behind(j)', Behind(j)' < n + 1
      PROVE  desc'[i].frame < desc'[j].frame
  <2>1. i # hwIdx /\ desc'[i].frame = desc[i].frame
    BY <1>2, <1>5, <1>7
  <2>2. CASE j = hwIdx
    BY <1>t, <1>2, <2>1, <2>2
  <2>3. CASE j # hwIdx
    <3>1. Behind(j) < n /\ Behind(i) < Behind(j)
      BY <1>5, <1>7, <2>3
    <3>2. desc[i].frame < desc[j].frame
      BY <3>1, Zenon DEF RxRun
    <3> QED
      BY <1>2, <2>1, <2>3, <3>2, Zenon
  <2> QED
    BY <2>2, <2>3, Zenon
<1> QED
  BY <1>3, <1>4, <1>6, <1>7, <1>t DEF RxRun

\* A refilled descriptor leaves the run at its front.
LEMMA RunRefill ==
  ASSUME TypeInv, StepInv, ~failed, NEW b \in Buffers, Refill(b),
         NEW n \in 0 .. N, RxRun(n)
  PROVE  n - 1 \in 0 .. N /\ RxRun(n - 1)'
<1>t. /\ N \in Nat \ {0} /\ hwIdx \in 0 .. N - 1 /\ RxDescIdx \in 0 .. N - 1
      /\ desc \in [Ring -> Descriptors] /\ hwIdx' = hwIdx
  BY RingAssumption, Zenon DEF TypeInv, TypeOK, Ring, Refill
<1>1. /\ ~desc[RxDescIdx].own /\ ReadFrom = RxDescIdx
      /\ ReadFrom' = IF RxDescIdx + 1 < N THEN RxDescIdx + 1 ELSE 0
  BY <1>t, SuccWraps, Zenon DEF Refill, EthIfGoto, ReadFrom, drvVars, Ring, StepInv
<1>2. \A i \in Ring :
        /\ desc'[i].own <=> desc[i].own \/ i = RxDescIdx
        /\ i # RxDescIdx => desc'[i].frame = desc[i].frame
  BY <1>t, Zenon DEF Refill, Ready
<1>3. n > 0
  BY <1>t, <1>1 DEF RxRun, Behind, Ring
<1>4. hwIdx' = IF ReadFrom' + (n - 1) < N THEN ReadFrom' + (n - 1) ELSE ReadFrom' + (n - 1) - N
  BY <1>t, <1>1, <1>3 DEF RxRun
<1>5. ASSUME NEW i \in Ring
      PROVE  /\ Behind(i) \in 0 .. N - 1 /\ (Behind(i) = 0 <=> i = RxDescIdx)
             /\ Behind(i)' = IF i = RxDescIdx THEN N - 1 ELSE Behind(i) - 1
  BY <1>t, <1>1 DEF Behind, Ring
<1>6. ASSUME NEW i \in Ring PROVE desc'[i].own <=> Behind(i)' >= n - 1
  <2>1. desc[i].own <=> Behind(i) >= n
    BY Zenon DEF RxRun
  <2> QED
    BY <1>t, <1>2, <1>5, <2>1
<1>7. ASSUME NEW i \in Ring, NEW j \in Ring, Behind(i)' < Behind(j)', Behind(j)' < n - 1
      PROVE  desc'[i].frame < desc'[j].frame
  <2>1. i # RxDescIdx /\ j # RxDescIdx
    BY <1>t, <1>5, <1>7
  <2>2. Behind(i) < Behind(j) /\ Behind(j) < n
    BY <1>t, <1>5, <1>7, <2>1
  <2> QED
    BY <1>2, <2>1, <2>2, Zenon DEF RxRun
<1> QED
  BY <1>3, <1>4, <1>6, <1>7, <1>t DEF RxRun

\* Nothing else moves the run.
LEMMA RunStays ==
  ASSUME UNCHANGED <<desc, hwIdx>>, ReadFrom' = ReadFrom, NEW n \in 0 .. N, RxRun(n)
  PROVE  RxRun(n)'
  BY Zenon DEF RxRun, Behind

\* When EthLink starts the DMA on a full ring the run is empty.
LEMMA RunStarts ==
  ASSUME TypeInv, StepInv, ~failed, LinkStart
  PROVE  RxRun(0)'
<1>1. /\ N \in Nat \ {0} /\ hwIdx' = 0 /\ ReadFrom' = 0
      /\ \A i \in Ring : desc'[i].own
  BY RingAssumption
  DEF LinkStart, StepInv, TypeInv, TypeOK, Hands, ReadFrom, drvVars, thrVars, Ring
<1> QED
  BY <1>1 DEF RxRun, Behind, Ring

\* Every step keeps StepInv.
LEMMA StepStep == TypeInv /\ StepInv /\ [Next]_vars => StepInv'
<1> SUFFICES ASSUME TypeInv, StepInv, [Next]_vars PROVE StepInv'
  BY Zenon
<1>0. TypeInv'
  BY TypeStep, Zenon
<1>r. ASSUME UNCHANGED <<desc, hwIdx>>, ReadFrom' = ReadFrom,
             ~failed' => ~failed, link' \in {"up", "down"} => link \in {"up", "down"}
      PROVE  ~failed' /\ link' \in {"up", "down"} => \E n \in 0 .. N : RxRun(n)'
  BY <1>r, RunStays, Zenon DEF StepInv
<1>i. /\ link = "init" => input = "wait" /\ RxPktSemaphore = 0 /\ freeing = 0
      /\ link # "up" => dma = "stopped"
  BY Zenon DEF StepInv
<1> USE <1>0, RingAssumption, PoolAssumption
    DEF TypeInv, TypeOK, Hands, Ring,
        hwVars, drvVars, bufVars, thrVars, linkVars, envVars, histVars
<1>1. ASSUME NEW k \in Kinds, DmaReceive(k) PROVE StepInv'
  <2>1. \A i \in Ring : desc'[i].frame <= frames'
    BY <1>1 DEF DmaReceive, StepInv, Descriptors
  <2>2. link = "up" /\ UNCHANGED <<dma, link, failed, input, RxDescIdx>>
    BY <1>1, Zenon DEF DmaReceive, StepInv
  <2>3. ~failed' => \E n \in 0 .. N : RxRun(n)'
    BY <1>1, <2>2, RunReceive, Zenon DEF StepInv
  <2>4. ~failed' /\ input' \in {"refill", "recycle"} => ~desc'[RxDescIdx'].own
    BY <1>1, <2>2 DEF DmaReceive, StepInv
  <2> QED
    BY <2>1, <2>2, <2>3, <2>4, Zenon DEF StepInv
<1>2. CASE DmaUnavailable \/ DmaTransmitted \/ EthInterrupt \/ StackFreeDone
  <2>1. /\ UNCHANGED <<desc, hwIdx, link, fill, failed, input, RxDescIdx>>
        /\ link # "up" => dma' = dma
        /\ frames' = frames \/ frames' = frames + 1
        /\ link = "init" => UNCHANGED <<RxPktSemaphore, freeing, stack>>
    <3>1. CASE DmaUnavailable
      BY <3>1, <1>i, Zenon DEF DmaUnavailable
    <3>2. CASE DmaTransmitted
      BY <3>2, Zenon DEF DmaTransmitted
    <3>3. CASE EthInterrupt
      BY <3>3, Zenon DEF EthInterrupt, IrqPending
    <3>4. CASE StackFreeDone
      BY <3>4, <1>i DEF StackFreeDone
    <3> QED
      BY <1>2, <3>1, <3>2, <3>3, <3>4, Zenon
  <2>2. \A i \in Ring : desc'[i].frame <= frames'
    BY <2>1, SMTT(30) DEF StepInv, Descriptors
  <2>3. ReadFrom' = ReadFrom
    BY <2>1, Zenon DEF ReadFrom
  <2> QED
    BY <2>1, <2>2, <2>3, <1>r, Zenon DEF StepInv
<1>3. CASE EthIfWake \/ LookEmpty \/ LookSkip \/ LookFrame
  <2>1. /\ UNCHANGED <<desc, hwIdx, dma, link, fill, failed, frames, RxDescIdx>>
        /\ link # "fill"
        /\ \/ input' \in {"look", "wait"}
           \/ input' \in {"refill", "recycle"} /\ input = "look" /\ ~desc[RxDescIdx].own
        /\ input \in {"wait", "look"}
    BY <1>3, Zenon DEF EthIfWake, LookEmpty, LookSkip, LookFrame, EthIfGoto, EthIfMayRun
  <2>2. ReadFrom' = ReadFrom
    BY <2>1, Zenon DEF ReadFrom
  <2>3. link # "init"
    <3>1. CASE EthIfWake
      BY <1>i, <3>1 DEF EthIfWake
    <3>2. CASE LookEmpty \/ LookSkip \/ LookFrame
      <4>1. input = "look"
        BY <3>2, Zenon DEF LookEmpty, LookSkip, LookFrame, EthIfGoto
      <4> QED
        BY <1>i, <4>1, Zenon
    <3> QED
      BY <1>3, <3>1, <3>2, Zenon
  <2> QED
    BY <2>1, <2>2, <2>3, <1>r, Zenon DEF StepInv
<1>4. ASSUME NEW b \in Buffers, Refill(b) PROVE StepInv'
  <2>1. \A i \in Ring : desc'[i].frame <= frames'
    BY <1>4 DEF Refill, Ready, StepInv
  <2>2. /\ link \in {"up", "down"} /\ input' \notin {"refill", "recycle"}
        /\ UNCHANGED <<dma, link, failed, RxDescIdx>>
    BY <1>4, Zenon DEF Refill, EthIfGoto, EthIfMayRun, StepInv
  <2>3. ~failed' => \E n \in 0 .. N : RxRun(n)'
    BY <1>4, <2>2, RunRefill, Zenon DEF StepInv
  <2> QED
    BY <2>1, <2>2, <2>3, Zenon DEF StepInv
<1>5. CASE RefillDone
  BY <1>5, <1>r, Zenon DEF RefillDone, EthIfReturn, EthIfGoto, EthIfMayRun, Kicked,
     ReadFrom, StepInv
<1>6. CASE RefillOom
  BY <1>6, Zenon DEF RefillOom, EthIfReturn, EthIfGoto, EthIfMayRun, StepInv
<1>7. CASE Deliver \/ DeliverRefused
  BY <1>7, <1>r, ZenonT(30) DEF Deliver, DeliverRefused, EthIfGoto, EthIfMayRun,
     SignalIfOom,
                    ReadFrom, StepInv
<1>8. ASSUME NEW b \in Buffers, StackFree(b) PROVE StepInv'
  BY <1>8, <1>r, Zenon DEF StackFree, ReadFrom, StepInv
<1>9. CASE LinkUp
  BY <1>9 DEF LinkUp, StepInv
<1>10. ASSUME NEW b \in Buffers, LinkFill(b) PROVE StepInv'
  <2>1. \A i \in Ring : desc'[i].frame <= frames'
    BY <1>10 DEF LinkFill, Ready, StepInv
  <2>2. ~failed' => \A i \in Ring : i < fill' => desc'[i].own
    BY <1>10 DEF LinkFill, Ready, StepInv
  <2> QED
    BY <1>10, <2>1, <2>2, Zenon DEF LinkFill, StepInv
<1>11. CASE LinkFillOom
  BY <1>11, Zenon DEF LinkFillOom, StepInv
<1>12. CASE LinkStart
  <2>1. ~failed' => \E n \in 0 .. N : RxRun(n)'
    BY <1>12, RunStarts DEF LinkStart
  <2> QED
    BY <1>12, <2>1, Zenon DEF LinkStart, StepInv
<1>13. CASE LinkDown
  BY <1>13, <1>r, Zenon DEF LinkDown, ReadFrom, StepInv
<1>14. CASE UNCHANGED vars
  BY <1>14, <1>r, Zenon DEF vars, ReadFrom, StepInv
<1> QED
  BY <1>1, <1>2, <1>3, <1>4, <1>5, <1>6, <1>7, <1>8, <1>9, <1>10, <1>11, <1>12, <1>13,
     <1>14, Zenon
  DEF Next, Dma, EthIf, Stack, EthLink, EthLinkBusy

\* StepInv is invariant.
LEMMA StepInvariant == Spec => []StepInv
<1>1. Init => StepInv
  BY RingAssumption DEF Init, Zeroed, StepInv
<1> QED
  BY <1>1, TypeInvariant, StepStep, PTL DEF Spec

\* Reader and DMA stay in step on a ring of any length, until an allocation
\* fails.
THEOREM RxStaysInStep == Spec => []RingInStep
<1>1. TypeInv /\ StepInv => RingInStep
  <2> SUFFICES ASSUME TypeInv, StepInv, ~failed, link \in {"up", "down"}
               PROVE  \E n \in 0 .. N :
                        /\ hwIdx = Nth(n)
                        /\ \A k \in 0 .. N - 1 : desc[Nth(k)].own = (k >= n)
                        /\ \A k \in 0 .. n - 2 : desc[Nth(k)].frame < desc[Nth(k + 1)].frame
    BY Zenon DEF RingInStep
  <2>1. PICK n \in 0 .. N : RxRun(n)
    BY Zenon DEF StepInv
  <2> QED
    BY <2>1, RunInStep, Zenon DEF TypeInv
<1> QED
  BY <1>1, TypeInvariant, StepInvariant, PTL

\* Until an allocation fails, what EthIf took last is older than every frame
\* still in the ring.
GotInv ==
  /\ got <= frames
  /\ ~failed /\ link \in {"up", "down"} =>
       \A i \in Ring : ~desc[i].own /\ ~Taken(i) => got < desc[i].frame

\* The frame that EthIf takes is newer than the last, and older than the rest.
LEMMA TakenInOrder ==
  ASSUME TypeInv, StepInv, GotInv, ~failed, LookFrame
  PROVE  /\ got' = got \/ got' > got
         /\ got' <= frames
         /\ \A i \in Ring : ~desc[i].own /\ ~Taken(i)' => got' < desc[i].frame
<1>t. /\ N \in Nat \ {0} /\ RxDescIdx \in 0 .. N - 1 /\ got \in Nat
      /\ \A i \in Ring : desc[i].frame \in Nat /\ desc[i].frame <= frames
      /\ RxDescIdx \in Ring
  BY RingAssumption, Zenon DEF TypeInv, TypeOK, Ring, Descriptors, StepInv
<1>1. /\ link \in {"up", "down"} /\ input = "look" /\ input' = "refill"
      /\ ~desc[RxDescIdx].own /\ ReadFrom = RxDescIdx /\ RxDescIdx' = RxDescIdx
  BY Zenon DEF LookFrame, EthIfGoto, EthIfMayRun, StepInv, ReadFrom, drvVars, TypeInv,
     TypeOK
<1>2. \A i \in Ring : ~desc[i].own => got < desc[i].frame
  BY <1>1, Zenon DEF GotInv, Taken
<1>3. CASE desc[RxDescIdx].kind = "single"
  <2>1. got' = desc[RxDescIdx].frame /\ p' = desc[RxDescIdx].backup /\ p' # NoBuf
    BY <1>3, Zenon DEF LookFrame
  <2>2. PICK n \in 0 .. N : RxRun(n)
    BY <1>1, Zenon DEF StepInv
  <2>3. ASSUME NEW i \in Ring, ~desc[i].own, ~Taken(i)' PROVE got' < desc[i].frame
    <3>1. i # RxDescIdx
      BY <1>1, <2>1, <2>3, Zenon DEF Taken
    <3>2. Behind(RxDescIdx) < Behind(i) /\ Behind(i) < n
      <4>1. Behind(RxDescIdx) = 0 /\ Behind(i) \in 0 .. N - 1 /\ Behind(i) # 0
        BY <1>t, <1>1, <3>1 DEF Behind, Ring
      <4>2. ~(Behind(i) >= n)
        BY <2>2, <2>3, Zenon DEF RxRun
      <4> QED
        BY <4>1, <4>2
    <3> QED
      BY <1>t, <2>1, <2>2, <3>2, Zenon DEF RxRun
  <2> QED
    BY <1>t, <1>1, <1>2, <2>1, <2>3, Zenon
<1>4. CASE desc[RxDescIdx].kind # "single"
  BY <1>2, <1>4, Zenon DEF LookFrame, GotInv
<1> QED
  BY <1>3, <1>4, Zenon

\* Every step keeps GotInv.
LEMMA GotStep == TypeInv /\ StepInv /\ GotInv /\ [Next]_vars => GotInv'
<1> SUFFICES ASSUME TypeInv, StepInv, GotInv, [Next]_vars PROVE GotInv'
  BY Zenon
<1>t. /\ got \in Nat /\ frames \in Nat /\ RxDescIdx \in Ring /\ Ring = 0 .. N - 1
      /\ \A i \in Ring : desc[i].frame \in Nat /\ desc[i].frame <= frames
      /\ desc \in [Ring -> Descriptors]
  BY Zenon DEF TypeInv, TypeOK, Ring, Descriptors, StepInv
<1>s. ASSUME UNCHANGED <<desc, got>>, frames' \in Nat, frames' >= frames,
             ~failed' => ~failed, link' \in {"up", "down"} => link \in {"up", "down"},
             \A i \in Ring : Taken(i) => Taken(i)'
      PROVE  GotInv'
  BY <1>s, <1>t DEF GotInv
<1> USE DEF hwVars, drvVars, bufVars, thrVars, linkVars, envVars, histVars
<1>1. ASSUME NEW k \in Kinds, DmaReceive(k) PROVE GotInv'
  <2>1. /\ UNCHANGED <<got, link, failed, input, p, RxDescIdx>> /\ frames' = frames + 1
        /\ \A i \in Ring : /\ ~desc'[i].own => ~desc[i].own \/ i = hwIdx
                           /\ desc'[i].frame = IF i = hwIdx THEN frames + 1 ELSE desc[i].frame
    BY <1>1, <1>t, Zenon DEF DmaReceive
  <2> QED
    BY <1>t, <2>1 DEF GotInv, Taken
<1>2. CASE DmaUnavailable \/ DmaTransmitted \/ EthInterrupt \/ StackFreeDone
  <2>1. /\ UNCHANGED <<desc, got, link, failed, input, p, RxDescIdx>>
        /\ frames' = frames \/ frames' = frames + 1
    <3>1. CASE DmaUnavailable
      BY <3>1, Zenon DEF DmaUnavailable
    <3>2. CASE DmaTransmitted
      BY <3>2, Zenon DEF DmaTransmitted
    <3>3. CASE EthInterrupt
      BY <3>3, Zenon DEF EthInterrupt
    <3>4. CASE StackFreeDone
      BY <3>4, Zenon DEF StackFreeDone
    <3> QED
      BY <1>2, <3>1, <3>2, <3>3, <3>4, Zenon
  <2> QED
    BY <1>t, <2>1, <1>s DEF Taken
<1>3. CASE EthIfWake \/ LookEmpty \/ LookSkip
  BY <1>3, <1>t, <1>s DEF EthIfWake, LookEmpty, LookSkip, EthIfGoto, Taken
<1>4. CASE LookFrame
  <2>1. UNCHANGED <<desc, link, failed, frames>>
    BY <1>4, Zenon DEF LookFrame
  <2>2. failed => got' <= frames
    BY <1>4, <1>t, Zenon DEF LookFrame, GotInv
  <2> QED
    BY <1>4, <2>1, <2>2, TakenInOrder, Zenon DEF GotInv
<1>5. ASSUME NEW b \in Buffers, Refill(b) PROVE GotInv'
  <2>1. /\ UNCHANGED <<got, link, failed, frames>>
        /\ \A i \in Ring : ~desc'[i].own => ~desc[i].own /\ i # RxDescIdx
                                             /\ desc'[i].frame = desc[i].frame
    BY <1>5, <1>t, Zenon DEF Refill, Ready
  <2> QED
    BY <2>1, Zenon DEF GotInv, Taken
<1>6. CASE RefillDone
  BY <1>6, <1>t, <1>s DEF RefillDone, EthIfReturn, EthIfGoto, Taken
<1>7. CASE RefillOom
  BY <1>7, <1>t, Zenon DEF RefillOom, GotInv
<1>8. CASE Deliver \/ DeliverRefused
  BY <1>8, <1>t, <1>s DEF Deliver, DeliverRefused, EthIfGoto, Taken
<1>9. ASSUME NEW b \in Buffers, StackFree(b) PROVE GotInv'
  BY <1>9, <1>t, <1>s DEF StackFree, Taken
<1>10. CASE LinkUp
  BY <1>10, <1>t, Zenon DEF LinkUp, GotInv
<1>11. ASSUME NEW b \in Buffers, LinkFill(b) PROVE GotInv'
  BY <1>11, Zenon DEF LinkFill, GotInv
<1>12. CASE LinkFillOom
  BY <1>12, Zenon DEF LinkFillOom, GotInv
<1>13. CASE LinkStart
  <2>1. ~failed' => \A i \in Ring : desc'[i].own
    BY <1>13, <1>t, RingAssumption DEF LinkStart, StepInv
  <2> QED
    BY <1>13, <2>1, Zenon DEF LinkStart, GotInv
<1>14. CASE LinkDown
  BY <1>14, <1>t, <1>s DEF LinkDown, Taken
<1>15. CASE UNCHANGED vars
  BY <1>15, <1>t, <1>s DEF vars, Taken
<1> QED
  BY <1>1, <1>2, <1>3, <1>4, <1>5, <1>6, <1>7, <1>8, <1>9, <1>10, <1>11, <1>12, <1>13,
     <1>14, <1>15, Zenon
  DEF Next, Dma, EthIf, Stack, EthLink, EthLinkBusy

\* EthIf takes the frames in the order of their arrival and none twice, on
\* every ring and through every change of the link, as long as the pool does
\* not run dry.
THEOREM FramesInOrder == Spec /\ []~failed => InOrder
<1>1. Init => GotInv
  BY DEF Init, GotInv
<1>2. TypeInv /\ StepInv /\ GotInv /\ ~failed /\ [Next]_vars => [got' > got]_got
  <2> SUFFICES ASSUME TypeInv, StepInv, GotInv, ~failed, [Next]_vars, got' # got
               PROVE  got' > got
    BY Zenon
  <2>1. LookFrame
    BY ZenonT(30) DEF Next, Dma, EthIf, Stack, EthLink, EthLinkBusy, vars, DmaReceive,
       DmaUnavailable,
           DmaTransmitted, EthInterrupt, EthIfWake, LookEmpty, LookSkip, Refill, RefillDone,
           RefillOom, Deliver, DeliverRefused, StackFree, StackFreeDone, LinkUp, LinkFill,
           LinkFillOom, LinkStart, LinkDown, histVars
  <2> QED
    BY <2>1, TakenInOrder, Zenon
<1> QED
  BY <1>1, <1>2, TypeInvariant, StepInvariant, GotStep, PTL DEF Spec, InOrder

-----------------------------------------------------------------------------

\* The buffers that may be lost by now: EthLink's loop loses those of the ring
\* one by one, from the second link-up on.
Budget ==
  IF link = "fill" /\ linkUps > 1 THEN N * (linkUps - 2) + fill + skipped
  ELSE IF linkUps = 0 THEN skipped ELSE N * (linkUps - 1) + skipped

\* The strengthening of LossAccounted: until EthLink has been there for the
\* first time a descriptor has no buffer to lose.
LossInv ==
  /\ link = "init" <=> linkUps = 0
  /\ linkUps = 0 => \A i \in Ring : desc[i].backup = NoBuf
  /\ linkUps = 1 /\ link = "fill" => \A i \in Ring : i >= fill => desc[i].backup = NoBuf
  /\ ~failed => Cardinality(Lost) <= Budget

\* A lost buffer, place by place.
LostAt(x) ==
  /\ x \in Buffers /\ x \notin pool /\ x \notin stack /\ x # p
  /\ \A i \in Ring : desc[i].backup = x => Taken(i)

\* Both say the same, before and after a step.
LEMMA LostIs == (\A x : x \in Lost <=> LostAt(x)) /\ (\A x : x \in Lost' <=> LostAt(x)')
  BY PoolAssumption, Zenon DEF Lost, InRing, LostAt

\* A set that gains at most one element grows by at most one.
LEMMA OneMore ==
  ASSUME NEW S, IsFiniteSet(S), NEW T, NEW x, T \subseteq S \cup {x}
  PROVE  Cardinality(T) \in Nat /\ Cardinality(T) <= Cardinality(S) + 1
<1>0. Cardinality(S) \in Nat
  BY FS_CardinalityType, Zenon
<1>1. IsFiniteSet(S \cup {x}) /\ Cardinality(S \cup {x}) <= Cardinality(S) + 1
  <2>1. IsFiniteSet(S \cup {x})
    BY FS_AddElement, Zenon
  <2>2. Cardinality(S \cup {x}) \in {Cardinality(S), Cardinality(S) + 1}
    BY FS_AddElement, Zenon
  <2> QED
    BY <1>0, <2>1, <2>2
<1>2. Cardinality(T) <= Cardinality(S \cup {x}) /\ IsFiniteSet(T)
  BY <1>1, FS_Subset, Zenon
<1>3. Cardinality(T) \in Nat /\ Cardinality(S \cup {x}) \in Nat /\ Cardinality(S) \in Nat
  BY <1>1, <1>2, FS_CardinalityType, Zenon
<1> QED
  BY <1>1, <1>2, <1>3

\* The lost buffers are finitely many.
LEMMA LostFinite == IsFiniteSet(Lost) /\ Cardinality(Lost) \in Nat
<1>1. Lost \subseteq Buffers /\ IsFiniteSet(Buffers)
  BY PoolAssumption, Zenon DEF Lost
<1> QED
  BY <1>1, FS_Subset, FS_CardinalityType, Zenon

\* A refill loses the buffer of a descriptor from which no frame was taken.
LEMMA RefillLoses ==
  ASSUME TypeInv, OwnerInv, ~failed, NEW b \in Buffers, Refill(b)
  PROVE  /\ p # NoBuf => Lost' \subseteq Lost
         /\ Lost' \subseteq Lost \cup {desc[RxDescIdx].backup}
<1>t. RxDescIdx \in Ring /\ desc \in [Ring -> Descriptors] /\ b \in pool
  BY CandidateFree, Zenon DEF TypeInv, TypeOK, Refill
<1>1. /\ pool' = pool \ {b} /\ UNCHANGED <<stack, p, RxDescIdx>>
      /\ input' \in {"refilled", "recycled"} /\ input \in {"refill", "recycle"}
      /\ \A i \in Ring : desc'[i].backup = IF i = RxDescIdx THEN b ELSE desc[i].backup
  BY <1>t, Zenon DEF Refill, EthIfGoto, Ready, drvVars
<1>2. \A i \in Ring : ~Taken(i)'
  BY <1>1, Zenon DEF Taken
<1>3. ASSUME NEW x \in Lost'
      PROVE  /\ x \in Buffers /\ x \notin pool /\ x \notin stack /\ x # p
             /\ \A i \in Ring : i # RxDescIdx => desc[i].backup # x
  BY <1>t, <1>1, <1>2, <1>3, LostIs, Zenon DEF LostAt
<1>4. p # NoBuf => Taken(RxDescIdx)
  BY <1>1, Zenon DEF Taken, TypeInv, Hands
<1> QED
  BY <1>3, <1>4, LostIs DEF LostAt

\* EthLink loses the buffer of the descriptor it fills.
LEMMA FillLoses ==
  ASSUME TypeInv, NEW b \in Buffers, LinkFill(b)
  PROVE  /\ desc[fill].backup = NoBuf => Lost' \subseteq Lost
         /\ Lost' \subseteq Lost \cup {desc[fill].backup}
<1>t. fill \in Ring /\ desc \in [Ring -> Descriptors] /\ b \in pool
  BY CandidateFree, RingAssumption DEF TypeInv, TypeOK, LinkFill, Ring
<1>1. /\ pool' = pool \ {b} /\ UNCHANGED <<stack, p, RxDescIdx, input>> /\ input = "wait"
      /\ \A i \in Ring : desc'[i].backup = IF i = fill THEN b ELSE desc[i].backup
  BY <1>t, Zenon DEF LinkFill, Ready, drvVars, thrVars, TypeInv, Hands
<1>2. \A i \in Ring : ~Taken(i)'
  BY <1>1, Zenon DEF Taken
<1>3. ASSUME NEW x \in Lost'
      PROVE  /\ x \in Buffers /\ x \notin pool /\ x \notin stack /\ x # p
             /\ \A i \in Ring : i # fill => desc[i].backup # x
  BY <1>t, <1>1, <1>2, <1>3, LostIs, Zenon DEF LostAt
<1> QED
  BY <1>3, LostIs, PoolAssumption DEF LostAt

\* The steps that move a buffer from one place to another lose none.
LEMMA OthersKeep ==
  ASSUME TypeInv, OwnerInv, [Next]_vars, ~failed',
         ~\E b \in Buffers : Refill(b) \/ LinkFill(b)
  PROVE  Lost' \subseteq Lost
<1> SUFFICES ASSUME NEW x, LostAt(x)' PROVE LostAt(x)
  BY LostIs, Zenon
<1> USE DEF hwVars, drvVars, bufVars, thrVars, linkVars, envVars, histVars
<1>0. p # NoBuf <=> p \in Buffers
  BY PoolAssumption, Zenon DEF TypeInv, TypeOK
<1>1. ASSUME NEW k \in Kinds, DmaReceive(k) PROVE LostAt(x)
  <2>1. \A i \in Ring : desc'[i].backup = desc[i].backup
    BY <1>1, Zenon DEF DmaReceive, TypeInv, TypeOK, Descriptors
  <2> QED
    BY <1>1, <2>1, Zenon DEF DmaReceive, LostAt, Taken
<1>2. CASE DmaUnavailable \/ DmaTransmitted \/ EthInterrupt \/ StackFreeDone
  BY <1>2, Zenon DEF DmaUnavailable, DmaTransmitted, EthInterrupt, StackFreeDone, LostAt,
     Taken
<1>3. CASE EthIfWake \/ LookEmpty \/ LookSkip
  BY <1>3, Zenon DEF EthIfWake, LookEmpty, LookSkip, EthIfGoto, LostAt, Taken
<1>4. CASE LookFrame
  <2>1. p = NoBuf /\ UNCHANGED <<desc, pool, stack, RxDescIdx>>
    BY <1>4, Zenon DEF LookFrame, EthIfGoto, TypeInv, Hands
  <2>2. x \in Buffers /\ x # NoBuf /\ x # p
    BY <2>1, PoolAssumption, Zenon DEF LostAt
  <2>3. \A i \in Ring : desc[i].backup # x
    <3>1. CASE desc[RxDescIdx].kind = "single"
      BY <1>4, <2>1, <3>1, Zenon DEF LookFrame, LostAt, Taken
    <3>2. CASE desc[RxDescIdx].kind # "single"
      BY <1>4, <2>1, <3>2, Zenon DEF LookFrame, LostAt, Taken
    <3> QED
      BY <3>1, <3>2, Zenon
  <2> QED
    BY <2>1, <2>2, <2>3, Zenon DEF LostAt
<1>5. CASE RefillDone
  BY <1>5, Zenon DEF RefillDone, EthIfReturn, EthIfGoto, LostAt, Taken
<1>6. CASE RefillOom \/ LinkFillOom
  BY <1>6, Zenon DEF RefillOom, LinkFillOom
<1>7. CASE Deliver \/ DeliverRefused
  <2>1. /\ UNCHANGED <<desc, RxDescIdx>> /\ input = "deliver" /\ input' = "look"
        /\ pool \subseteq pool' /\ stack \subseteq stack' /\ p \in pool' \cup stack'
    BY <1>7, Zenon DEF Deliver, DeliverRefused, EthIfGoto
  <2> QED
    BY <2>1, Zenon DEF LostAt, Taken
<1>8. ASSUME NEW b \in Buffers, StackFree(b) PROVE LostAt(x)
  BY <1>8, Zenon DEF StackFree, LostAt, Taken
<1>9. CASE LinkUp
  BY <1>9, Zenon DEF LinkUp, LostAt, Taken
<1>10. CASE LinkStart \/ LinkDown
  BY <1>10, Zenon DEF LinkStart, LinkDown, LostAt, Taken
<1>11. CASE UNCHANGED vars
  BY <1>11, Zenon DEF vars, LostAt, Taken
<1> QED
  BY <1>1, <1>2, <1>3, <1>4, <1>5, <1>6, <1>7, <1>8, <1>9, <1>10, <1>11, Zenon
  DEF Next, Dma, EthIf, Stack, EthLink, EthLinkBusy

\* What the steps do to the counters of the budget.
LEMMA BudgetMoves ==
  ASSUME TypeInv, StepInv, LossInv, [Next]_vars
  PROVE  /\ (link = "init" <=> linkUps = 0)'
         /\ Budget \in Nat /\ Budget' \in Nat
         /\ (\E b \in Buffers : Refill(b)) => Budget' = Budget + Signals(p = NoBuf)
         /\ (\E b \in Buffers : LinkFill(b)) => Budget' = Budget + Signals(linkUps > 1)
         /\ ~(\E b \in Buffers : Refill(b) \/ LinkFill(b)) /\ ~failed' => Budget' = Budget
<1>0. TypeInv'
  BY TypeStep, Zenon
<1>t. /\ N \in Nat \ {0} /\ linkUps \in Nat /\ skipped \in Nat /\ fill \in 0 .. N
      /\ linkUps' \in Nat /\ skipped' \in Nat /\ fill' \in 0 .. N
      /\ link \in {"init", "fill", "up", "down"} /\ link' \in {"init", "fill", "up", "down"}
      /\ link = "init" <=> linkUps = 0
  BY <1>0, RingAssumption, Zenon DEF TypeInv, TypeOK, LossInv
<1> DEFINE Amount(l, u, f, sk) ==
      IF l = "fill" /\ u > 1 THEN N * (u - 2) + f + sk
      ELSE IF u = 0 THEN sk ELSE N * (u - 1) + sk
<1>a. Budget = Amount(link, linkUps, fill, skipped)
      /\ Budget' = Amount(link', linkUps', fill', skipped')
  BY Zenon DEF Budget
<1>b. ASSUME NEW l, NEW u \in Nat, NEW f \in 0 .. N, NEW sk \in Nat
      PROVE  Amount(l, u, f, sk) \in Nat
  <2>1. \A v \in Nat : N * v \in Nat
    BY <1>t
  <2>2. CASE u > 1
    BY <2>1, <2>2, <1>t
  <2>3. CASE u = 1
    BY <2>1, <2>3, <1>t
  <2>4. CASE u = 0
    BY <2>1, <2>4, <1>t
  <2> QED
    BY <2>2, <2>3, <2>4
<1>c. Budget \in Nat /\ Budget' \in Nat
  BY <1>a, <1>b, <1>t, Zenon
<1> USE DEF hwVars, drvVars, bufVars, thrVars, linkVars, envVars, histVars
<1>1. ASSUME NEW b \in Buffers, Refill(b)
      PROVE  UNCHANGED <<link, linkUps, fill>> /\ Budget' = Budget + Signals(p = NoBuf)
  <2>1. UNCHANGED <<link, linkUps, fill>> /\ skipped' = skipped + Signals(p = NoBuf)
        /\ Signals(p = NoBuf) \in Nat
    BY <1>1, Zenon DEF Refill, Signals
  <2>2. \A v \in Nat : N * v \in Nat
    BY <1>t
  <2> QED
    BY <1>a, <1>t, <2>1, <2>2
<1>2. ASSUME NEW b \in Buffers, LinkFill(b)
      PROVE  UNCHANGED <<link, linkUps>> /\ Budget' = Budget + Signals(linkUps > 1)
  <2>1. UNCHANGED <<link, linkUps, skipped>> /\ fill' = fill + 1 /\ link = "fill"
    BY <1>2, Zenon DEF LinkFill
  <2>2. \A v \in Nat : N * v \in Nat
    BY <1>t
  <2> QED
    BY <1>a, <1>t, <2>1, <2>2 DEF Signals
<1>3. CASE LinkUp
  <2>1. /\ link' = "fill" /\ linkUps' = linkUps + 1 /\ fill' = 0 /\ UNCHANGED skipped
        /\ link # "fill"
    BY <1>3, Zenon DEF LinkUp
  <2>2. linkUps = 0 => Budget' = Budget
    BY <1>a, <1>t, <2>1
  <2>3. linkUps > 0 => Budget' = Budget
    BY <1>a, <1>t, <2>1
  <2> QED
    BY <1>t, <2>1, <2>2, <2>3, <1>c, <1>1, <1>2
<1>4. CASE LinkStart
  <2>1. /\ link' = "up" /\ link = "fill" /\ fill = N /\ UNCHANGED <<linkUps, skipped, fill>>
    BY <1>4, Zenon DEF LinkStart
  <2>2. linkUps > 1 => Budget' = Budget
    <3>1. N * (linkUps - 1) = N * (linkUps - 2) + N
      BY <1>t
    <3> QED
      BY <1>a, <1>t, <2>1, <3>1, Zenon
  <2>3. linkUps <= 1 => Budget' = Budget
    BY <1>a, <1>t, <2>1
  <2> QED
    BY <1>t, <2>1, <2>2, <2>3, <1>c, <1>1, <1>2
<1>5. CASE LinkDown
  <2>1. link = "up" /\ link' = "down" /\ UNCHANGED <<linkUps, skipped, fill>>
    BY <1>5, Zenon DEF LinkDown
  <2> QED
    BY <1>a, <1>t, <2>1, <1>c, <1>1, <1>2, Zenon
<1>6. CASE UNCHANGED <<link, linkUps, fill, skipped>>
  BY <1>6, <1>a, <1>t, <1>c, <1>1, <1>2, Zenon
<1>7. CASE LinkFillOom
  BY <1>7, <1>t, <1>c, <1>1, <1>2, Zenon DEF LinkFillOom
<1>8. CASE \E b \in Buffers : Refill(b) \/ LinkFill(b)
  BY <1>8, <1>t, <1>c, <1>1, <1>2, Zenon
<1> QED
  <2>1. ASSUME NEW k \in Kinds, DmaReceive(k)
        PROVE  UNCHANGED <<link, linkUps, fill, skipped>>
    BY <2>1, Zenon DEF DmaReceive
  <2>2. ASSUME NEW b \in Buffers, StackFree(b)
        PROVE  UNCHANGED <<link, linkUps, fill, skipped>>
    BY <2>2, Zenon DEF StackFree
  <2>3. ASSUME \/ DmaUnavailable \/ DmaTransmitted \/ EthInterrupt \/ EthIfWake \/ LookEmpty
               \/ LookSkip \/ LookFrame \/ RefillDone \/ RefillOom \/ Deliver
               \/ DeliverRefused \/ StackFreeDone \/ UNCHANGED vars
        PROVE  UNCHANGED <<link, linkUps, fill, skipped>>
    BY <2>3, Zenon DEF DmaUnavailable, DmaTransmitted, EthInterrupt, EthIfWake,
       LookEmpty, LookSkip,
                LookFrame, RefillDone, RefillOom, Deliver, DeliverRefused, StackFreeDone,
                vars
  <2> QED
    BY <1>3, <1>4, <1>5, <1>6, <1>7, <1>8, <2>1, <2>2, <2>3, Zenon
    DEF Next, Dma, EthIf, Stack, EthLink, EthLinkBusy

\* Every step keeps LossInv.
LEMMA LossStep == TypeInv /\ OwnerInv /\ StepInv /\ LossInv /\ [Next]_vars => LossInv'
<1> SUFFICES ASSUME TypeInv, OwnerInv, StepInv, LossInv, [Next]_vars PROVE LossInv'
  BY Zenon
<1>t. /\ desc \in [Ring -> Descriptors] /\ fill \in 0 .. N /\ linkUps \in Nat /\ N \in Nat
      /\ Ring = 0 .. N - 1
      /\ link = "init" <=> linkUps = 0
  BY RingAssumption, Zenon DEF TypeInv, TypeOK, LossInv, Ring
<1>f. ~failed' => ~failed
  BY Zenon DEF Next, Dma, EthIf, Stack, EthLink, EthLinkBusy, vars, DmaReceive,
     DmaUnavailable,
         DmaTransmitted, EthInterrupt, EthIfWake, LookEmpty, LookSkip, LookFrame, Refill,
         RefillDone, RefillOom, Deliver, DeliverRefused, StackFree, StackFreeDone, LinkUp,
         LinkFill, LinkFillOom, LinkStart, LinkDown, histVars
<1>c. /\ IsFiniteSet(Lost) /\ Cardinality(Lost) \in Nat /\ Cardinality(Lost') \in Nat
      /\ ~failed => Cardinality(Lost) <= Budget
      /\ Lost' \subseteq Lost => Cardinality(Lost') <= Cardinality(Lost)
      /\ \A y : Lost' \subseteq Lost \cup {y} => Cardinality(Lost') <= Cardinality(Lost) + 1
  <2>1. Lost' \subseteq Buffers /\ IsFiniteSet(Buffers)
    BY PoolAssumption, Zenon DEF Lost
  <2>2. Cardinality(Lost') \in Nat
    BY <2>1, FS_Subset, FS_CardinalityType, Zenon
  <2> QED
    BY <2>2, LostFinite, OneMore, FS_Subset, Zenon DEF LossInv
<1>b. /\ Budget \in Nat /\ Budget' \in Nat /\ (link = "init" <=> linkUps = 0)'
      /\ (\E b \in Buffers : Refill(b)) => Budget' = Budget + Signals(p = NoBuf)
      /\ (\E b \in Buffers : LinkFill(b)) => Budget' = Budget + Signals(linkUps > 1)
      /\ ~(\E b \in Buffers : Refill(b) \/ LinkFill(b)) /\ ~failed' => Budget' = Budget
  BY BudgetMoves, Zenon
<1>1. ASSUME NEW b \in Buffers, Refill(b) PROVE LossInv'
  <2>1. link # "fill" /\ link # "init" /\ UNCHANGED <<link, linkUps>>
    BY <1>1, Zenon DEF Refill, EthIfGoto, EthIfMayRun, linkVars, StepInv
  <2>2. ~failed' => Cardinality(Lost') <= Budget'
    <3>1. CASE p = NoBuf
      BY <1>1, <1>f, <1>c, <1>b, <3>1, RefillLoses DEF Signals
    <3>2. CASE p # NoBuf
      BY <1>1, <1>f, <1>c, <1>b, <3>2, RefillLoses DEF Signals
    <3> QED
      BY <3>1, <3>2, Zenon
  <2> QED
    BY <1>b, <1>t, <2>1, <2>2, Zenon DEF LossInv
<1>2. ASSUME NEW b \in Buffers, LinkFill(b) PROVE LossInv'
  <2>1. /\ link = "fill" /\ fill < N /\ fill' = fill + 1 /\ UNCHANGED <<link, linkUps>>
        /\ linkUps > 0 /\ fill \in Ring
        /\ \A i \in Ring : i # fill => desc'[i].backup = desc[i].backup
    BY <1>2, <1>t DEF LinkFill
  <2>2. ~failed' => Cardinality(Lost') <= Budget'
    <3>1. CASE linkUps > 1
      BY <1>2, <1>f, <1>c, <1>b, <3>1, FillLoses DEF Signals
    <3>2. CASE linkUps <= 1
      <4>1. desc[fill].backup = NoBuf
        BY <1>t, <2>1, <3>2 DEF LossInv
      <4> QED
        BY <1>2, <1>f, <1>c, <1>b, <3>2, <4>1, FillLoses DEF Signals
    <3> QED
      BY <1>t, <3>1, <3>2
  <2>3. linkUps = 1 => \A i \in Ring : i >= fill' => desc'[i].backup = NoBuf
    BY <1>t, <2>1 DEF LossInv
  <2> QED
    BY <1>b, <1>t, <2>1, <2>2, <2>3, Zenon DEF LossInv
<1>3. CASE ~\E b \in Buffers : Refill(b) \/ LinkFill(b)
  <2>1. ~failed' => Cardinality(Lost') <= Budget'
    BY <1>3, <1>f, <1>c, <1>b, OthersKeep
  <2>2. \A i \in Ring : desc'[i].backup = desc[i].backup
    <3>1. ASSUME NEW k \in Kinds, DmaReceive(k)
          PROVE  \A i \in Ring : desc'[i].backup = desc[i].backup
      BY <1>t, <3>1, Zenon DEF DmaReceive, Descriptors
    <3>2. (\E k \in Kinds : DmaReceive(k)) \/ UNCHANGED desc
      BY <1>3, ZenonT(30)
      DEF Next, Dma, EthIf, Stack, EthLink, EthLinkBusy, vars, DmaUnavailable,
          DmaTransmitted, EthInterrupt, EthIfWake, LookEmpty, LookSkip, LookFrame,
          RefillDone, RefillOom, Deliver, DeliverRefused, StackFree, StackFreeDone,
          LinkUp, LinkFillOom, LinkStart, LinkDown, hwVars
    <3> QED
      BY <3>1, <3>2, Zenon
  <2>3. CASE LinkUp
    <3>1. link' = "fill" /\ fill' = 0 /\ linkUps' = linkUps + 1
      BY <2>3, Zenon DEF LinkUp
    <3>2. linkUps' # 0 /\ (linkUps' = 1 => linkUps = 0)
      BY <1>t, <3>1
    <3>3. linkUps' = 1 => \A i \in Ring : desc'[i].backup = NoBuf
      BY <2>2, <3>2, Zenon DEF LossInv
    <3> QED
      BY <1>b, <2>1, <3>2, <3>3, Zenon DEF LossInv
  <2>4. CASE ~LinkUp
    <3>1. \/ UNCHANGED <<link, fill, linkUps>>
          \/ LinkFillOom \/ LinkStart \/ LinkDown
      <4>1. CASE Dma \/ EthInterrupt \/ Stack \/ UNCHANGED vars
        BY <4>1, Zenon
        DEF Dma, Stack, vars, DmaReceive, DmaUnavailable, DmaTransmitted, EthInterrupt,
            StackFree, StackFreeDone, linkVars
      <4>2. CASE EthIf
        BY <1>3, <4>2, Zenon
        DEF EthIf, EthIfWake, LookEmpty, LookSkip, LookFrame, RefillDone, RefillOom,
            Deliver, DeliverRefused, linkVars
      <4>3. CASE EthLink
        BY <1>3, <2>4, <4>3, Zenon DEF EthLink, EthLinkBusy
      <4> QED
        BY <4>1, <4>2, <4>3, Zenon DEF Next
    <3>2. UNCHANGED linkUps
      BY <3>1, Zenon DEF LinkFillOom, LinkStart, LinkDown
    <3>3. link' = "fill" => link = "fill" /\ fill' >= fill
      <4>1. CASE UNCHANGED <<link, fill, linkUps>>
        BY <1>t, <4>1
      <4>2. CASE LinkFillOom
        BY <1>t, <4>2 DEF LinkFillOom
      <4>3. CASE LinkStart \/ LinkDown
        BY <4>3, Zenon DEF LinkStart, LinkDown
      <4> QED
        BY <3>1, <4>1, <4>2, <4>3, Zenon
    <3>4. fill' \in 0 .. N
      BY TypeStep, Zenon DEF TypeInv, TypeOK
    <3>5. linkUps' = 1 /\ link' = "fill"
          => \A i \in Ring : i >= fill' => desc'[i].backup = NoBuf
      BY <1>t, <2>2, <3>2, <3>3, <3>4 DEF LossInv
    <3>6. linkUps' = 0 => \A i \in Ring : desc'[i].backup = NoBuf
      BY <2>2, <3>2, Zenon DEF LossInv
    <3> QED
      BY <1>b, <2>1, <3>5, <3>6, Zenon DEF LossInv
  <2> QED
    BY <2>3, <2>4, Zenon
<1> QED
  BY <1>1, <1>2, <1>3, Zenon

\* Refused packets, frees and link-downs lose no buffer: for every ring and
\* pool, what is lost is at most a ring for each link-up after the first and
\* one buffer for each descriptor refilled without a frame being taken.
THEOREM LossIsAccounted == Spec => []LossAccounted
<1>1. Init => LossInv
  <2> SUFFICES ASSUME Init PROVE LossInv
    BY Zenon
  <2>1. Lost = {}
    BY Zenon DEF Init, Lost
  <2> QED
    BY <2>1, FS_EmptySet DEF Init, LossInv, Budget, Zeroed
<1>2. TypeInv /\ LossInv => LossAccounted
  <2> SUFFICES ASSUME TypeInv, LossInv, ~failed, linkUps > 0
               PROVE  Cardinality(Lost) <= N * (linkUps - 1) + skipped
    BY Zenon DEF LossAccounted
  <2>1. /\ N \in Nat /\ linkUps \in Nat /\ skipped \in Nat /\ fill \in 0 .. N
        /\ Cardinality(Lost) \in Nat /\ Cardinality(Lost) <= Budget
    BY RingAssumption, LostFinite, Zenon DEF TypeInv, TypeOK, LossInv
  <2>2. N * (linkUps - 1) = N * (linkUps - 2) + N /\ N * (linkUps - 2) \in Int
    BY <2>1
  <2> QED
    BY <2>1, <2>2 DEF Budget
<1> QED
  BY <1>1, <1>2, TypeInvariant, OwnerInit, OwnerStep, StepInvariant, LossStep, PTL DEF Spec
=============================================================================
