------------------------------- MODULE EthRx -------------------------------
(***************************************************************************)
(* The receive path of the STM32H743 Ethernet driver,                      *)
(* src/rtemslwip/stm32h7/stm32h7_eth.c: the ring of DMA descriptors, the   *)
(* zero-copy buffer pool RX_POOL, the interrupt handler, the input thread  *)
(* (EthIf), the link thread (EthLink) and the threads of the stack that    *)
(* free received pbufs.                                                    *)
(*                                                                         *)
(* EthIf and EthLink run at TCPIP_THREAD_PRIO (lines 636-637), which is 1  *)
(* (lwip/opt.h:1861), the highest priority RTEMS gives a task, and         *)
(* sys_thread_new creates them without time slicing.  So on the single     *)
(* core each runs from one blocking point to the next with no other thread *)
(* in between: EthLink works, and the stack frees pbufs, only while EthIf  *)
(* waits for its semaphore.  The interrupt handler and the DMA interleave  *)
(* with all of them, and EthIf with the two halves of pbuf_free_custom.    *)
(*                                                                         *)
(* RxBuildDescIdx and RxBuildDescCnt are written but read only by          *)
(* ethernetif_rebuild_rx_descriptors, which nothing calls: left out.       *)
(***************************************************************************)
EXTENDS Integers, FiniteSets

CONSTANTS
  N,            \* ETH_RX_DESC_CNT, the length of the ring
  Buffers,      \* the ETH_RX_BUFFER_CNT buffers of RX_POOL
  NoBuf,        \* NULL
  Candidates(_),\* which of a set of free buffers memp may hand out
  Kinds,        \* what the DMA writes back: subset of FrameKinds
  AbnormalIrq,  \* TRUE iff RBU raises an interrupt (AIE and RBUE set)
  StackLimit,   \* bound: buffers the queues of lwIP can hold at a time
  MaxFrames,    \* bound: frames that arrive
  MaxTxIrqs,    \* bound: interrupts for transmitted frames
  MaxLinkUps    \* bound: times the link comes up

\* A whole frame; one of a length (1535 or 1536) that fills the descriptor but
\* does not fit the pbuf with its padding; a context; a part of a frame.
FrameKinds == {"single", "giant", "ctxt", "part"}

ASSUME RingAssumption == N \in Nat \ {0}

ASSUME PoolAssumption ==
  /\ IsFiniteSet(Buffers)
  /\ NoBuf \notin Buffers
  /\ \A S \in SUBSET Buffers :
       Candidates(S) \subseteq S /\ (S # {} => Candidates(S) # {})

ASSUME EnvAssumption ==
  /\ Kinds \subseteq FrameKinds
  /\ AbnormalIrq \in BOOLEAN
  /\ StackLimit \in Nat
  /\ MaxFrames \in Nat
  /\ MaxTxIrqs \in Nat
  /\ MaxLinkUps \in Nat

VARIABLES
  desc,           \* DMARxDscrTab: OWN, what was written back, DMARxDscrBackup
  dma,            \* the receive DMA: "stopped", "running", "suspended"
  hwIdx,          \* the descriptor the DMA fetches next
  DMACSR,         \* the status flags that are set
  RxDescIdx,      \* heth.RxDescList.RxDescIdx
  RxPktSemaphore, \* its count
  RxAllocStatus,  \* "ok" or "error"
  pool,           \* the free buffers of RX_POOL
  stack,          \* the buffers lwIP and the application hold
  input,          \* where the thread EthIf is
  p,              \* the pbuf in the hands of EthIf
  freeing,        \* threads between the two halves of pbuf_free_custom
  link,           \* where the thread EthLink is
  fill,           \* i of EthLink's loop over the descriptors
  frames,         \* frames that have arrived, also the number of the last one
  txIrqs,         \* interrupts for transmitted frames so far
  linkUps,        \* times the link has come up
  skipped,        \* history: buffers replaced without a frame being taken
  got,            \* history: number of the last frame EthIf has taken
  failed          \* history: some allocation has found the pool empty

hwVars   == <<desc, dma, hwIdx, DMACSR>>
drvVars  == <<RxDescIdx, RxPktSemaphore, RxAllocStatus>>
bufVars  == <<pool, stack, freeing>>
thrVars  == <<input, p>>
linkVars == <<link, fill, linkUps>>
envVars  == <<frames, txIrqs>>
histVars == <<skipped, got, failed>>
vars == <<hwVars, drvVars, bufVars, thrVars, linkVars, envVars, histVars>>

Ring == 0 .. N - 1

Succ(i) == (i + 1) % N

\* A descriptor given to the DMA with buffer b (OWN set), and a zeroed one.
Ready(b) == [own |-> TRUE, kind |-> "none", backup |-> b, frame |-> 0]

Zeroed == [own |-> FALSE, kind |-> "none", backup |-> NoBuf, frame |-> 0]

\* The state low_level_init leaves: descriptors zeroed, the pool full, the
\* two threads created, the hardware not started.
Init ==
  /\ desc = [i \in Ring |-> Zeroed]
  /\ dma = "stopped"
  /\ hwIdx = 0
  /\ DMACSR = {}
  /\ RxDescIdx = 0
  /\ RxPktSemaphore = 0
  /\ RxAllocStatus = "ok"
  /\ pool = Buffers
  /\ stack = {}
  /\ input = "wait"
  /\ p = NoBuf
  /\ freeing = 0
  /\ link = "init"
  /\ fill = 0
  /\ frames = 0
  /\ txIrqs = 0
  /\ linkUps = 0
  /\ skipped = 0
  /\ got = 0
  /\ failed = FALSE

(***************************************************************************)
(* The DMA.                                                                *)
(***************************************************************************)

\* The DMA stores a frame, or a part of one, or a context, through the
\* descriptor it owns and hands the descriptor back.
DmaReceive(k) ==
  /\ dma = "running"
  /\ frames < MaxFrames
  /\ desc[hwIdx].own
  /\ desc' = [desc EXCEPT ![hwIdx] = [own |-> FALSE, kind |-> k, backup |-> @.backup,
                                      frame |-> frames + 1]]
  /\ hwIdx' = Succ(hwIdx)
  /\ DMACSR' = DMACSR \cup {"RI"}
  /\ frames' = frames + 1
  /\ UNCHANGED <<dma, txIrqs, drvVars, bufVars, thrVars, linkVars, histVars>>

\* A frame finds the next descriptor in the CPU's hands: it is lost, RBU is
\* set and the DMA waits for a write of the tail pointer.
DmaUnavailable ==
  /\ dma = "running"
  /\ frames < MaxFrames
  /\ ~desc[hwIdx].own
  /\ dma' = "suspended"
  /\ DMACSR' = DMACSR \cup {"RBU"}
  /\ frames' = frames + 1
  /\ UNCHANGED <<desc, hwIdx, txIrqs, drvVars, bufVars, thrVars, linkVars,
                 histVars>>

\* A frame of the transmit path is out; its interrupt shares the handler.
DmaTransmitted ==
  /\ link = "up"
  /\ txIrqs < MaxTxIrqs
  /\ DMACSR' = DMACSR \cup {"TI"}
  /\ txIrqs' = txIrqs + 1
  /\ UNCHANGED <<desc, dma, hwIdx, frames, drvVars, bufVars, thrVars,
                 linkVars, histVars>>

\* stm32h7_eth_kick_rx_dma: the tail pointer is set past the last descriptor,
\* which the DMA never reaches, so the write only ends a suspension.
Kicked == IF dma = "suspended" THEN "running" ELSE dma

(***************************************************************************)
(* The interrupt handler, run to completion.                               *)
(***************************************************************************)

IrqPending ==
  /\ link = "up"
  /\ DMACSR \cap ({"RI", "TI"} \cup IF AbnormalIrq THEN {"RBU"} ELSE {}) # {}

\* HAL_ETH_ErrorCallback runs.
ErrorReported == AbnormalIrq /\ "RBU" \in DMACSR

\* ... and finds a packet at RxDescIdx that the thread has yet to take.
PacketWaiting ==
  /\ ~desc[RxDescIdx].own
  /\ desc[RxDescIdx].kind # "ctxt"

Signals(event) == IF event THEN 1 ELSE 0

\* Faulty: only the error callback signals.
EthInterruptSilent ==
  /\ IrqPending
  /\ dma' = IF "RBU" \in DMACSR /\ ~(ErrorReported /\ PacketWaiting)
            THEN Kicked ELSE dma
  /\ DMACSR' = {}
  /\ RxPktSemaphore' = RxPktSemaphore + Signals(ErrorReported)
  /\ UNCHANGED <<desc, hwIdx, RxDescIdx, RxAllocStatus, bufVars, thrVars,
                 linkVars, envVars, histVars>>

\* HAL_ETH_IRQHandler with the callbacks it makes, the test for RBU that
\* follows it, and the signal at the end.  A kick is made by the error
\* callback, unless a packet waits, or by the handler when no callback
\* cleared RBU.
EthInterrupt ==
  /\ IrqPending
  /\ dma' = IF "RBU" \in DMACSR /\ ~(ErrorReported /\ PacketWaiting)
            THEN Kicked ELSE dma
  /\ DMACSR' = {}
  /\ RxPktSemaphore' = RxPktSemaphore + Signals("RI" \in DMACSR)
                         + Signals(ErrorReported) + 1
  /\ UNCHANGED <<desc, hwIdx, RxDescIdx, RxAllocStatus, bufVars, thrVars,
                 linkVars, envVars, histVars>>

(***************************************************************************)
(* The input thread: ethernetif_input around low_level_input.              *)
(***************************************************************************)

\* EthLink does not block while it fills the ring.
EthIfMayRun == link # "fill"

EthIfGoto(from, to) ==
  /\ EthIfMayRun
  /\ input = from
  /\ input' = to

\* sys_arch_sem_wait without a timeout.
EthIfWake ==
  /\ EthIfGoto("wait", "look")
  /\ RxPktSemaphore > 0
  /\ RxPktSemaphore' = RxPktSemaphore - 1
  /\ UNCHANGED <<RxDescIdx, RxAllocStatus, p, hwVars, bufVars, linkVars, envVars,
                 histVars>>

\* low_level_input finds the descriptor with the DMA and returns NULL.
LookEmpty ==
  /\ EthIfGoto("look", "wait")
  /\ desc[RxDescIdx].own
  /\ UNCHANGED <<p, hwVars, drvVars, bufVars, linkVars, envVars, histVars>>

\* A context descriptor, or one without both FD and LD.
LookSkip ==
  /\ EthIfGoto("look", "recycle")
  /\ ~desc[RxDescIdx].own
  /\ desc[RxDescIdx].kind \notin {"single", "giant"}
  /\ UNCHANGED <<p, hwVars, drvVars, bufVars, linkVars, envVars, histVars>>

\* A whole frame: the pbuf is built on the buffer DMARxDscrBackup names, or
\* is NULL if the frame does not fit.  When the backup pointer is NULL the
\* loop of low_level_input has no exit: no action.
LookFrame ==
  /\ EthIfGoto("look", "refill")
  /\ ~desc[RxDescIdx].own
  /\ desc[RxDescIdx].kind \in {"single", "giant"}
  /\ desc[RxDescIdx].backup # NoBuf
  /\ IF desc[RxDescIdx].kind = "single"
       THEN /\ p' = desc[RxDescIdx].backup
            /\ got' = desc[RxDescIdx].frame
       ELSE UNCHANGED <<p, got>>
  /\ UNCHANGED <<skipped, failed, hwVars, drvVars, bufVars, linkVars, envVars>>

\* low_level_input returns p to ethernetif_input, which ends its loop on NULL.
EthIfReturn(from) == EthIfGoto(from, IF p = NoBuf THEN "wait" ELSE "deliver")

\* Faulty: DMARxDscrBackup keeps the old buffer.
RefillKeepsBackup(b) ==
  /\ \/ EthIfGoto("refill", "refilled")
     \/ EthIfGoto("recycle", "recycled")
  /\ b \in Candidates(pool)
  /\ pool' = pool \ {b}
  /\ desc' = [desc EXCEPT ![RxDescIdx].own = TRUE]
  /\ skipped' = skipped + Signals(p = NoBuf)
  /\ UNCHANGED <<dma, hwIdx, DMACSR, stack, freeing, p, got, failed, drvVars, linkVars,
                 envVars>>

\* Faulty: OWN is not set.
RefillNoOwn(b) ==
  /\ \/ EthIfGoto("refill", "refilled")
     \/ EthIfGoto("recycle", "recycled")
  /\ b \in Candidates(pool)
  /\ pool' = pool \ {b}
  /\ desc' = [desc EXCEPT ![RxDescIdx].backup = b]
  /\ skipped' = skipped + Signals(p = NoBuf)
  /\ UNCHANGED <<dma, hwIdx, DMACSR, stack, freeing, p, got, failed, drvVars, linkVars,
                 envVars>>

\* HAL_ETH_RxAllocateCallback succeeds and the descriptor goes back to the
\* DMA with the new buffer.
Refill(b) ==
  /\ \/ EthIfGoto("refill", "refilled")
     \/ EthIfGoto("recycle", "recycled")
  /\ b \in Candidates(pool)
  /\ pool' = pool \ {b}
  /\ desc' = [desc EXCEPT ![RxDescIdx] = Ready(b)]
  /\ skipped' = skipped + Signals(p = NoBuf)
  /\ UNCHANGED <<dma, hwIdx, DMACSR, stack, freeing, p, got, failed, drvVars, linkVars,
                 envVars>>

\* Faulty: the read index stays at a recycled descriptor.
RefillDoneNoAdvance ==
  /\ \/ EthIfReturn("refilled") /\ RxDescIdx' = Succ(RxDescIdx)
     \/ EthIfGoto("recycled", "look") /\ UNCHANGED RxDescIdx
  /\ dma' = Kicked
  /\ UNCHANGED <<desc, hwIdx, DMACSR, RxPktSemaphore, RxAllocStatus, p, bufVars,
                 linkVars, envVars, histVars>>

\* Faulty: the tail pointer is not written.
RefillDoneNoKick ==
  /\ \/ EthIfReturn("refilled")
     \/ EthIfGoto("recycled", "look")
  /\ RxDescIdx' = Succ(RxDescIdx)
  /\ UNCHANGED <<RxPktSemaphore, RxAllocStatus, p, hwVars, bufVars, linkVars, envVars,
                 histVars>>

\* The tail pointer is written and the read index moves on; a frame is
\* returned, a recycled descriptor only passed over.
RefillDone ==
  /\ \/ EthIfReturn("refilled")
     \/ EthIfGoto("recycled", "look")
  /\ dma' = Kicked
  /\ RxDescIdx' = Succ(RxDescIdx)
  /\ UNCHANGED <<desc, hwIdx, DMACSR, RxPktSemaphore, RxAllocStatus, p, bufVars,
                 linkVars, envVars, histVars>>

\* The pool is empty.  A frame is returned all the same and its descriptor
\* left as it is; a descriptor to recycle is looked at again.
RefillOom ==
  /\ \/ EthIfReturn("refill") /\ RxDescIdx' = Succ(RxDescIdx)
     \/ EthIfGoto("recycle", "look") /\ UNCHANGED RxDescIdx
  /\ pool = {}
  /\ RxAllocStatus' = "error"
  /\ failed' = TRUE
  /\ UNCHANGED <<RxPktSemaphore, skipped, got, p, hwVars, bufVars, linkVars, envVars>>

\* netif->input takes the pbuf.
Deliver ==
  /\ EthIfGoto("deliver", "look")
  /\ Cardinality(stack) < StackLimit
  /\ stack' = stack \cup {p}
  /\ p' = NoBuf
  /\ UNCHANGED <<pool, freeing, hwVars, drvVars, linkVars, envVars, histVars>>

\* The second half of pbuf_free_custom: wake EthIf if the pool had run dry.
SignalIfOom ==
  /\ RxAllocStatus' = "ok"
  /\ RxPktSemaphore' = RxPktSemaphore + Signals(RxAllocStatus = "error")

\* Faulty: a refused pbuf is not freed.
DeliverRefusedLeaks ==
  /\ EthIfGoto("deliver", "look")
  /\ p' = NoBuf
  /\ UNCHANGED <<bufVars, hwVars, drvVars, linkVars, envVars, histVars>>

\* netif->input fails (the mailbox of tcpip_thread is full, say) and
\* ethernetif_input frees the pbuf.
DeliverRefused ==
  /\ EthIfGoto("deliver", "look")
  /\ pool' = pool \cup {p}
  /\ p' = NoBuf
  /\ SignalIfOom
  /\ UNCHANGED <<RxDescIdx, stack, freeing, hwVars, linkVars, envVars, histVars>>

(***************************************************************************)
(* The stack: the last reference to a received pbuf goes, in any thread.   *)
(***************************************************************************)

StackMayRun == input = "wait" /\ EthIfMayRun

StackFree(b) ==
  /\ StackMayRun
  /\ b \in stack
  /\ stack' = stack \ {b}
  /\ pool' = pool \cup {b}
  /\ freeing' = freeing + 1
  /\ UNCHANGED <<hwVars, drvVars, thrVars, linkVars, envVars, histVars>>

StackFreeDone ==
  /\ StackMayRun
  /\ freeing > 0
  /\ freeing' = freeing - 1
  /\ SignalIfOom
  /\ UNCHANGED <<RxDescIdx, pool, stack, hwVars, thrVars, linkVars, envVars,
                 histVars>>

(***************************************************************************)
(* The link thread.                                                        *)
(***************************************************************************)

\* Faulty: the read index is not reset.
LinkUpNoReset ==
  /\ link \in {"init", "down"}
  /\ input = "wait"
  /\ linkUps < MaxLinkUps
  /\ link' = "fill"
  /\ fill' = 0
  /\ linkUps' = linkUps + 1
  /\ UNCHANGED <<drvVars, hwVars, bufVars, thrVars, envVars, histVars>>

\* The PHY reports the link up and the netif is down.
LinkUp ==
  /\ link \in {"init", "down"}
  /\ input = "wait"
  /\ linkUps < MaxLinkUps
  /\ link' = "fill"
  /\ fill' = 0
  /\ linkUps' = linkUps + 1
  /\ RxDescIdx' = 0
  /\ UNCHANGED <<RxPktSemaphore, RxAllocStatus, hwVars, bufVars, thrVars, envVars,
                 histVars>>

\* Faulty: DMARxDscrBackup is not written.
LinkFillNoBackup(b) ==
  /\ link = "fill"
  /\ fill < N
  /\ b \in Candidates(pool)
  /\ pool' = pool \ {b}
  /\ desc' = [desc EXCEPT ![fill].own = TRUE]
  /\ fill' = fill + 1
  /\ UNCHANGED <<dma, hwIdx, DMACSR, stack, freeing, link, linkUps, drvVars, thrVars,
                 envVars, histVars>>

\* One turn of the loop that gives every descriptor a new buffer.
LinkFill(b) ==
  /\ link = "fill"
  /\ fill < N
  /\ b \in Candidates(pool)
  /\ pool' = pool \ {b}
  /\ desc' = [desc EXCEPT ![fill] = Ready(b)]
  /\ fill' = fill + 1
  /\ UNCHANGED <<dma, hwIdx, DMACSR, stack, freeing, link, linkUps, drvVars, thrVars,
                 envVars, histVars>>

\* A turn that finds the pool empty.
LinkFillOom ==
  /\ link = "fill"
  /\ fill < N
  /\ pool = {}
  /\ fill' = fill + 1
  /\ RxAllocStatus' = "error"
  /\ failed' = TRUE
  /\ UNCHANGED <<link, linkUps, RxDescIdx, RxPktSemaphore, skipped, got, hwVars, bufVars,
                 thrVars, envVars>>

\* The DMA is started; as the code expects, at the base of the ring.
LinkStart ==
  /\ link = "fill"
  /\ fill = N
  /\ link' = "up"
  /\ dma' = "running"
  /\ hwIdx' = 0
  /\ UNCHANGED <<desc, DMACSR, fill, linkUps, drvVars, bufVars, thrVars, envVars,
                 histVars>>

\* The link is gone, or the read of the status register failed: the DMA and
\* its interrupts are stopped.
LinkDown ==
  /\ link = "up"
  /\ input = "wait"
  /\ link' = "down"
  /\ dma' = "stopped"
  /\ UNCHANGED <<desc, hwIdx, DMACSR, fill, linkUps, drvVars, bufVars, thrVars,
                 envVars, histVars>>

-----------------------------------------------------------------------------

Dma == (\E k \in Kinds : DmaReceive(k)) \/ DmaUnavailable \/ DmaTransmitted

EthIf ==
  \/ EthIfWake
  \/ LookEmpty
  \/ LookSkip
  \/ LookFrame
  \/ \E b \in Buffers : Refill(b)
  \/ RefillDone
  \/ RefillOom
  \/ Deliver
  \/ DeliverRefused

Stack == (\E b \in Buffers : StackFree(b)) \/ StackFreeDone

EthLinkBusy ==
  \/ \E b \in Buffers : LinkFill(b)
  \/ LinkFillOom
  \/ LinkStart

EthLink == LinkUp \/ EthLinkBusy \/ LinkDown

Next == Dma \/ EthInterrupt \/ EthIf \/ Stack \/ EthLink

Spec == Init /\ [][Next]_vars

\* An enabled interrupt is served, threads that can run do run, and the
\* stack frees what it holds; frames and the link owe nothing.
Fairness ==
  /\ WF_vars(EthInterrupt)
  /\ WF_vars(EthIf)
  /\ WF_vars(Stack)
  /\ WF_vars(EthLinkBusy)

FairSpec == Spec /\ Fairness

-----------------------------------------------------------------------------
(***************************************************************************)
(* Properties.                                                             *)
(***************************************************************************)

Descriptors ==
  [own : BOOLEAN, kind : Kinds \cup {"none"}, backup : Buffers \cup {NoBuf},
   frame : Nat]

InputStates ==
  {"wait", "look", "recycle", "refill", "recycled", "refilled", "deliver"}

\* The types of the state of the driver, the DMA and the pool.
TypeOK ==
  /\ desc \in [Ring -> Descriptors]
  /\ dma \in {"stopped", "running", "suspended"}
  /\ hwIdx \in Ring
  /\ DMACSR \in SUBSET {"RI", "TI", "RBU"}
  /\ RxDescIdx \in Ring
  /\ RxPktSemaphore \in Nat
  /\ RxAllocStatus \in {"ok", "error"}
  /\ pool \in SUBSET Buffers
  /\ stack \in SUBSET Buffers
  /\ input \in InputStates
  /\ p \in Buffers \cup {NoBuf}
  /\ freeing \in Nat
  /\ link \in {"init", "fill", "up", "down"}
  /\ fill \in 0 .. N
  /\ frames \in Nat
  /\ txIrqs \in Nat
  /\ linkUps \in Nat
  /\ skipped \in Nat
  /\ got \in Nat
  /\ failed \in BOOLEAN

\* The frame at RxDescIdx has been taken and the descriptor not yet refilled:
\* its backup pointer names the buffer that EthIf now holds as p.
Taken(i) == i = RxDescIdx /\ input = "refill" /\ p # NoBuf

\* The buffers that are in the ring for the DMA or for a frame not yet taken.
InRing == {desc[i].backup : i \in {j \in Ring : ~Taken(j)}} \ {NoBuf}

\* Zero copy is safe: until an allocation fails, a buffer is in one place
\* only - one descriptor of the ring, the pool, the stack, or the hands of
\* EthIf.  So the DMA never writes to memory that the stack reads, and no
\* buffer is allocated twice (low_level_input, pbuf_free_custom, EthLink).
SoleOwner ==
  ~failed =>
    /\ pool \cap stack = {}
    /\ InRing \cap (pool \cup stack \cup {p}) = {}
    /\ p \notin pool \cup stack
    /\ \A i, j \in Ring :
         i # j /\ desc[i].backup # NoBuf => desc[i].backup # desc[j].backup

\* The descriptors as the thread will come to them.
ReadFrom == IF input \in {"refilled", "recycled"} THEN Succ(RxDescIdx)
            ELSE RxDescIdx

Nth(k) == (ReadFrom + k) % N

\* Reader and DMA stay in step: until an allocation fails, the descriptors
\* that hold frames not yet taken are a run of the ring that starts where
\* EthIf reads next and ends where the DMA writes next, in order of arrival.
RingInStep ==
  ~failed /\ link \in {"up", "down"} =>
    \E n \in 0 .. N :
      /\ hwIdx = Nth(n)
      /\ \A k \in 0 .. N - 1 : desc[Nth(k)].own = (k >= n)
      /\ \A k \in 0 .. n - 2 : desc[Nth(k)].frame < desc[Nth(k + 1)].frame

\* No lost wake-up: EthIf never waits, with its semaphore at zero and no
\* interrupt to come, while a frame lies at the descriptor it reads next.
NoSleepOnFrame ==
  /\ ~failed
  /\ link = "up"
  /\ ~desc[RxDescIdx].own
  /\ input = "wait"
  => RxPktSemaphore > 0 \/ "RI" \in DMACSR

\* low_level_input never meets a whole frame without a backup pointer, for
\* which its loop has no exit; not even once the pool has run dry.
NoEndlessLoop ==
  input = "look" /\ ~desc[RxDescIdx].own /\ desc[RxDescIdx].kind \in {"single", "giant"}
  => desc[RxDescIdx].backup # NoBuf

\* The buffers that are nowhere: not in the ring, in the pool, with the stack
\* or with EthIf.
Lost == Buffers \ (pool \cup stack \cup {p} \cup InRing)

\* Only two things lose buffers: a link-up after the first loses at most the N
\* of the ring before it, and a descriptor refilled without a frame being taken
\* loses one.  Refused packets, link-downs and frees lose none.
LossAccounted ==
  ~failed /\ linkUps > 0 => Cardinality(Lost) <= N * (linkUps - 1) + skipped

\* "Rx buffers are allocated statically and passed directly to the LwIP stack
\* they will return back to ETH DMA after been processed by the stack"
\* (stm32h7_eth.c:76-77): no buffer is lost.
NoBufferLost == Lost = {}

\* The same comment: EthIf passes no buffer to the stack that the stack still
\* holds or that is free.
HandedUpOnce == input = "refill" /\ p # NoBuf => p \notin pool \cup stack

\* Frames reach the stack in the order of their arrival, none twice.
InOrder == [][got' > got]_got

\* Every frame the DMA has stored is taken while the link stays up.
FrameTaken ==
  \A i \in Ring :
    link = "up" /\ ~desc[i].own ~> link # "up" \/ desc[i].own

\* EthIf does not keep the processor: it comes back to its semaphore, so that
\* the other threads run.
EthIfRests == input # "wait" ~> input = "wait"

\* A DMA that ran out of descriptors is set going again.
DmaResumes == dma = "suspended" ~> dma # "suspended"
=============================================================================
