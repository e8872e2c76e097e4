------------------------------- MODULE EthTx -------------------------------
(***************************************************************************)
(* The transmit path of the STM32H743 Ethernet driver: low_level_output    *)
(* of src/rtemslwip/stm32h7/stm32h7_eth.c with its ring of descriptors and *)
(* its one bounce buffer, the transmit DMA, and what the link thread does  *)
(* to them.                                                                *)
(*                                                                         *)
(* low_level_output and the changes of the link both run under the core    *)
(* lock, so calls do not overlap and the link changes only between calls;  *)
(* the DMA interleaves with everything.  A frame is the number of the call *)
(* that sends it.  The reference to the pbuf that a call takes and the     *)
(* padding it strips are given back at its one exit: they are held while   *)
(* tx # "idle".  CurTxDesc is written and never read: left out.            *)
(***************************************************************************)
EXTENDS Integers, Sequences

CONSTANTS
  N,              \* ETH_TX_DESC_CNT
  WaitPolls,      \* polls for a free descriptor (1000 in the code)
  DonePolls,      \* polls for the completion (10000 in the code)
  RestartsAtBase, \* TRUE iff a restarted DMA begins at descriptor 0
  MaxCalls,       \* bound: calls of low_level_output
  MaxLinkUps      \* bound: times the link comes up

ASSUME TxAssumption ==
  /\ N \in Nat \ {0}
  /\ WaitPolls \in Nat \ {0}
  /\ DonePolls \in Nat \ {0}
  /\ RestartsAtBase \in BOOLEAN
  /\ MaxCalls \in Nat
  /\ MaxLinkUps \in Nat

VARIABLES
  desc,        \* DMATxDscrTab: the OWN bits
  dma,         \* the transmit DMA: "stopped", "running", "suspended"
  hwIdx,       \* the descriptor the DMA fetches next
  bounce,      \* the frame whose bytes are in the bounce buffer
  tx,          \* where low_level_output is: "idle", "wait", "poll"
  timeout,     \* its local variable
  tx_desc_idx, \* its static variable
  errval,      \* what the last call returned
  calls,       \* calls so far, also the frame of the last one
  linkUps,     \* times the link has come up
  wire,        \* history: the frames the DMA has sent
  late         \* history: some call has timed out

callVars == <<tx, timeout, tx_desc_idx, errval, calls, late, bounce>>
vars == <<desc, dma, hwIdx, linkUps, wire, callVars>>

Ring == 0 .. N - 1

Succ(i) == (i + 1) % N

\* The descriptors zeroed and the DMA not started, as low_level_init leaves it.
Init ==
  /\ desc = [i \in Ring |-> FALSE]
  /\ dma = "stopped"
  /\ hwIdx = 0
  /\ bounce = 0
  /\ tx = "idle"
  /\ timeout = 0
  /\ tx_desc_idx = 0
  /\ errval = "ERR_OK"
  /\ calls = 0
  /\ linkUps = 0
  /\ wire = <<>>
  /\ late = FALSE

(***************************************************************************)
(* The DMA.                                                                *)
(***************************************************************************)

\* The bytes the descriptor points to, now, go out.
DmaSend ==
  /\ dma = "running"
  /\ desc[hwIdx]
  /\ desc' = [desc EXCEPT ![hwIdx] = FALSE]
  /\ hwIdx' = Succ(hwIdx)
  /\ wire' = Append(wire, bounce)
  /\ UNCHANGED <<dma, linkUps, callVars>>

\* The next descriptor is not ready: wait for a write of the tail pointer.
DmaSuspend ==
  /\ dma = "running"
  /\ ~desc[hwIdx]
  /\ dma' = "suspended"
  /\ UNCHANGED <<desc, hwIdx, linkUps, wire, callVars>>

(***************************************************************************)
(* low_level_output.                                                       *)
(***************************************************************************)

\* EthLink sets the netif up when it starts the DMA and down when it stops it,
\* under one core lock; lwIP sends through a netif that is up.
NetifUp == dma # "stopped"

\* A packet too large for the bounce buffer.
OutputTooLarge ==
  /\ tx = "idle"
  /\ NetifUp
  /\ calls < MaxCalls
  /\ calls' = calls + 1
  /\ errval' = "ERR_BUF"
  /\ UNCHANGED <<desc, dma, hwIdx, linkUps, wire, tx, timeout, tx_desc_idx, late, bounce>>

\* Any other: the chain is copied to the bounce buffer.
Output ==
  /\ tx = "idle"
  /\ NetifUp
  /\ calls < MaxCalls
  /\ calls' = calls + 1
  /\ bounce' = calls + 1
  /\ tx' = "wait"
  /\ timeout' = WaitPolls
  /\ UNCHANGED <<desc, dma, hwIdx, linkUps, wire, tx_desc_idx, errval, late>>

\* One turn of either polling loop, with its sleep of a tick.
Poll ==
  /\ tx # "idle"
  /\ desc[tx_desc_idx]
  /\ timeout > 0
  /\ timeout' = timeout - 1
  /\ UNCHANGED <<desc, dma, hwIdx, linkUps, wire, tx, tx_desc_idx, errval, calls, late,
                 bounce>>

\* No free descriptor in time - or free only after the last poll.
WaitTimeout ==
  /\ tx = "wait"
  /\ timeout = 0
  /\ tx' = "idle"
  /\ errval' = "ERR_TIMEOUT"
  /\ late' = TRUE
  /\ UNCHANGED <<desc, dma, hwIdx, linkUps, wire, timeout, tx_desc_idx, calls, bounce>>

\* Faulty: the tail pointer is not written.
SubmitNoKick ==
  /\ tx = "wait"
  /\ ~desc[tx_desc_idx]
  /\ timeout > 0
  /\ desc' = [desc EXCEPT ![tx_desc_idx] = TRUE]
  /\ tx' = "poll"
  /\ timeout' = DonePolls
  /\ UNCHANGED <<dma, hwIdx, linkUps, wire, tx_desc_idx, errval, calls, late, bounce>>

\* The frame, padded to 60 bytes, is given to the DMA and the tail pointer
\* written.
Submit ==
  /\ tx = "wait"
  /\ ~desc[tx_desc_idx]
  /\ timeout > 0
  /\ desc' = [desc EXCEPT ![tx_desc_idx] = TRUE]
  /\ dma' = IF dma = "suspended" THEN "running" ELSE dma
  /\ tx' = "poll"
  /\ timeout' = DonePolls
  /\ UNCHANGED <<hwIdx, linkUps, wire, tx_desc_idx, errval, calls, late, bounce>>

\* Faulty: the call does not wait for the completion.
CompleteAtOnce ==
  /\ tx = "poll"
  /\ tx' = "idle"
  /\ errval' = IF timeout = 0 THEN "ERR_TIMEOUT" ELSE "ERR_OK"
  /\ late' = (late \/ timeout = 0)
  /\ tx_desc_idx' = Succ(tx_desc_idx)
  /\ UNCHANGED <<desc, dma, hwIdx, linkUps, wire, timeout, calls, bounce>>

\* Faulty: a call that timed out does not move on to the next descriptor.
CompleteNoAdvance ==
  /\ tx = "poll"
  /\ ~desc[tx_desc_idx] \/ timeout = 0
  /\ tx' = "idle"
  /\ errval' = IF timeout = 0 THEN "ERR_TIMEOUT" ELSE "ERR_OK"
  /\ late' = (late \/ timeout = 0)
  /\ tx_desc_idx' = IF timeout = 0 THEN tx_desc_idx ELSE Succ(tx_desc_idx)
  /\ UNCHANGED <<desc, dma, hwIdx, linkUps, wire, timeout, calls, bounce>>

\* Faulty: the end of the time-out is not tested.
CompleteNoTimeout ==
  /\ tx = "poll"
  /\ ~desc[tx_desc_idx]
  /\ tx' = "idle"
  /\ errval' = "ERR_OK"
  /\ tx_desc_idx' = Succ(tx_desc_idx)
  /\ UNCHANGED <<desc, dma, hwIdx, linkUps, wire, timeout, calls, late, bounce>>

\* The second loop ends; the call returns and moves to the next descriptor.
Complete ==
  /\ tx = "poll"
  /\ ~desc[tx_desc_idx] \/ timeout = 0
  /\ tx' = "idle"
  /\ errval' = IF timeout = 0 THEN "ERR_TIMEOUT" ELSE "ERR_OK"
  /\ late' = (late \/ timeout = 0)
  /\ tx_desc_idx' = Succ(tx_desc_idx)
  /\ UNCHANGED <<desc, dma, hwIdx, linkUps, wire, timeout, calls, bounce>>

(***************************************************************************)
(* The link thread.                                                        *)
(***************************************************************************)

\* The DMA is started; tx_desc_idx is not touched.
LinkUp ==
  /\ tx = "idle"
  /\ ~NetifUp
  /\ linkUps < MaxLinkUps
  /\ dma' = "running"
  /\ hwIdx' = IF RestartsAtBase THEN 0 ELSE hwIdx
  /\ linkUps' = linkUps + 1
  /\ UNCHANGED <<desc, wire, callVars>>

LinkDown ==
  /\ tx = "idle"
  /\ NetifUp
  /\ dma' = "stopped"
  /\ UNCHANGED <<desc, hwIdx, linkUps, wire, callVars>>

-----------------------------------------------------------------------------

Dma == DmaSend \/ DmaSuspend

Running == Poll \/ WaitTimeout \/ Submit \/ Complete

Next == Dma \/ OutputTooLarge \/ Output \/ Running \/ LinkUp \/ LinkDown

Spec == Init /\ [][Next]_vars

\* A call that sleeps is woken by the clock.  Of the DMA nothing is assumed: it
\* may hang, as when the PHY stops its clock.
FairSpec == Spec /\ WF_vars(Running)

-----------------------------------------------------------------------------

\* The types of the transmit path's state.
TypeOK ==
  /\ desc \in [Ring -> BOOLEAN]
  /\ dma \in {"stopped", "running", "suspended"}
  /\ hwIdx \in Ring
  /\ bounce \in Nat
  /\ tx \in {"idle", "wait", "poll"}
  /\ timeout \in Nat
  /\ tx_desc_idx \in Ring
  /\ errval \in {"ERR_OK", "ERR_BUF", "ERR_TIMEOUT"}
  /\ calls \in Nat
  /\ linkUps \in Nat
  /\ wire \in Seq(Nat)
  /\ late \in BOOLEAN

Sent(f) == \E k \in 1 .. Len(wire) : wire[k] = f

\* "@return ERR_OK if the packet could be sent": whatever calls have timed out
\* before and whatever the link did, a call that returns ERR_OK has seen its
\* own bytes go out, not those of another call.
OkMeansSent == tx = "idle" /\ errval = "ERR_OK" /\ calls > 0 => Sent(calls)

\* Software and DMA stay in step, time-outs and link changes included: the
\* descriptors the DMA owns are the run of the ring from the one it fetches
\* next to the one that low_level_output uses next.
TxInStep ==
  LET next == IF tx = "poll" THEN Succ(tx_desc_idx) ELSE tx_desc_idx
  IN  \E n \in 0 .. N :
        /\ next = (hwIdx + n) % N
        /\ \A k \in 0 .. N - 1 : desc[(hwIdx + k) % N] = (k < n)

\* Until a call times out, every frame goes out at most once and in order.
SentInOrder == ~late => \A j, k \in 1 .. Len(wire) : j < k => wire[j] < wire[k]

\* A call returns, even if the DMA hangs: the core lock is not kept.
CallReturns == tx # "idle" ~> tx = "idle"

\* What was given to the DMA goes out while the link stays up, also when the
\* call that gave it has timed out, if the DMA does not hang.
RingDrains ==
  WF_vars(Dma) => \A i \in Ring : desc[i] ~> ~desc[i] \/ dma = "stopped"
=============================================================================
