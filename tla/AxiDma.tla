------------------------------- MODULE AxiDma -------------------------------
(***************************************************************************)
(* The descriptor rings of the AXI Ethernet driver (xilinx_axienet_main.c, *)
(* xilinx_axienet_dma.c and, with several channels, xilinx_axienet_mcdma.c)*)
(* on one CPU: a transmit ring (ax) and a receive ring (ar) of one queue.  *)
(*                                                                         *)
(* A buffer (skb) counts its references.  The hardware works on a ring     *)
(* from a descriptor on, until it has done the ones it was given (the tail *)
(* register); an error halts it until the error handler has reset it.      *)
(***************************************************************************)
EXTENDS Integers, Sequences, FiniteSets

CONSTANTS AxN,     \* TX_BD_NUM
          AxFrags, \* fragments a buffer may have (bound)
          AxSkbs,  \* buffers (bound)
          ArN,     \* RX_BD_NUM
          ArQuota, \* the NAPI budget
          ArFrames \* frames received (bound)

\* A frame fits into the transmit ring with a descriptor to spare (TX_BD_NUM is at least 64,
\* MAX_SKB_FRAGS at most 17).
ASSUME AxAssumption ==
  /\ AxN \in Nat \ {0} /\ AxFrags \in Nat /\ AxFrags + 1 < AxN /\ AxSkbs \in Nat
  /\ ArN \in Nat \ {0} /\ ArQuota \in Nat \ {0} /\ ArFrames \in Nat

VARIABLES axUp,      \* the device is open
          axBd,      \* the descriptors: tx_skb, ptp_tx_skb (0 for none) and complete
          axTail, axCi, \* tx_bd_tail, tx_bd_ci
          axHw, axLeft, \* where the hardware is, and how many descriptors it has still to do
          axRefs,    \* references to each buffer
          axStack,   \* buffers the network stack holds
          axLost,    \* buffers freed by a transmit call that left them with the stack
          axStopped, \* the queue is stopped
          axStatus,  \* interrupts pending: "ioc", "err"
          axHalted,  \* the hardware met an error
          axTasklet, \* the error handler is scheduled
          axReset    \* history: the error handler ran since the queue was opened

axVars == <<axUp, axBd, axTail, axCi, axHw, axLeft, axRefs, axStack, axLost, axStopped,
            axStatus, axHalted, axTasklet, axReset>>

AxRing == 0..(AxN - 1)
AxSkb == 1..AxSkbs
AxClear == [skb |-> 0, ptp |-> 0, done |-> FALSE]
AxEmpty == [i \in AxRing |-> AxClear]
AxPut(refs, s) == IF s = 0 THEN refs ELSE [refs EXCEPT ![s] = @ - 1]  \* dev_kfree_skb

----------------------------------------------------------------------------
\* __dma_txq_init and axienet_mcdma_tx_q_init, when the memory is there
AxQueueInit ==
  /\ axBd' = AxEmpty /\ axTail' = 0 /\ axCi' = 0 /\ axHw' = 0 /\ axLeft' = 0
  /\ axStatus' = {} /\ axHalted' = FALSE

\* axienet_open
AxOpen ==
  /\ ~axUp /\ axUp' = TRUE /\ AxQueueInit
  /\ axStopped' = FALSE /\ axTasklet' = FALSE /\ axReset' = FALSE
  /\ UNCHANGED <<axRefs, axStack, axLost>>

\* axienet_stop and axienet_bd_free: the descriptors go, and nobody frees the buffers that
\* wait in them.
AxStop ==
  /\ axUp /\ axUp' = FALSE
  /\ axBd' = AxEmpty /\ axStatus' = {} /\ axTasklet' = FALSE /\ axLeft' = 0
  /\ UNCHANGED <<axTail, axCi, axHw, axRefs, axStack, axLost, axStopped, axHalted, axReset>>

\* The stack has a new buffer to send.
AxNewSkb(s) ==
  /\ axRefs[s] = 0 /\ s \notin axStack \cup axLost
  /\ axRefs' = [axRefs EXCEPT ![s] = 1] /\ axStack' = axStack \cup {s}
  /\ UNCHANGED <<axUp, axBd, axTail, axCi, axHw, axLeft, axLost, axStopped, axStatus,
                 axHalted, axTasklet, axReset>>

\* axienet_check_tx_bd_space
AxNoSpace(n) == (axCi - axTail - 1) % AxN < n + 1 \/ axBd[(axTail + n) % AxN].done

\* axienet_queue_xmit without room: the queue is stopped.
AxXmitBusy(s, n) ==
  /\ axUp /\ ~axStopped /\ s \in axStack \ axLost /\ AxNoSpace(n)
  /\ axStopped' = TRUE
  /\ UNCHANGED <<axUp, axBd, axTail, axCi, axHw, axLeft, axRefs, axStack, axLost, axStatus,
                 axHalted, axTasklet, axReset>>

\* axienet_skb_tstsmp: no memory for the time stamp's header.  The buffer is freed, and
\* NETDEV_TX_BUSY leaves it with the stack.
AxXmitNoHeadroom(s, n) ==
  /\ axUp /\ ~axStopped /\ s \in axStack \ axLost /\ ~AxNoSpace(n)
  /\ axRefs' = AxPut(axRefs, s) /\ axLost' = axLost \cup {s}
  /\ UNCHANGED <<axUp, axBd, axTail, axCi, axHw, axLeft, axStack, axStopped, axStatus,
                 axHalted, axTasklet, axReset>>

\* axienet_queue_xmit: n fragments take n + 1 descriptors.  The last one remembers the
\* buffer, the first one a further reference when a time stamp is wanted.
AxXmit(s, n, stamp) ==
  /\ axUp /\ ~axStopped /\ s \in axStack \ axLost /\ ~AxNoSpace(n)
  /\ LET first == axTail
         last == (axTail + n) % AxN
         marked == IF stamp THEN [axBd EXCEPT ![first].ptp = s] ELSE axBd
     IN  /\ axBd' = [marked EXCEPT ![last].skb = s]
         /\ axTail' = (last + 1) % AxN
  /\ axRefs' = IF stamp THEN [axRefs EXCEPT ![s] = @ + 1] ELSE axRefs
  /\ axLeft' = axLeft + n + 1
  /\ axStack' = axStack \ {s}
  /\ UNCHANGED <<axUp, axCi, axHw, axLost, axStopped, axStatus, axHalted, axTasklet, axReset>>

\* The hardware sends a descriptor.
AxHwSend ==
  /\ axUp /\ ~axHalted /\ axLeft > 0
  /\ axBd' = [axBd EXCEPT ![axHw].done = TRUE]
  /\ axHw' = (axHw + 1) % AxN /\ axLeft' = axLeft - 1
  /\ axStatus' = axStatus \cup {"ioc"}
  /\ UNCHANGED <<axUp, axTail, axCi, axRefs, axStack, axLost, axStopped, axHalted, axTasklet,
                 axReset>>

AxHwError ==
  /\ axUp /\ ~axHalted /\ axLeft > 0
  /\ axHalted' = TRUE /\ axStatus' = axStatus \cup {"err"}
  /\ UNCHANGED <<axUp, axBd, axTail, axCi, axHw, axLeft, axRefs, axStack, axLost, axStopped,
                 axTasklet, axReset>>

\* One descriptor in axienet_start_xmit_done; axienet_tx_hwtstamp drops the time stamp's reference.
AxDoneBd(bd) == [bd EXCEPT !.done = FALSE, !.ptp = 0, !.skb = 0]

\* The descriptors axienet_start_xmit_done finds complete, from tx_bd_ci on
AxDoneRun ==
  LET k == CHOOSE k \in 0..AxN :
             /\ \A j \in 0..(k - 1) : axBd[(axCi + j) % AxN].done
             /\ k = AxN \/ ~axBd[(axCi + k) % AxN].done
  IN  {(axCi + j) % AxN : j \in 0..(k - 1)}

\* axienet_tx_irq, axienet_mcdma_tx_irq: completions, after which a pending error is
\* acknowledged with them
AxTxIrq ==
  /\ axUp /\ "ioc" \in axStatus /\ axStatus' = {}
  /\ LET run == AxDoneRun
         freed(s) == Cardinality({i \in run : axBd[i].skb = s})
                     + Cardinality({i \in run : axBd[i].ptp = s})
     IN  /\ axBd' = [i \in AxRing |-> IF i \in run THEN AxDoneBd(axBd[i]) ELSE axBd[i]]
         /\ axRefs' = [s \in AxSkb |-> axRefs[s] - freed(s)]
         /\ axCi' = (axCi + Cardinality(run)) % AxN
  /\ axStopped' = FALSE
  /\ UNCHANGED <<axUp, axTail, axHw, axLeft, axStack, axLost, axHalted, axTasklet, axReset>>

\* axienet_tx_irq with an error alone
AxErrIrq ==
  /\ axUp /\ axStatus = {"err"}
  /\ axStatus' = {} /\ axTasklet' = TRUE
  /\ UNCHANGED <<axUp, axBd, axTail, axCi, axHw, axLeft, axRefs, axStack, axLost, axStopped,
                 axHalted, axReset>>

\* axienet_dma_err_handler, axienet_mcdma_err_handler: every buffer in the ring is freed and
\* the rings start anew.  References for time stamps stay, and a stopped queue stays stopped.
AxErrHandler ==
  /\ axTasklet /\ axTasklet' = FALSE
  /\ axRefs' = [s \in AxSkb |-> axRefs[s] - Cardinality({i \in AxRing : axBd[i].skb = s})]
  /\ axBd' = [i \in AxRing |-> [axBd[i] EXCEPT !.skb = 0, !.done = FALSE]]
  /\ axTail' = 0 /\ axCi' = 0 /\ axHw' = 0 /\ axLeft' = 0
  /\ axStatus' = {} /\ axHalted' = FALSE /\ axReset' = TRUE
  /\ UNCHANGED <<axUp, axStack, axLost, axStopped>>

AxInit ==
  /\ axUp = FALSE /\ axBd = AxEmpty /\ axTail = 0 /\ axCi = 0 /\ axHw = 0 /\ axLeft = 0
  /\ axRefs = [s \in AxSkb |-> 0] /\ axStack = {} /\ axLost = {} /\ axStopped = FALSE
  /\ axStatus = {} /\ axHalted = FALSE /\ axTasklet = FALSE /\ axReset = FALSE

AxNext ==
  \/ AxOpen \/ AxStop \/ AxHwSend \/ AxHwError \/ AxTxIrq \/ AxErrIrq \/ AxErrHandler
  \/ \E s \in AxSkb : AxNewSkb(s)
  \/ \E s \in AxSkb, n \in 0..AxFrags :
       AxXmitBusy(s, n) \/ AxXmitNoHeadroom(s, n) \/ \E stamp \in BOOLEAN : AxXmit(s, n, stamp)

----------------------------------------------------------------------------
\* No use after free on the transmit path: whoever still holds a buffer, a descriptor or
\* the stack, holds a reference to it, whatever errors and restarts the ring has seen.
\* (The buffers of a failed header allocation are the exception the code makes.)
AxHeld ==
  \A s \in AxSkb \ axLost :
    Cardinality({i \in AxRing : axBd[i].skb = s}) + Cardinality({i \in AxRing : axBd[i].ptp = s})
      + (IF s \in axStack THEN 1 ELSE 0) <= axRefs[s]

\* A stopped transmit queue has descriptors on their way whose completion wakes it, unless
\* an error has emptied the ring behind its back.
AxWoken ==
  axUp /\ axStopped /\ ~axReset => axLeft > 0 \/ (axBd[axCi].done /\ "ioc" \in axStatus)

----------------------------------------------------------------------------
VARIABLES arBd,      \* the frame each descriptor has received, 0 for none
          arCi,      \* rx_bd_ci
          arHw, arLeft,
          arCount,   \* frames received
          arUp,      \* the frames handed to the stack
          arStatus,  \* interrupts pending: "ioc", "err"
          arIrqOn,   \* interrupts enabled
          arTasklet, \* the error handler is scheduled
          arPc,      \* the poll routine: "idle", "sched", "loop", "recv", "end"
          arWork,    \* work_done
          arLast,    \* tail_p: the last descriptor axienet_recv looked at, -1 for none
          arAgain,   \* history: frames handed up whose descriptor found no new buffer
          arCut      \* history: why polls left frames: their "quota", an "err" they acknowledged

arVars == <<arBd, arCi, arHw, arLeft, arCount, arUp, arStatus, arIrqOn, arTasklet, arPc,
            arWork, arLast, arAgain, arCut>>
ArQueueUnchanged == UNCHANGED <<arBd, arCi, arHw, arLeft, arCount, arUp>>

\* __dma_rxq_init, axienet_mcdma_rx_q_init
ArInit ==
  /\ arBd = [i \in 0..(ArN - 1) |-> 0] /\ arCi = 0 /\ arHw = 0 /\ arLeft = ArN
  /\ arCount = 0 /\ arUp = << >> /\ arStatus = {} /\ arIrqOn = {"ioc", "err"}
  /\ arTasklet = FALSE /\ arPc = "idle" /\ arWork = 0 /\ arLast = -1
  /\ arAgain = {} /\ arCut = {}

\* A frame arrives, and completes a descriptor.
ArHwRecv ==
  /\ arLeft > 0 /\ arCount < ArFrames /\ arBd[arHw] = 0
  /\ arCount' = arCount + 1
  /\ arBd' = [arBd EXCEPT ![arHw] = arCount + 1]
  /\ arHw' = (arHw + 1) % ArN /\ arLeft' = arLeft - 1 /\ arStatus' = arStatus \cup {"ioc"}
  /\ UNCHANGED <<arCi, arUp, arIrqOn, arTasklet, arPc, arWork, arLast, arAgain, arCut>>

\* The hardware halts: on an error of its own, or on a descriptor that is still complete.
ArHwError ==
  /\ arLeft > 0 /\ arCount < ArFrames
  /\ arLeft' = 0 /\ arStatus' = arStatus \cup {"err"}
  /\ UNCHANGED <<arBd, arCi, arHw, arCount, arUp, arIrqOn, arTasklet, arPc, arWork, arLast,
                 arAgain, arCut>>

\* axienet_rx_irq, axienet_mcdma_rx_irq
ArIrq ==
  /\ arStatus \cap arIrqOn # {}
  /\ arPc' = IF "ioc" \in arStatus /\ arPc = "idle" THEN "sched" ELSE arPc
  /\ IF "err" \in arStatus THEN arStatus' = {} /\ arIrqOn' = {} /\ arTasklet' = TRUE
     ELSE arIrqOn' = arIrqOn \ {"ioc"} /\ UNCHANGED <<arStatus, arTasklet>>
  /\ ArQueueUnchanged /\ UNCHANGED <<arWork, arLast, arAgain, arCut>>

\* axienet_dma_err_handler on the receive ring: the descriptors keep their buffers, and
\* what they had received is forgotten.
ArErrHandler ==
  /\ arTasklet /\ arPc \in {"idle", "sched"}
  /\ arTasklet' = FALSE
  /\ arBd' = [i \in DOMAIN arBd |-> 0] /\ arCi' = 0 /\ arHw' = 0 /\ arLeft' = ArN
  /\ arStatus' = {} /\ arIrqOn' = {"ioc", "err"}
  /\ UNCHANGED <<arCount, arUp, arPc, arWork, arLast, arAgain, arCut>>

\* xaxienet_rx_poll is called.
ArPollStart ==
  /\ arPc = "sched" /\ arPc' = "loop" /\ arWork' = 0
  /\ ArQueueUnchanged /\ UNCHANGED <<arStatus, arIrqOn, arTasklet, arLast, arAgain, arCut>>

\* Its loop: the status is acknowledged, and then the ring is read.
ArPoll ==
  /\ arPc = "loop"
  /\ IF "ioc" \in arStatus /\ arWork < ArQuota
     THEN arStatus' = {} /\ arPc' = IF "err" \in arStatus THEN "end" ELSE "recv"
     ELSE arPc' = "end" /\ UNCHANGED arStatus
  /\ arLast' = -1
  /\ arCut' = arCut \cup (IF {"ioc", "err"} \subseteq arStatus THEN {"err"} ELSE {})
  /\ ArQueueUnchanged /\ UNCHANGED <<arIrqOn, arTasklet, arWork, arAgain>>

\* axienet_recv, one descriptor: the frame goes up, and a new buffer takes its place.
ArRecvOne ==
  /\ arPc = "recv" /\ arWork < ArQuota /\ arBd[arCi] # 0
  /\ arUp' = Append(arUp, arBd[arCi]) /\ arLast' = arCi
  /\ arBd' = [arBd EXCEPT ![arCi] = 0] /\ arCi' = (arCi + 1) % ArN /\ arWork' = arWork + 1
  /\ UNCHANGED <<arHw, arLeft, arCount, arStatus, arIrqOn, arTasklet, arPc, arAgain, arCut>>

\* The tail register is written: the hardware may go on as far as the last descriptor.
ArTail(last) == IF last = -1 THEN arLeft ELSE ((last - arHw) % ArN) + 1

\* axienet_recv finds no memory for a new buffer: the descriptor keeps the old one, which
\* has been handed up already.
ArNoBuffer ==
  /\ arPc = "recv" /\ arWork < ArQuota /\ arBd[arCi] # 0
  /\ Len(arUp) < 2 * ArFrames   \* bound
  /\ arUp' = Append(arUp, arBd[arCi]) /\ arAgain' = arAgain \cup {arBd[arCi]}
  /\ arLast' = arCi /\ arLeft' = ArTail(arCi) /\ arPc' = "loop"
  /\ UNCHANGED <<arBd, arCi, arHw, arCount, arStatus, arIrqOn, arTasklet, arWork, arCut>>

\* axienet_recv returns: the ring is empty, or the budget used up.
ArRecvEnd ==
  /\ arPc = "recv" /\ (arWork = ArQuota \/ arBd[arCi] = 0) /\ arPc' = "loop"
  /\ arLeft' = ArTail(arLast)
  /\ UNCHANGED <<arBd, arCi, arHw, arCount, arUp, arStatus, arIrqOn, arTasklet, arWork,
                 arLast, arAgain, arCut>>

\* Mutant: old interrupts are acknowledged before the interrupt is enabled.
ArPollEndAck ==
  /\ arPc = "end" /\ arStatus' = {}
  /\ IF arWork < ArQuota
     THEN arPc' = "idle" /\ arIrqOn' = arIrqOn \cup {"ioc"} /\ UNCHANGED arCut
     ELSE arPc' = "sched" /\ UNCHANGED arIrqOn /\ arCut' = arCut \cup {"quota"}
  /\ ArQueueUnchanged /\ UNCHANGED <<arTasklet, arWork, arLast, arAgain>>

\* xaxienet_rx_poll ends: below its quota it enables the interrupt; else it runs again.
ArPollEnd ==
  /\ arPc = "end"
  /\ IF arWork < ArQuota
     THEN arPc' = "idle" /\ arIrqOn' = arIrqOn \cup {"ioc"} /\ UNCHANGED arCut
     ELSE arPc' = "sched" /\ UNCHANGED arIrqOn /\ arCut' = arCut \cup {"quota"}
  /\ ArQueueUnchanged /\ UNCHANGED <<arStatus, arTasklet, arWork, arLast, arAgain>>

ArNext ==
  \/ ArHwRecv \/ ArHwError \/ ArIrq \/ ArErrHandler \/ ArPollStart \/ ArPoll \/ ArRecvOne
  \/ ArNoBuffer \/ ArRecvEnd \/ ArPollEnd

\* The receive path loses no wake-up: when the poll routine sleeps, a frame that waits in
\* the ring has its interrupt pending and enabled (or the error handler is about to drop
\* it), unless an earlier poll was cut short by its quota, an error or a missing buffer.
ArServed ==
  arPc = "idle" /\ arBd[arCi] # 0 =>
    \/ arStatus # {} /\ arIrqOn = {"ioc", "err"}
    \/ arTasklet \/ arCut # {} \/ arAgain # {}

\* Frames go up in the order they came, each of them once, as long as buffers can be had.
ArInOrder ==
  \A i \in 1..(Len(arUp) - 1) : arUp[i] < arUp[i + 1] \/ arUp[i] \in arAgain
=============================================================================
