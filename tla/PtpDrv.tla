------------------------------- MODULE PtpDrv -------------------------------
(***************************************************************************)
(* Time stamping in the TSN driver: the buffers PTP event messages are sent *)
(* and received through (xilinx_tsn_ptp_xmit.c) and the hardware clock      *)
(* (xilinx_tsn_ptp_clock.c).  Three independent parts: transmit (px),       *)
(* receive (pr) and clock (pc).  Frames are numbered in the order they are  *)
(* sent, and a time stamp is the number of the frame it was taken for.      *)
(***************************************************************************)
EXTENDS Integers, Sequences, FiniteSets, FiniteSetsExt

CONSTANTS PxBuffers,   \* transmit buffers (8)
          PxFrames,    \* frames to send (bound)
          PrBuffers,   \* receive buffers (16, the pointers' 0xf + 1)
          PrFrames,    \* frames received (bound)
          PcBase,      \* nanoseconds in a second
          PcWord,      \* values of a 32 bit register
          PcTimes,     \* the times and amounts of calls to set and adjust the clock
          PcSteps      \* operations on the clock (bound)

ASSUME PtpDrvAssumption ==
  /\ PxBuffers \in Nat \ {0} /\ PrBuffers \in Nat \ {0}
  /\ PcBase \in Nat \ {0} /\ PcWord \in Nat /\ PcWord > 2
  /\ PcTimes \subseteq 0..(PcWord * PcBase - 1)

VARIABLES pxNext,      \* the next frame
          pxBuf,       \* the frame written last to each buffer
          pxStamp,     \* the time stamp each buffer holds
          pxWaiting,   \* PTP_TX_FRAME_WAITING
          pxLast,      \* PTP_TX_PACKET: the buffer sent last
          pxSent,      \* frames that have left
          pxQ,         \* ptp_txq, frames with their buffers (cb[0])
          pxHeld,      \* frames written to a buffer and not yet queued
          pxIrq, pxWork, \* interrupt pending, tx_tstamp_work scheduled
          pxStopped,   \* the device queue is stopped
          pxGiven,     \* the time stamp each frame was given, -1 for none
          pxOneStep    \* ptp_ts_type is HWTSTAMP_TX_ONESTEP_SYNC

pxVars == <<pxNext, pxBuf, pxStamp, pxWaiting, pxLast, pxSent, pxQ, pxHeld, pxIrq, pxWork,
            pxStopped, pxGiven, pxOneStep>>

PxB == 0..(PxBuffers - 1)

\* Mutant: the number of waiting frames
PxFreeCount == Cardinality(pxWaiting)
\* fls(tx_frame_waiting): the buffer behind the last one that waits
PxFree == IF pxWaiting = {} THEN 0 ELSE Max(pxWaiting) + 1

\* axienet_ptp_xmit with the last buffer in use
PxBusy ==
  /\ PxBuffers - 1 \in pxWaiting /\ pxStopped' = TRUE
  /\ UNCHANGED <<pxNext, pxBuf, pxStamp, pxWaiting, pxLast, pxSent, pxQ, pxHeld, pxIrq, pxWork,
                 pxGiven, pxOneStep>>

\* axienet_ptp_xmit until the frame is handed to the hardware.  A Sync that is stamped on
\* the way is not queued.
PxXmit(sync) ==
  /\ ~pxStopped /\ pxHeld = << >> /\ PxBuffers - 1 \notin pxWaiting /\ pxNext <= PxFrames
  /\ pxBuf' = [pxBuf EXCEPT ![PxFree] = pxNext] /\ pxWaiting' = pxWaiting \cup {PxFree}
  /\ pxHeld' = IF sync /\ pxOneStep THEN << >> ELSE <<pxNext, PxFree>>
  /\ pxNext' = pxNext + 1
  /\ UNCHANGED <<pxStamp, pxLast, pxSent, pxQ, pxIrq, pxWork, pxStopped, pxGiven, pxOneStep>>

\* ... and then queued for its time stamp.
PxQueue ==
  /\ pxHeld # << >> /\ pxQ' = Append(pxQ, pxHeld) /\ pxHeld' = << >>
  /\ UNCHANGED <<pxNext, pxBuf, pxStamp, pxWaiting, pxLast, pxSent, pxIrq, pxWork, pxStopped,
                 pxGiven, pxOneStep>>

\* The hardware sends the first frame that waits, keeps its time stamp and raises the interrupt.
PxHwSend ==
  /\ pxWaiting # {}
  /\ LET b == Min(pxWaiting)
     IN  /\ pxWaiting' = pxWaiting \ {b} /\ pxLast' = b
         /\ pxStamp' = [pxStamp EXCEPT ![b] = pxBuf[b]] /\ pxSent' = pxSent \cup {pxBuf[b]}
  /\ pxIrq' = TRUE
  /\ UNCHANGED <<pxNext, pxBuf, pxQ, pxHeld, pxWork, pxStopped, pxGiven, pxOneStep>>

\* axienet_ptp_tx_irq
PxIrq ==
  /\ pxIrq /\ pxIrq' = FALSE /\ pxWork' = TRUE /\ pxStopped' = FALSE
  /\ UNCHANGED <<pxNext, pxBuf, pxStamp, pxWaiting, pxLast, pxSent, pxQ, pxHeld, pxGiven, pxOneStep>>

\* axienet_tx_tstamp: frames are taken from the queue until one lies in a buffer behind the
\* one sent last; that frame goes to the end of the queue.
PxReady(q) == CHOOSE k \in 0..Len(q) : /\ \A i \in 1..k : q[i][2] <= pxLast
                                       /\ k = Len(q) \/ q[k + 1][2] > pxLast
PxTstamp ==
  /\ pxWork /\ pxWork' = FALSE
  /\ LET k == PxReady(pxQ)
         rest == SubSeq(pxQ, k + 1, Len(pxQ))
         done == {pxQ[i] : i \in 1..k}
     IN  /\ pxGiven' = [f \in 1..PxFrames |->
                          IF \E e \in done : e[1] = f
                          THEN pxStamp[(CHOOSE e \in done : e[1] = f)[2]] ELSE pxGiven[f]]
         /\ pxQ' = IF rest = << >> THEN rest ELSE Append(Tail(rest), Head(rest))
  /\ UNCHANGED <<pxNext, pxBuf, pxStamp, pxWaiting, pxLast, pxSent, pxHeld, pxIrq, pxStopped, pxOneStep>>

\* axienet_tsn_open
PxInit ==
  /\ pxNext = 1 /\ pxBuf = [b \in PxB |-> 0] /\ pxStamp = [b \in PxB |-> 0] /\ pxWaiting = {}
  /\ pxLast = 0 /\ pxSent = {} /\ pxQ = << >> /\ pxHeld = << >> /\ pxIrq = FALSE
  /\ pxWork = FALSE /\ pxStopped = FALSE /\ pxGiven = [f \in 1..PxFrames |-> -1]
  /\ pxOneStep \in BOOLEAN

PxNext ==
  \/ PxBusy \/ PxQueue \/ PxHwSend \/ PxIrq \/ PxTstamp
  \/ \E sync \in BOOLEAN : PxXmit(sync)

\* No frame is lost in the buffers: a frame that was written to a buffer is there until it
\* has been sent.
PxKept == \A f \in 1..(pxNext - 1) : f \in pxSent \/ \E b \in pxWaiting : pxBuf[b] = f

\* Not kept (the comment in axienet_tx_tstamp): a frame "yet to be xmited" is put back, so
\* that a frame is given its own time stamp.  The work may read a buffer before it is sent.
PxStampRight == \A f \in 1..PxFrames : pxGiven[f] \in {-1, f}

----------------------------------------------------------------------------
VARIABLES prHw,        \* the hardware's pointer: the buffer filled last
          prBuf,       \* the frame in each buffer
          prCount,     \* frames received
          prPtr,       \* ptp_rx_sw_pointer, modulo the number of buffers
          prIrq,       \* interrupt pending
          prUp,        \* frames handed up
          prOver       \* history: the buffers were all unread when one more frame came

prVars == <<prHw, prBuf, prCount, prPtr, prIrq, prUp, prOver>>

\* axienet_tsn_open: ptp_rx_sw_pointer = 0xff
PrStart == PrBuffers - 1

PrHwRecv ==
  /\ prCount < PrFrames /\ prCount' = prCount + 1
  /\ prHw' = (prHw + 1) % PrBuffers /\ prBuf' = [prBuf EXCEPT ![(prHw + 1) % PrBuffers] = prCount + 1]
  /\ prOver' = (prOver \/ prCount - Len(prUp) >= PrBuffers - 1)
  /\ prIrq' = TRUE /\ UNCHANGED <<prPtr, prUp>>

\* axienet_ptp_rx_irq, axienet_ptp_recv: up to the buffer the hardware has filled last
PrIrq ==
  /\ prIrq /\ prIrq' = FALSE
  /\ LET n == (prHw - prPtr) % PrBuffers
     IN  prUp' = prUp \o [i \in 1..n |-> prBuf[(prPtr + i) % PrBuffers]]
  /\ prPtr' = prHw
  /\ UNCHANGED <<prHw, prBuf, prCount, prOver>>

PrInit ==
  /\ prHw = PrBuffers - 1 /\ prBuf = [b \in 0..(PrBuffers - 1) |-> 0] /\ prCount = 0
  /\ prPtr = PrStart /\ prIrq = FALSE /\ prUp = << >> /\ prOver = FALSE

PrNext == PrHwRecv \/ PrIrq

\* Every frame is handed up, once and in the order of arrival, unless the interrupt was so
\* late that the buffers overran.
PrInOrder ==
  ~prOver => /\ \A i \in 1..Len(prUp) : prUp[i] = i
             /\ prIrq \/ Len(prUp) = prCount

----------------------------------------------------------------------------
VARIABLES pcRaw,       \* the counter of the clock, in nanoseconds
          pcSec, pcNs, \* XTIMER1588_RTC_OFFSET
          pcWant,      \* history: the time the clock was told to have
          pcClamped,   \* history: a time before the counter was asked for
          pcDone       \* operations so far

pcVars == <<pcRaw, pcSec, pcNs, pcWant, pcClamped, pcDone>>
PcRange == PcWord * PcBase
PcTime == (pcRaw + pcSec * PcBase + pcNs) % PcRange     \* xlnx_tod_read

\* xlnx_ptp_settime: the offset is cleared, the counter read and the difference written.  A
\* difference below a second loses its (negative) seconds and keeps its nanoseconds.
PcSetTime(t) ==
  LET tod == pcRaw % PcRange
      delta == t - tod
  IN  /\ pcSec' = (IF delta < PcBase THEN 0 ELSE delta \div PcBase)
      /\ pcNs' = delta % PcBase

PcSet(t) ==
  /\ pcDone < PcSteps /\ pcDone' = pcDone + 1 /\ PcSetTime(t)
  /\ pcWant' = t /\ pcClamped' = (t < pcRaw % PcRange)
  /\ UNCHANGED <<pcRaw>>

\* xlnx_ptp_adjtime: the offset's registers hold a sum, its seconds modulo their width.
PcAdj(d) ==
  /\ pcDone < PcSteps /\ pcDone' = pcDone + 1
  /\ LET sum == pcSec * PcBase + pcNs + d
     IN  pcSec' = (sum \div PcBase) % PcWord /\ pcNs' = sum % PcBase
  /\ pcWant' = (pcWant + d) % PcRange
  /\ UNCHANGED <<pcRaw, pcClamped>>

PcTick ==
  /\ pcDone < PcSteps /\ pcDone' = pcDone + 1
  /\ pcRaw' = pcRaw + 1 /\ pcWant' = (pcWant + 1) % PcRange
  /\ UNCHANGED <<pcSec, pcNs, pcClamped>>

\* axienet_ptp_timer_probe sets the time of the system.
PcInit ==
  /\ pcRaw \in 0..1 /\ pcWant \in PcBase..(2 * PcBase) /\ pcClamped = FALSE
  /\ pcSec = (pcWant - pcRaw) \div PcBase /\ pcNs = (pcWant - pcRaw) % PcBase
  /\ pcDone = 0

PcNext == PcTick \/ \E t \in PcTimes : PcSet(t) \/ PcAdj(t) \/ PcAdj(-t)

\* The clock shows the time it was set to, moved by every adjustment and tick since, unless
\* it was set to a time before its counter.
PcExact == ~pcClamped => PcTime = pcWant

----------------------------------------------------------------------------
\* The three parts, which share no state, in any interleaving
PtpDrvInit == PxInit /\ PrInit /\ PcInit
PtpDrvNext ==
  \/ PxNext /\ UNCHANGED <<prVars, pcVars>>
  \/ PrNext /\ UNCHANGED <<pxVars, pcVars>>
  \/ PcNext /\ UNCHANGED <<pxVars, prVars>>
PtpDrvSpec == PtpDrvInit /\ [][PtpDrvNext]_<<pxVars, prVars, pcVars>>

\* Time stamped frames and the clock that stamps them: no frame is lost in the buffers between the
\* driver and the hardware, and the clock is exact (ptp_xmit.c, ptp_recv.c, ptp_clock.c).
PxSound == PxKept /\ PrInOrder /\ PcExact
=============================================================================
