------------------------------- MODULE Tadma -------------------------------
(***************************************************************************)
(* The transmit path of the time-aware DMA driver                          *)
(* (driver/xilinx/xilinx_tsn_tadma.c): one descriptor ring tx_bd per       *)
(* stream, filled by axienet_tadma_xmit under tadma_tx_lock, emptied by    *)
(* the interrupt handler tadma_irq, which scans WITHOUT the lock and only  *)
(* takes it in tadma_xmit_done.  The hardware side (address/length memory  *)
(* ALM, pointer memory PM, interrupt status) is external and is modelled   *)
(* from the way the driver reads and writes it.                            *)
(*                                                                         *)
(* A buffer's contents, its address and its length are abstracted: a slot  *)
(* is live (its DMA mapping and its skb are held by the driver) or not.    *)
(***************************************************************************)
EXTENDS Integers, FiniteSets

CONSTANTS
  N,          \* lp->num_tadma_buffers, the slots of one ring
  NumStreams, \* lp->num_streams
  MaxFrag,    \* the largest skb_shinfo(skb)->nr_frags offered to the driver
  SMP,        \* TRUE: the interrupt may run on another CPU than the sender
  Reopen      \* TRUE: the interface may be taken down and up again

\* The pointers of a PM word have 8 bits and are masked with N - 1, so N is a
\* power of two of at most 256.
ASSUME NAssumption == N \in {2, 4, 8, 16, 32, 64, 128, 256}
ASSUME NumStreamsAssumption == NumStreams \in Nat \ {0}
ASSUME MaxFragAssumption == MaxFrag \in Nat /\ MaxFrag < N
ASSUME FlagsAssumption == SMP \in BOOLEAN /\ Reopen \in BOOLEAN

Streams == 0 .. NumStreams - 1
Slots == 0 .. N - 1

VARIABLES
  dev,      \* "up", "stopping" (tx_bd freed, irq still registered), "down",
            \* "opening" (irq registered, the indices being rewritten)
  opn,      \* axienet_tadma_open: stream and index that its loop resets next
  torn,     \* history: the indices of a stream were reset under a running scan
  stopped,  \* the ST subqueue of the network device is stopped
  head,     \* lp->tx_bd_head[sid]: next slot to fill
  tail,     \* lp->tx_bd_tail[sid]: next slot to free
  rd,       \* lp->tx_bd_rd[sid]: next slot the interrupt handler examines
  live,     \* the slots whose mapping and skb the driver holds
  xm,       \* the sender inside axienet_tadma_xmit; it holds tadma_tx_lock
  irq,      \* the interrupt handler's locals
  uff,      \* hardware: the XTADMA_ALM_UFF bit of each ALM entry
  pmRd,     \* hardware: read pointer of the stream's PM word
  pmWr,     \* hardware: write pointer of the stream's PM word
  ffi       \* hardware: XTADMA_FFI_INT_EN pending in the status register

driver == <<stopped, head, tail, rd, live>>
hw == <<uff, pmRd, pmWr, ffi>>
vars == <<dev, opn, torn, stopped, head, tail, rd, live, xm, irq, uff, pmRd, pmWr, ffi>>

----------------------------------------------------------------------------
(* Ring arithmetic.  Both (x + 1) % N and (x + 1) & (N - 1) are Inc.        *)

Inc(i) == (i + 1) % N

\* How many increments lead from slot a to slot b.
Dist(a, b) == IF a <= b THEN b - a ELSE b - a + N

\* The slots from a (included) to b (excluded).
Window(a, b) == {i \in Slots : Dist(a, i) < Dist(a, b)}

\* tadma_stream_alm_offset: the ALM entry written for write pointer wr.
AlmSlot(wr) == (wr + N - 1) % N

\* axienet_check_pm_space: room for num descriptors between wr and rd.
CheckPmSpace(num, wr, r) == (IF r - wr < 0 THEN N + (r - wr) ELSE r - wr) >= num

Locked == xm.pc # "idle"

XmIdle == [pc |-> "idle", sid |-> 0, frags |-> 0, wr |-> 0, first |-> 0]
IrqIdle == [pc |-> "idle", sid |-> 0, cnt |-> 0, uff |-> FALSE, status |-> FALSE]

\* On one CPU spin_lock_irqsave keeps the handler out of the sender, and a
\* running handler is not interrupted by the sender.
IrqMayRun == SMP \/ ~Locked
XmitMayRun == SMP \/ irq.pc = "idle"

OpnIdle == [sid |-> 0, at |-> "head"]

\* tadma_irq works on the indices of stream s: scan, or tadma_xmit_done.
Scanning(s) == irq.pc \in {"read", "test", "done"} /\ irq.sid = s

----------------------------------------------------------------------------
Init ==
  /\ dev = "up" /\ stopped = FALSE
  /\ opn = OpnIdle /\ torn = [s \in Streams |-> FALSE]
  /\ head = [s \in Streams |-> 0]
  /\ tail = [s \in Streams |-> 0]
  /\ rd   = [s \in Streams |-> 0]
  /\ live = [s \in Streams |-> {}]
  /\ xm = XmIdle /\ irq = IrqIdle
  /\ uff  = [s \in Streams |-> [i \in Slots |-> FALSE]]
  /\ pmRd = [s \in Streams |-> 0]
  /\ pmWr = [s \in Streams |-> 1]
  /\ ffi = FALSE

----------------------------------------------------------------------------
(* axienet_tadma_xmit, for a frame of stream s with nf page fragments.  The *)
(* paths that return NETDEV_TX_BUSY without a change of state (no PM space, *)
(* DMA mapping error) are steps that change nothing and are left out.       *)

\* Mutant: the test of tx_bd_head against tx_bd_tail dropped.
RingNeverFull(s, nf) == FALSE

RingFull(s, nf) == (head[s] + nf + 1) % N = tail[s]

XmitEntered(s, nf) ==
  /\ dev = "up" /\ ~stopped /\ ~Locked /\ XmitMayRun
  /\ CheckPmSpace(nf + 1, pmWr[s], pmRd[s])

\* The circular buffer is full: stop the subqueue, return NETDEV_TX_BUSY.
XmitBusy(s, nf) ==
  /\ XmitEntered(s, nf) /\ RingFull(s, nf)
  /\ stopped' = TRUE
  /\ UNCHANGED <<dev, opn, torn, head, tail, rd, live, xm, irq, hw>>

\* Fill the first descriptor and advance tx_bd_head; nothing in ALM yet.
XmitFirstBd(s, nf) ==
  /\ XmitEntered(s, nf) /\ ~RingFull(s, nf)
  /\ live' = [live EXCEPT ![s] = @ \cup {head[s]}]
  /\ head' = [head EXCEPT ![s] = Inc(@)]
  /\ xm' = [pc |-> "frags", sid |-> s, frags |-> nf, wr |-> pmWr[s],
            first |-> AlmSlot(pmWr[s])]
  /\ UNCHANGED <<dev, opn, torn, stopped, tail, rd, irq, hw>>

\* Mutant: write_p not advanced for a fragment.
XmitFragSameWr ==
  /\ xm.pc = "frags" /\ xm.frags > 0
  /\ LET s == xm.sid
     IN  /\ live' = [live EXCEPT ![s] = @ \cup {head[s]}]
         /\ head' = [head EXCEPT ![s] = Inc(@)]
         /\ uff' = [uff EXCEPT ![s][AlmSlot(xm.wr)] = TRUE]
         /\ xm' = [xm EXCEPT !.frags = @ - 1]
  /\ UNCHANGED <<dev, opn, torn, stopped, tail, rd, irq, pmRd, pmWr, ffi>>

\* One iteration of the fragment loop: descriptor, then its ALM entry.
XmitFrag ==
  /\ xm.pc = "frags" /\ xm.frags > 0
  /\ LET s == xm.sid
         w == Inc(xm.wr)
     IN  /\ live' = [live EXCEPT ![s] = @ \cup {head[s]}]
         /\ head' = [head EXCEPT ![s] = Inc(@)]
         /\ uff' = [uff EXCEPT ![s][AlmSlot(w)] = TRUE]
         /\ xm' = [xm EXCEPT !.frags = @ - 1, !.wr = w]
  /\ UNCHANGED <<dev, opn, torn, stopped, tail, rd, irq, pmRd, pmWr, ffi>>

\* The ALM entry of the first descriptor, written last.
XmitFirstAlm ==
  /\ xm.pc = "frags" /\ xm.frags = 0
  /\ uff' = [uff EXCEPT ![xm.sid][xm.first] = TRUE]
  /\ xm' = [xm EXCEPT !.pc = "pm"]
  /\ UNCHANGED <<dev, opn, torn, driver, irq, pmRd, pmWr, ffi>>

\* Advance the PM write pointer (this hands the frame to the hardware) and
\* release tadma_tx_lock.
XmitPm ==
  /\ xm.pc = "pm"
  /\ pmWr' = [pmWr EXCEPT ![xm.sid] = Inc(xm.wr)]
  /\ xm' = XmIdle
  /\ UNCHANGED <<dev, opn, torn, driver, irq, uff, pmRd, ffi>>

XmitStep == XmitFrag \/ XmitFirstAlm \/ XmitPm

----------------------------------------------------------------------------
(* The hardware: the PM word of an empty stream has wr = rd + 1.  A trigger *)
(* fetches the entry at rd, clears its UFF bit, advances rd and raises FFI. *)

HwQueue(s) == Window(pmRd[s], AlmSlot(pmWr[s]))

HwFetch(s) ==
  /\ HwQueue(s) # {}
  /\ uff' = [uff EXCEPT ![s][pmRd[s]] = FALSE]
  /\ pmRd' = [pmRd EXCEPT ![s] = Inc(@)]
  /\ ffi' = TRUE
  /\ UNCHANGED <<dev, opn, torn, driver, xm, irq, pmWr>>

----------------------------------------------------------------------------
(* tadma_irq.  The line is shared (IRQF_SHARED), so the handler may also be *)
(* entered with no FFI pending.                                             *)

\* Read the status register.
IrqStatus ==
  /\ irq.pc = "idle" /\ IrqMayRun /\ dev # "down"
  /\ irq' = [IrqIdle EXCEPT !.pc = "clear", !.status = ffi]
  /\ UNCHANGED <<dev, opn, torn, driver, xm, hw>>

\* Write it back to INT_CLR; without FFI no stream is scanned.
IrqClear ==
  /\ irq.pc = "clear" /\ IrqMayRun
  /\ ffi' = (ffi /\ ~irq.status)
  /\ irq' = [irq EXCEPT !.pc = IF irq.status THEN "read" ELSE "wake"]
  /\ UNCHANGED <<dev, opn, torn, driver, xm, uff, pmRd, pmWr>>

\* Read the ALM entry at tx_bd_rd.
IrqRead ==
  /\ irq.pc = "read" /\ IrqMayRun
  /\ irq' = [irq EXCEPT !.pc = "test", !.uff = uff[irq.sid][rd[irq.sid]]]
  /\ UNCHANGED <<dev, opn, torn, driver, xm, hw>>

\* Mutant: the scan does not stop at tx_bd_head.
ScanPastHead ==
  /\ ~irq.uff
  /\ irq.cnt < N

\* The loop condition: the entry was fetched and the ring is not exhausted.
ScanGoesOn ==
  /\ ~irq.uff
  /\ irq.cnt < N
  /\ rd[irq.sid] # head[irq.sid]

IrqAdvance ==
  /\ irq.pc = "test" /\ IrqMayRun /\ ScanGoesOn
  /\ rd' = [rd EXCEPT ![irq.sid] = Inc(@)]
  /\ irq' = [irq EXCEPT !.pc = "read", !.cnt = @ + 1]
  /\ UNCHANGED <<dev, opn, torn, stopped, head, tail, live, xm, hw>>

\* What follows the scan of one stream.
NextStream(i) ==
  IF i.sid + 1 < NumStreams
  THEN [i EXCEPT !.pc = "read", !.sid = @ + 1, !.cnt = 0]
  ELSE [i EXCEPT !.pc = "wake", !.cnt = 0]

IrqScanned ==
  /\ irq.pc = "test" /\ IrqMayRun /\ ~ScanGoesOn
  /\ irq' = IF irq.cnt > 0 THEN [irq EXCEPT !.pc = "done"] ELSE NextStream(irq)
  /\ UNCHANGED <<dev, opn, torn, driver, xm, hw>>

\* tadma_xmit_done: under tadma_tx_lock free up to cnt descriptors, never
\* past tx_bd_head.
FreedCount(s, cnt) ==
  IF cnt <= Dist(tail[s], head[s]) THEN cnt ELSE Dist(tail[s], head[s])

XmitDone ==
  /\ irq.pc = "done" /\ IrqMayRun /\ ~Locked
  /\ LET s == irq.sid
         t == (tail[s] + FreedCount(s, irq.cnt)) % N
     IN  /\ live' = [live EXCEPT ![s] = @ \ Window(tail[s], t)]
         /\ tail' = [tail EXCEPT ![s] = t]
  /\ irq' = NextStream(irq)
  /\ UNCHANGED <<dev, opn, torn, stopped, head, rd, xm, hw>>

\* Mutant: the interrupt status is cleared on the way out, after the scan.
IrqWakeLateClear ==
  /\ irq.pc = "wake" /\ IrqMayRun
  /\ stopped' = FALSE /\ ffi' = FALSE
  /\ irq' = IrqIdle
  /\ UNCHANGED <<dev, opn, torn, head, tail, rd, live, xm, uff, pmRd, pmWr>>

\* Mutant: the handler returns without waking the queues.
IrqNoWake ==
  /\ irq.pc = "wake" /\ IrqMayRun
  /\ irq' = IrqIdle
  /\ UNCHANGED <<dev, opn, torn, driver, xm, hw>>

\* netif_tx_wake_all_queues, on every way out of the handler.
IrqWake ==
  /\ irq.pc = "wake" /\ IrqMayRun
  /\ stopped' = FALSE
  /\ irq' = IrqIdle
  /\ UNCHANGED <<dev, opn, torn, head, tail, rd, live, xm, hw>>

IrqStep == IrqClear \/ IrqRead \/ IrqAdvance \/ IrqScanned \/ XmitDone \/ IrqWake

----------------------------------------------------------------------------
(* Taking the interface down and up.  The stack has left the xmit routine   *)
(* before ndo_stop runs, and enters it again after ndo_open.                *)

\* axienet_tadma_stop, first half: free every tx_bd array.
Stop ==
  /\ Reopen /\ dev = "up" /\ ~Locked
  /\ dev' = "stopping"
  /\ UNCHANGED <<opn, torn, driver, xm, irq, hw>>

\* Second half: free_irq waits for a running handler and removes it.
StopFreeIrq ==
  /\ dev = "stopping" /\ irq.pc = "idle"
  /\ dev' = "down"
  /\ UNCHANGED <<opn, torn, driver, xm, irq, hw>>

\* axienet_tadma_open, first half: request_irq.  From here on tadma_irq may
\* run, over the indices that the last stop left behind.
OpenIrq ==
  /\ dev = "down"
  /\ dev' = "opening" /\ opn' = OpnIdle
  /\ UNCHANGED <<torn, driver, xm, irq, hw>>

\* The loop that resets the indices, one assignment at a time, without the
\* lock: on one CPU the handler runs to its end between two of them, on
\* another CPU it may be in the middle of its scan.  The race of the single
\* loads and stores is not resolved further: torn says that there was one.
OpenHead ==
  /\ dev = "opening" /\ opn.at = "head" /\ XmitMayRun
  /\ head' = [head EXCEPT ![opn.sid] = 0]
  /\ torn' = [torn EXCEPT ![opn.sid] = Scanning(opn.sid)]
  /\ opn' = [opn EXCEPT !.at = "tail"]
  /\ UNCHANGED <<dev, stopped, tail, rd, live, xm, irq, hw>>

OpenTail ==
  /\ dev = "opening" /\ opn.at = "tail" /\ XmitMayRun
  /\ tail' = [tail EXCEPT ![opn.sid] = 0]
  /\ torn' = [torn EXCEPT ![opn.sid] = @ \/ Scanning(opn.sid)]
  /\ opn' = [opn EXCEPT !.at = "rd"]
  /\ UNCHANGED <<dev, stopped, head, rd, live, xm, irq, hw>>

\* The third index and the new array of the stream.  What was live at the
\* stop is lost with the old array; the hardware is not soft-reset, so the PM
\* pointers stay where they are.  The last stream ends the open.
OpenRd ==
  /\ dev = "opening" /\ opn.at = "rd" /\ XmitMayRun
  /\ rd' = [rd EXCEPT ![opn.sid] = 0]
  /\ live' = [live EXCEPT ![opn.sid] = {}]
  /\ torn' = [torn EXCEPT ![opn.sid] = @ \/ Scanning(opn.sid)]
  /\ IF opn.sid + 1 < NumStreams
     THEN /\ opn' = [sid |-> opn.sid + 1, at |-> "head"]
          /\ UNCHANGED <<dev, stopped>>
     ELSE /\ dev' = "up" /\ stopped' = FALSE /\ opn' = OpnIdle
  /\ UNCHANGED <<head, tail, xm, irq, hw>>

Open == OpenIrq \/ OpenHead \/ OpenTail \/ OpenRd

----------------------------------------------------------------------------
Xmit == \E s \in Streams, nf \in 0 .. MaxFrag : XmitBusy(s, nf) \/ XmitFirstBd(s, nf)

Next ==
  \/ Xmit \/ XmitStep
  \/ \E s \in Streams : HwFetch(s)
  \/ IrqStatus \/ IrqStep
  \/ Stop \/ StopFreeIrq \/ Open

\* A sender and a handler that entered run to their end; a pending interrupt
\* is taken; the schedule triggers every stream again in every cycle.
Fairness ==
  /\ WF_vars(XmitStep)
  /\ WF_vars(ffi /\ IrqStatus)
  /\ WF_vars(IrqStep)
  /\ \A s \in Streams : WF_vars(HwFetch(s))

Spec == Init /\ [][Next]_vars
FairSpec == Spec /\ Fairness

----------------------------------------------------------------------------
(* Properties.                                                              *)

XmType == [pc : {"idle", "frags", "pm"}, sid : Streams, frags : 0 .. MaxFrag,
           wr : Slots, first : Slots]
IrqType == [pc : {"idle", "clear", "read", "test", "done", "wake"},
            sid : Streams, cnt : 0 .. N, uff : BOOLEAN, status : BOOLEAN]
OpnType == [sid : Streams, at : {"head", "tail", "rd"}]

\* Type invariant of the driver's and the hardware's state.
TypeOK ==
  /\ dev \in {"up", "stopping", "down", "opening"}
  /\ opn \in OpnType
  /\ torn \in [Streams -> BOOLEAN]
  /\ stopped \in BOOLEAN
  /\ head \in [Streams -> Slots]
  /\ tail \in [Streams -> Slots]
  /\ rd \in [Streams -> Slots]
  /\ live \in [Streams -> SUBSET Slots]
  /\ xm \in XmType
  /\ irq \in IrqType
  /\ uff \in [Streams -> [Slots -> BOOLEAN]]
  /\ pmRd \in [Streams -> Slots]
  /\ pmWr \in [Streams -> Slots]
  /\ ffi \in BOOLEAN

\* The indices of stream s are in use: not those that axienet_tadma_open has
\* still to reset, and not those it reset under a scan on another CPU.  The
\* latter can only happen with SMP and Reopen; what the code does to such a
\* ring, until the next open that meets no scan, has no rule.
Settled(s) == (dev = "opening" => s < opn.sid) /\ ~torn[s]

\* Between tail and head, and nowhere else, the driver holds a mapping and an
\* skb: no descriptor is overwritten while live (tx_bd_head never runs into
\* tx_bd_tail) and tadma_xmit_done never unmaps one twice, although the
\* handler advances tx_bd_rd outside the lock.
LiveIsWindow ==
  \A s \in Streams : Settled(s) => live[s] = Window(tail[s], head[s])

\* tadma_irq's count is exactly the distance from tail to rd of the stream it
\* is scanning, and outside the scan rd and tail agree: what the scan claimed
\* is what tadma_xmit_done frees, whatever the sender did in between, and
\* also when the handler ran between the assignments of an open.
ScanMatchesTail ==
  \A s \in Streams : Settled(s) =>
    /\ Dist(tail[s], rd[s]) <= Dist(tail[s], head[s])
    /\ Dist(tail[s], rd[s]) = IF Scanning(s) THEN irq.cnt ELSE 0

\* The hardware only ever holds buffers that are still mapped: no frame handed
\* over with the PM write pointer is freed before the hardware fetched it.
HwQueueIsLive ==
  \A s \in Streams : HwQueue(s) \subseteq live[s]

\* The ALM entry the handler examines for a slot is the one the sender wrote
\* for it: outside a transmission the PM write pointer is one past tx_bd_head.
IndicesAgree ==
  ~Locked => \A s \in Streams : AlmSlot(pmWr[s]) = head[s]

\* The hardware and the driver have the same view of a ring: what the hardware will fetch is mapped,
\* and both count its slots alike (axienet_tadma_xmit, tadma_xmit_done).
QueueIsSound == HwQueueIsLive /\ IndicesAgree

\* A fetched descriptor is reclaimed: the interrupt status is cleared before
\* the scan, so no fetch is lost between the scan and the next interrupt.
FetchedIsReclaimed ==
  \A s \in Streams, i \in Slots :
    (i \in live[s] /\ i \notin HwQueue(s) /\ ~Locked) ~> i \notin live[s]

\* A queue stopped on a full ring is woken again.
StoppedIsWoken == stopped ~> ~stopped

=============================================================================
