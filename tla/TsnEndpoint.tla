---------------------------- MODULE TsnEndpoint ----------------------------
(***************************************************************************)
(* The network devices of the TSN IP core and their data path:             *)
(* xilinx_tsn_ep.c (the end point "ep"), xilinx_tsn_ep_ex.c (the extended   *)
(* end point "ex"), xilinx_tsn_ip.c (the front ports "mac1" and "mac2") and *)
(* the interrupts of the channels of xilinx_axienet_mcdma.c, which share    *)
(* one DMA controller.  The rings themselves are in module AxiDma.          *)
(*                                                                         *)
(* Without a switch (TSN_BRIDGEEP_EPONLY) mac1 is the only port and owns    *)
(* the data path; otherwise ep owns it and the ports send through ep.       *)
(***************************************************************************)
EXTENDS Integers, Sequences, Functions

CONSTANTS EpChanNum,  \* chan_num: the channel of each receive queue (xlnx,channel-ids)
          EpPorts,    \* front ports behind the switch: "mac1", "mac2"
          EpTx,       \* num_tx_queues
          EpBusy,     \* channels that receive frames (bound)
          EpFrames    \* frames that wait in the rings (bound)

VARIABLES epOnly,     \* abl_reg: end point only
          epReg,      \* registered devices
          epUp,       \* devices that are open (netif_running)
          epSlaves,   \* ep's slaves[]: the ports it knows
          epEx,       \* ep's ex_ep is set
          epIrq,      \* how often each interrupt is requested
          epNapiOn,   \* queues whose NAPI is enabled
          epRun,      \* channels that run
          epRing,     \* the frames in each channel, as the device each is for
          epPend,     \* the interrupt status of each channel: "ioc", "err"
          epOn,       \* the interrupts each channel may raise
          epSched,    \* queues whose poll routine is scheduled
          epTasklet,  \* queues whose error handler is scheduled
          epGot,      \* what the last step delivered: the device meant, the device reached
          epFailed,   \* history: opening the data path has failed
          epWarned,   \* history: an interrupt was freed that nobody had requested
          epBug,      \* napi_enable found NAPI enabled: the kernel stops
          epCut       \* history: a poll met an error and left its ring as it was

epVars == <<epOnly, epReg, epUp, epSlaves, epEx, epIrq, epNapiOn, epRun, epRing, epPend,
            epOn, epSched, epTasklet, epGot, epFailed, epWarned, epBug, epCut>>
EpDevVars == <<epOnly, epReg, epUp, epSlaves, epEx, epIrq, epNapiOn, epFailed, epWarned, epBug>>
EpChanVars == <<epRun, epRing, epPend, epOn, epSched, epTasklet, epCut>>
EpQuiet == epGot' = << >>

EpQ == 1..Len(EpChanNum)                      \* the receive queues, dq[]
EpTxQ == 1..EpTx
EpChan == {EpChanNum[q] : q \in EpQ}

\* The device tree gives each queue a channel of its own.
ASSUME EpAssumption ==
  /\ EpChanNum \in Seq(Nat) /\ IsInjective(EpChanNum) /\ EpBusy \subseteq EpChan
  /\ EpPorts \cap {"ep", "ex"} = {} /\ EpTx \in Nat /\ EpFrames \in Nat

EpDevs == IF epOnly THEN {"mac1"} ELSE {"ep", "ex"} \cup EpPorts
EpOwner == IF epOnly THEN "mac1" ELSE "ep"    \* the device with the data path
EpIrqs == ({"rx"} \X EpQ) \cup ({"tx"} \X EpTxQ) \cup ({"ptp_rx", "ptp_tx"} \X (EpPorts \cup {"mac1"}))

\* free_irq: freeing an interrupt nobody requested only warns.
EpFreed(irq, s) == [k \in EpIrqs |-> IF k \in s /\ irq[k] > 0 THEN irq[k] - 1 ELSE irq[k]]
EpUnasked(irq, s) == \E k \in s : irq[k] = 0
EpAsked(irq, s) == [k \in EpIrqs |-> IF k \in s THEN irq[k] + 1 ELSE irq[k]]

----------------------------------------------------------------------------
\* Probing.

\* tsn_ep_probe with tsn_mcdma_probe
EpProbe ==
  /\ ~epOnly /\ "ep" \notin epReg
  /\ epReg' = epReg \cup {"ep"} /\ epSlaves' = {} /\ epEx' = FALSE
  /\ UNCHANGED EpChanVars /\ EpQuiet
  /\ UNCHANGED <<epOnly, epUp, epIrq, epNapiOn, epFailed, epWarned, epBug>>

\* axienet_tsn_probe: a port makes itself known to the end point.
EpProbePort(d) ==
  /\ d \in EpDevs \ (epReg \cup {"ep", "ex"}) /\ (epOnly \/ "ep" \in epReg)
  /\ epReg' = epReg \cup {d}
  /\ epSlaves' = IF epOnly THEN epSlaves ELSE epSlaves \cup {d}
  /\ UNCHANGED EpChanVars /\ EpQuiet
  /\ UNCHANGED <<epOnly, epUp, epEx, epIrq, epNapiOn, epFailed, epWarned, epBug>>

\* tsn_ex_ep_probe
EpProbeEx ==
  /\ ~epOnly /\ "ex" \notin epReg /\ "ep" \in epReg
  /\ epReg' = epReg \cup {"ex"} /\ epEx' = TRUE
  /\ UNCHANGED EpChanVars /\ EpQuiet
  /\ UNCHANGED <<epOnly, epUp, epSlaves, epIrq, epNapiOn, epFailed, epWarned, epBug>>

\* tsn_ex_ep_remove: ep's ex_ep still points to the device that is freed.
EpRemoveEx ==
  /\ "ex" \in epReg /\ epReg' = epReg \ {"ex"} /\ epUp' = epUp \ {"ex"}
  /\ UNCHANGED EpChanVars /\ EpQuiet
  /\ UNCHANGED <<epOnly, epSlaves, epEx, epIrq, epNapiOn, epFailed, epWarned, epBug>>

----------------------------------------------------------------------------
\* tsn_data_path_open.  fail is where it fails: <<"rx", q>> or <<"tx", q>> when that interrupt
\* cannot be had, <<"tadma", 0>> when axienet_tadma_open fails, <<"no", 0>> not at all.
EpFails == ({"rx"} \X EpQ) \cup ({"tx"} \X EpTxQ) \cup {<<"tadma", 0>>, <<"no", 0>>}
EpOpened(fail) == IF fail[1] = "rx" THEN {q \in EpQ : q < fail[2]} ELSE EpQ

\* axienet_mcdma_rx_q_init for the queues qs: empty rings, running channels
EpRxQInit(qs) ==
  LET chans == {EpChanNum[q] : q \in qs}
  IN  /\ epRun' = chans
      /\ epRing' = [c \in EpChan |-> << >>] /\ epPend' = [c \in EpChan |-> {}]
      /\ epOn' = [c \in EpChan |-> IF c \in chans THEN {"ioc", "err"} ELSE {}]

EpDataOpen(fail, irq) ==
  LET rx   == {"rx"} \X EpOpened(fail)
      tx   == {"tx"} \X (CASE fail[1] = "rx" -> {}
                           [] fail[1] = "tx" -> {q \in EpTxQ : q < fail[2]}
                           [] OTHER -> EpTxQ)
      asked == EpAsked(irq, rx \cup tx)
      \* err_tadma frees the receive interrupts in place of the transmit interrupts.
      once  == IF fail[1] = "tadma" THEN EpFreed(asked, {"rx"} \X EpTxQ) ELSE asked
  IN  /\ epIrq' = IF fail[1] \in {"tx", "tadma"} THEN EpFreed(once, {"rx"} \X EpQ) ELSE once
      /\ epWarned' = (epWarned \/ (fail[1] \in {"tx", "tadma"} /\ EpUnasked(once, {"rx"} \X EpQ)))
      /\ epBug' = (epNapiOn \cap EpOpened(fail) # {})
      /\ epNapiOn' = epNapiOn \cup EpOpened(fail)
      /\ epFailed' = (epFailed \/ fail[1] # "no")
      /\ EpRxQInit(EpOpened(fail))
      /\ EpQuiet /\ UNCHANGED <<epSched, epTasklet, epCut>>

\* tsn_ep_open
EpOpen(fail) ==
  /\ "ep" \in epReg \ epUp
  /\ EpDataOpen(fail, epIrq)
  /\ epUp' = IF fail[1] = "no" THEN epUp \cup {"ep"} ELSE epUp
  /\ UNCHANGED <<epOnly, epReg, epSlaves, epEx>>

\* axienet_tsn_open: a port.  What tsn_data_path_open returns is ignored.
EpOpenPort(d, fail) ==
  /\ d \in (epReg \ epUp) \ {"ep", "ex"}
  /\ epUp' = epUp \cup {d}
  /\ LET irq == EpAsked(epIrq, {"ptp_rx", "ptp_tx"} \X {d})
     IN  IF epOnly THEN EpDataOpen(fail, irq)
         ELSE /\ fail[1] = "no" /\ epIrq' = irq
              /\ UNCHANGED EpChanVars /\ EpQuiet
              /\ UNCHANGED <<epNapiOn, epFailed, epWarned, epBug>>
  /\ UNCHANGED <<epOnly, epReg, epSlaves, epEx>>

\* axienet_tsn_open without one of the two PTP interrupts: the port stays closed.
EpOpenPortNoIrq(d) ==
  /\ d \in (epReg \ epUp) \ {"ep", "ex"}
  /\ UNCHANGED epVars

\* tsn_ex_ep_open, tsn_ex_ep_stop
EpToggleEx ==
  /\ "ex" \in epReg
  /\ epUp' = IF "ex" \in epUp THEN epUp \ {"ex"} ELSE epUp \cup {"ex"}
  /\ UNCHANGED EpChanVars /\ EpQuiet
  /\ UNCHANGED <<epOnly, epReg, epSlaves, epEx, epIrq, epNapiOn, epFailed, epWarned, epBug>>

\* The interrupts tsn_data_path_close frees
EpDataIrqs == ({"rx"} \X EpQ) \cup ({"tx"} \X EpTxQ)

\* tsn_data_path_close
EpDataClose(irq, s) ==
  /\ epIrq' = EpFreed(irq, s \cup EpDataIrqs)
  /\ epWarned' = (epWarned \/ EpUnasked(irq, s \cup EpDataIrqs))
  /\ epNapiOn' = {} /\ epSched' = {} /\ epTasklet' = {} /\ epRun' = {}
  /\ epRing' = [c \in EpChan |-> << >>] /\ epPend' = [c \in EpChan |-> {}]
  /\ EpQuiet /\ UNCHANGED <<epOn, epFailed, epBug, epCut>>

\* tsn_ep_stop
EpStop ==
  /\ "ep" \in epUp /\ epUp' = epUp \ {"ep"}
  /\ EpDataClose(epIrq, {})
  /\ UNCHANGED <<epOnly, epReg, epSlaves, epEx>>

\* axienet_tsn_stop, on a MAC without the buffer whose interrupt it also frees
EpStopPort(d) ==
  /\ d \in epUp \ {"ep", "ex"} /\ epUp' = epUp \ {d}
  /\ LET s == {"ptp_rx", "ptp_tx"} \X {d}
     IN  IF epOnly THEN EpDataClose(epIrq, s)
         ELSE /\ epIrq' = EpFreed(epIrq, s) /\ epWarned' = (epWarned \/ EpUnasked(epIrq, s))
              /\ UNCHANGED EpChanVars /\ EpQuiet
              /\ UNCHANGED <<epNapiOn, epFailed, epBug>>
  /\ UNCHANGED <<epOnly, epReg, epSlaves, epEx>>

----------------------------------------------------------------------------
\* The receive channels: what axienet_mcdma_rx_q_init flags them as.
EpKind(c) ==
  LET n == Len(EpChanNum)
  IN  CASE (n = 7 /\ c \in {5, 6, 7}) \/ (n = 5 /\ c \in {4, 5}) -> "ex"
        [] ~((n = 7 /\ c \in {5, 6, 7}) \/ (n = 5 /\ c \in {4, 5})) /\ ~epOnly /\ c = 3 -> "mgmt"
        [] OTHER -> "own"

\* A frame comes in on a channel; its sideband status names the device it is for.
EpReceive(c, to) ==
  /\ ~epFailed   \* bound
  /\ c \in epRun \cap EpBusy /\ FoldFunction(LAMBDA r, n : n + Len(r), 0, epRing) < EpFrames
  /\ to \in (CASE EpKind(c) = "ex" -> {"ex"} [] EpKind(c) = "mgmt" -> EpDevs [] OTHER -> {EpOwner})
  /\ epRing' = [epRing EXCEPT ![c] = Append(@, to)]
  /\ epPend' = [epPend EXCEPT ![c] = @ \cup {"ioc"}]
  /\ EpQuiet /\ UNCHANGED EpDevVars /\ UNCHANGED <<epRun, epOn, epSched, epTasklet, epCut>>

EpError(c) ==
  /\ ~epFailed   \* bound
  /\ c \in epRun \cap EpBusy
  /\ epPend' = [epPend EXCEPT ![c] = @ \cup {"err"}]
  /\ UNCHANGED EpDevVars
  /\ EpQuiet /\ UNCHANGED <<epRun, epRing, epOn, epSched, epTasklet, epCut>>

\* map_dma_q_rxirq: the lowest channel with an interrupt
EpRaised == {c \in EpChan : epPend[c] \cap epOn[c] # {}}
EpLowest == CHOOSE c \in EpRaised : \A d \in EpRaised : c <= d

\* Mutant: channels are taken for queues.
EpQueueOfPlain(c) == c
\* get_mcdma_rx_q: qnum[i] is i.
EpQueueOf(c) == CHOOSE q \in EpQ : EpChanNum[q] = c

\* axienet_mcdma_rx_irq
EpRxIrq ==
  /\ EpRaised # {}
  /\ LET c == EpLowest
         q == EpQueueOf(c)
         st == epPend[c]
     IN  /\ epSched' = IF "ioc" \in st /\ q \in epNapiOn THEN epSched \cup {q} ELSE epSched
         /\ epOn' = [epOn EXCEPT ![c] = IF "err" \in st THEN {} ELSE @ \ {"ioc"}]
         /\ epTasklet' = IF "err" \in st THEN epTasklet \cup {q} ELSE epTasklet
         /\ epPend' = IF "err" \in st THEN [epPend EXCEPT ![c] = {}] ELSE epPend
  /\ EpQuiet /\ UNCHANGED EpDevVars /\ UNCHANGED <<epRun, epRing, epCut>>

\* The device axienet_recv hands a frame of channel c to: on the management channel the
\* status of the first frame decides.  A device that is not running gets nothing ("drop").
EpTarget(c, first) ==
  LET d == CASE EpKind(c) = "own" -> EpOwner
             [] EpKind(c) = "ex" -> IF epEx THEN "ex" ELSE "drop"
             [] OTHER -> IF first \in epSlaves \cup {"ep"} \cup (IF epEx THEN {"ex"} ELSE {})
                         THEN first ELSE "drop"
  IN  IF EpKind(c) = "own" \/ d \in epUp THEN d ELSE "drop"

\* sband_status: read once, before the first frame
EpLead(ring) == Head(ring)

\* xaxienet_rx_poll on queue q, one turn of its loop
EpPoll(q) ==
  /\ q \in epSched
  /\ LET c == EpChanNum[q]
         st == epPend[c]
     IN  /\ epPend' = IF "ioc" \in st THEN [epPend EXCEPT ![c] = {}] ELSE epPend
         /\ IF "ioc" \in st /\ "err" \notin st /\ epRing[c] # << >>
            THEN /\ epGot' = [i \in DOMAIN epRing[c] |->
                               <<epRing[c][i], EpTarget(c, EpLead(epRing[c]))>>]
                 /\ epRing' = [epRing EXCEPT ![c] = << >>]
            ELSE epGot' = << >> /\ UNCHANGED epRing
         /\ IF "ioc" \in st /\ "err" \notin st THEN UNCHANGED <<epSched, epOn>>
            ELSE epSched' = epSched \ {q} /\ epOn' = [epOn EXCEPT ![c] = @ \cup {"ioc"}]
         /\ epCut' = (epCut \/ {"ioc", "err"} \subseteq st)
  /\ UNCHANGED EpDevVars /\ UNCHANGED <<epRun, epTasklet>>

\* axienet_mcdma_err_handler: the controller is reset, and only the channel of queue q is
\* given its ring and enabled again.
EpErrHandler(q) ==
  /\ q \in epTasklet /\ epTasklet' = epTasklet \ {q}
  /\ epRun' = {EpChanNum[q]}
  /\ epRing' = [epRing EXCEPT ![EpChanNum[q]] = << >>]
  /\ epPend' = [c \in EpChan |-> {}]
  /\ epOn' = [c \in EpChan |-> IF c = EpChanNum[q] THEN {"ioc", "err"} ELSE {}]
  /\ EpQuiet /\ UNCHANGED EpDevVars /\ UNCHANGED <<epSched, epCut>>

----------------------------------------------------------------------------
\* The way of a frame that is sent.
EpFrameKinds == {"ptp", "ptp_udp", "udp", "ip", "other"}

\* axienet_tsn_pcp_to_queue
EpPcpToQueue(k) == CASE k \in {"ptp_udp", "udp"} -> "st" [] k = "ip" -> "res" [] OTHER -> "be"

\* axienet_tsn_select_queue, axienet_tsn_ep_select_queue; udp is flag_ptp_v2_udp.
EpSelectQueue(d, k, udp) ==
  CASE d = "ep" -> EpPcpToQueue(k)
    [] d # "ep" /\ (k = "ptp" \/ (k = "ptp_udp" /\ udp)) -> "ptp"
    [] d # "ep" /\ ~(k = "ptp" \/ (k = "ptp_udp" /\ udp)) /\ epOnly -> EpPcpToQueue(k)
    [] OTHER -> "be"

\* tsn_ep_xmit, axienet_tsn_xmit, tsn_ex_ep_xmit: the time stamped buffers, the scheduled
\* DMA, a ring of the MCDMA; a port behind the switch passes the frame on to the end point.
EpWay(d, k, udp) ==
  LET map == EpSelectQueue(d, k, udp)
      own(m) == IF m = "st" THEN "tadma" ELSE "ring"
  IN  CASE d = "ex" -> own(EpPcpToQueue(k))
        [] d # "ex" /\ map = "ptp" -> "ptp"
        [] d # "ex" /\ map # "ptp" /\ d = EpOwner -> own(map)
        [] OTHER -> own(EpSelectQueue("ep", k, udp))

----------------------------------------------------------------------------
EpInit ==
  /\ epOnly \in BOOLEAN /\ epReg = {} /\ epUp = {} /\ epSlaves = {} /\ epEx = FALSE
  /\ epIrq = [k \in EpIrqs |-> 0] /\ epNapiOn = {} /\ epRun = {}
  /\ epRing = [c \in EpChan |-> << >>] /\ epPend = [c \in EpChan |-> {}]
  /\ epOn = [c \in EpChan |-> {}] /\ epSched = {} /\ epTasklet = {} /\ epGot = << >>
  /\ epFailed = FALSE /\ epWarned = FALSE /\ epBug = FALSE /\ epCut = FALSE

EpNext ==
  /\ ~epBug
  /\ \/ EpProbe \/ EpProbeEx \/ EpRemoveEx \/ EpToggleEx \/ EpStop \/ EpRxIrq
     \/ \E d \in EpDevs \ {"ep", "ex"} : EpProbePort(d) \/ EpOpenPortNoIrq(d) \/ EpStopPort(d)
     \/ \E f \in EpFails : EpOpen(f) \/ \E d \in EpDevs \ {"ep", "ex"} : EpOpenPort(d, f)
     \/ \E c \in EpBusy : EpError(c) \/ \E to \in EpDevs : EpReceive(c, to)
     \/ \E q \in EpQ : EpPoll(q) \/ EpErrHandler(q)

\* Opening and closing balance: as long as no opening of the data path has failed, no
\* interrupt is freed twice or stays requested by a closed device, and NAPI is enabled only
\* when it was disabled.  (After a failure tsn_data_path_open leaves all three behind.)
EpBalanced ==
  ~epFailed =>
    /\ ~epWarned /\ ~epBug
    /\ EpOwner \notin epUp => epNapiOn = {} /\ \A k \in EpIrqs : k[1] \in {"rx", "tx"} => epIrq[k] = 0

\* The channels share one interrupt handler and none is forgotten: a frame in the ring of a
\* running channel has its interrupt pending, its own poll routine scheduled or its error
\* handler about to run, unless an error once cut a poll short.
EpServed ==
  \A q \in EpQ :
    LET c == EpChanNum[q]
    IN  c \in epRun /\ epRing[c] # << >> /\ ~epCut /\ q \in epNapiOn =>
          ("ioc" \in epPend[c] /\ "ioc" \in epOn[c]) \/ q \in epSched \/ q \in epTasklet

\* The management channel sorts frames by the device they are for: a frame reaches no other
\* device, unless it came in the wake of a frame for that device.
EpRightDevice ==
  \A i \in DOMAIN epGot : epGot[i][2] \notin {epGot[i][1], "drop"} =>
    \E j \in 1..(i - 1) : epGot[j][1] = epGot[i][2]

\* UDP frames, and no others, are sent by the scheduled DMA, whatever device they are sent
\* on and whether or not there is a switch; PTP over UDP is time stamped instead once it
\* was asked for, unless the end point sends it.
EpScheduled ==
  \A d \in epUp, k \in EpFrameKinds, udp \in BOOLEAN :
    /\ EpWay(d, k, udp) = "tadma" => k \in {"udp", "ptp_udp"}
    /\ k = "udp" => EpWay(d, k, udp) = "tadma"
    /\ d \notin {"ep", "ex"} => (EpWay(d, k, udp) = "ptp" <=> k = "ptp" \/ (k = "ptp_udp" /\ udp))

\* The queues of the end point and of its ports share DMA channels, interrupts and handlers: each
\* frame takes the way of its kind and none is left behind (axienet_mcdma_rx_irq, axienet_queue_xmit).
EpSound == EpBalanced /\ EpServed /\ EpRightDevice /\ EpScheduled
=============================================================================
