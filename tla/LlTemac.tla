------------------------------- MODULE LlTemac -------------------------------
(***************************************************************************)
(* The LL TEMAC driver (ll_temac_main.c, ll_temac_mdio.c): transmit ring    *)
(* whose only free mark is app0 = 0, receive ring with a tail pointer, and  *)
(* the life of the device (probe, open, stop, remove) with the failures it  *)
(* handles.  The three parts share no state the properties are about and    *)
(* have an Init and a Next each.                                            *)
(***************************************************************************)
EXTENDS Integers, Sequences, FiniteSets, TLC

CONSTANTS LtN,         \* TX_BD_NUM
          LtFrags,     \* most fragments of a frame
          LtSkbs,      \* frames to send (bound)
          LrN,         \* RX_BD_NUM
          LrFrames     \* frames received (bound)

\* A frame fits into the transmit ring (TX_BD_NUM is 64, MAX_SKB_FRAGS at most 17).
ASSUME LlAssumption ==
  /\ LtN \in Nat \ {0} /\ LtFrags \in Nat /\ LtFrags < LtN /\ LtSkbs \in Nat
  /\ LrN \in Nat \ {0} /\ LrFrames \in Nat

(***************************************************************************)
(* Transmit                                                                *)
(***************************************************************************)
VARIABLES ltBd,        \* app0 of each descriptor: a set of "sop", "eop", "done"
          ltHeld,      \* history: the frame each descriptor belongs to, 0 when none
          ltCi,        \* tx_bd_ci
          ltTail,      \* tx_bd_tail
          ltHw,        \* descriptor the device sends next
          ltStopped,   \* the queue is stopped
          ltIrq,       \* a transmit interrupt is asserted
          ltCount,     \* frames handed over
          ltOver       \* history: marks of the waiting descriptors that were overwritten

ltVars == <<ltBd, ltHeld, ltCi, ltTail, ltHw, ltStopped, ltIrq, ltCount, ltOver>>
LtInc(i, n) == (i + 1) % n

\* temac_check_tx_bd_space: app0 of the descriptors for k fragments and the head
LtBusy(k) == \E i \in 0..k : ltBd[(ltTail + i) % LtN] # {}

\* temac_start_xmit: the head descriptor carries SOP, the last one EOP, and app0 of the
\* ones between is 0 like that of a free one.
LtXmit(k) ==
  /\ ~ltStopped /\ ltCount < LtSkbs
  /\ IF LtBusy(k) THEN ltStopped' = TRUE /\ UNCHANGED <<ltBd, ltHeld, ltTail, ltCount, ltOver>>
     ELSE LET mine == {(ltTail + i) % LtN : i \in 0..k}
              last == (ltTail + k) % LtN
              lost == {d \in mine : ltHeld[d] # 0}
          IN  /\ ltOver' = ltOver \cup {ltBd[d] : d \in lost}
              /\ ltBd' = [d \in 0..(LtN - 1) |->
                            IF d \notin mine THEN ltBd[d]
                            ELSE (IF d = ltTail THEN {"sop"} ELSE {}) \cup (IF d = last THEN {"eop"} ELSE {})]
              /\ ltHeld' = [d \in 0..(LtN - 1) |-> IF d \in mine THEN ltCount + 1 ELSE ltHeld[d]]
              /\ ltTail' = LtInc(last, LtN) /\ ltCount' = ltCount + 1 /\ UNCHANGED ltStopped
  /\ UNCHANGED <<ltCi, ltHw, ltIrq>>

\* External: the device completes descriptors one by one up to the tail.
LtHwDone ==
  /\ ltHeld[ltHw] # 0 /\ "done" \notin ltBd[ltHw] /\ ltOver = {}
  /\ ltBd' = [ltBd EXCEPT ![ltHw] = @ \cup {"done"}] /\ ltHw' = LtInc(ltHw, LtN) /\ ltIrq' = TRUE
  /\ UNCHANGED <<ltHeld, ltCi, ltTail, ltStopped, ltCount, ltOver>>

\* Completed descriptors in a row from tx_bd_ci on
LtRun == {i \in 0..(LtN - 1) : \A j \in 0..i : "done" \in ltBd[(ltCi + j) % LtN]}
\* app0 to app4 are cleared.
LtDoneBd(app0) == {}
\* ll_temac_tx_irq, temac_start_xmit_done: completed descriptors are reclaimed in order and
\* the queue is woken, whether anything was reclaimed or not.
LtTxIrq ==
  LET run == {(ltCi + i) % LtN : i \in LtRun}
  IN  /\ ltIrq
      /\ ltBd' = [d \in 0..(LtN - 1) |-> IF d \in run THEN LtDoneBd(ltBd[d]) ELSE ltBd[d]]
      /\ ltHeld' = [d \in 0..(LtN - 1) |-> IF d \in run THEN 0 ELSE ltHeld[d]]
      /\ ltCi' = (ltCi + Cardinality(run)) % LtN
      /\ ltIrq' = FALSE /\ ltStopped' = FALSE /\ UNCHANGED <<ltTail, ltHw, ltCount, ltOver>>

LtInit ==
  /\ ltBd = [d \in 0..(LtN - 1) |-> {}] /\ ltHeld = [d \in 0..(LtN - 1) |-> 0]
  /\ ltCi = 0 /\ ltTail = 0 /\ ltHw = 0 /\ ltStopped = FALSE /\ ltIrq = FALSE /\ ltCount = 0 /\ ltOver = {}
LtNext == (\E k \in 0..LtFrags : LtXmit(k)) \/ LtHwDone \/ LtTxIrq

\* A descriptor that still belongs to a frame is not given to another one
\* (temac_check_tx_bd_space reads app0 only), but for the descriptors in the middle of a
\* frame, whose app0 says nothing, and a stopped queue has an interrupt to wait for.
LtKept ==
  /\ ltOver \subseteq {{}}
  /\ ltStopped /\ ltOver = {} => ltIrq \/ (ltHeld[ltHw] # 0 /\ "done" \notin ltBd[ltHw])

(***************************************************************************)
(* Receive                                                                 *)
(***************************************************************************)
VARIABLES lrDone,      \* descriptors with CMPLT set
          lrSkb,       \* rx_skb: an skb per descriptor
          lrCi,        \* rx_bd_ci
          lrTail,      \* RX_TAILDESC_PTR
          lrHw,        \* descriptor the device fills next
          lrIdle,      \* the device has filled the tail and waits
          lrIrq,       \* a receive interrupt is asserted
          lrUp,        \* skbs handed to the stack
          lrNew,       \* skbs allocated so far
          lrCount,     \* frames received
          lrNoMem,     \* history: an allocation failed
          lrTwice      \* history: an skb was handed up twice

lrVars == <<lrDone, lrSkb, lrCi, lrTail, lrHw, lrIdle, lrIrq, lrUp, lrNew, lrCount, lrNoMem, lrTwice>>

LrRun == {i \in 0..(LrN - 1) : \A j \in 0..i : (lrCi + j) % LrN \in lrDone}
\* RX_TAILDESC_PTR: the first descriptor of the run; writing it starts the device again.
LrNewTail(n) == [tail |-> lrCi, idle |-> FALSE]

\* ll_temac_rx_irq, ll_temac_recv: every completed descriptor is handed up and given a new
\* skb; when none can be had the call returns with the descriptor still complete, its skb
\* still in rx_skb, and the tail as it was.  fail: the allocation that fails, from 1.
LrRxIrq(fail) ==
  LET n == Cardinality(LrRun)
      k == IF fail \in 1..n THEN fail - 1 ELSE n
      given == {(lrCi + i) % LrN : i \in 0..(k - 1)}
      up == {lrSkb[d] : d \in given} \cup (IF fail \in 1..n THEN {lrSkb[(lrCi + k) % LrN]} ELSE {})
  IN  /\ lrIrq /\ lrIrq' = FALSE
      /\ lrUp' = lrUp \cup up /\ lrTwice' = (lrTwice \/ up \cap lrUp # {})
      /\ lrDone' = lrDone \ given
      /\ lrSkb' = [d \in 0..(LrN - 1) |->
                     IF d \in given THEN lrNew + 1 + ((d - lrCi) % LrN) ELSE lrSkb[d]]
      /\ lrNew' = lrNew + k /\ lrCi' = (lrCi + k) % LrN
      /\ lrNoMem' = (lrNoMem \/ fail \in 1..n)
      /\ IF fail \in 1..n THEN UNCHANGED <<lrTail, lrIdle>>
         ELSE lrTail' = LrNewTail(n).tail /\ lrIdle' = LrNewTail(n).idle
      /\ UNCHANGED <<lrHw, lrCount>>

\* External: the device fills descriptors up to the tail, and waits there.
LrHwFill ==
  /\ ~lrIdle /\ lrCount < LrFrames /\ lrCount' = lrCount + 1
  /\ lrDone' = lrDone \cup {lrHw} /\ lrIdle' = (lrHw = lrTail) /\ lrHw' = LtInc(lrHw, LrN) /\ lrIrq' = TRUE
  /\ UNCHANGED <<lrSkb, lrCi, lrTail, lrUp, lrNew, lrNoMem, lrTwice>>

LrInit ==
  /\ lrDone = {} /\ lrSkb = [d \in 0..(LrN - 1) |-> d + 1] /\ lrCi = 0 /\ lrTail = LrN - 1 /\ lrHw = 0
  /\ lrIdle = FALSE /\ lrIrq = FALSE /\ lrUp = {} /\ lrNew = LrN /\ lrCount = 0 /\ lrNoMem = FALSE /\ lrTwice = FALSE
LrNext == LrHwFill \/ \E fail \in 0..LrN : LrRxIrq(fail)

\* While every allocation succeeds, a descriptor the device may fill holds no frame yet, no
\* skb goes up twice, and the device waits only with an interrupt to come (the tail written
\* by ll_temac_recv is the first descriptor of the run, not the last).
LrServed ==
  ~lrNoMem => /\ ~lrIdle => lrHw \notin lrDone
              /\ ~lrTwice
              /\ (lrIdle \/ lrDone # {}) => lrIrq

(***************************************************************************)
(* The life of the device                                                  *)
(***************************************************************************)
VARIABLES llDev,       \* "none", "probed", "open"
          llHas,       \* resources held
          llDangling,  \* freed, with a pointer that is still used
          llBad,       \* history: a resource was freed that was not held, or lost
          llFailed,    \* history: a step of probe or open failed, or there was no bus
          llOptions,   \* lp->options
          llRegs,      \* bits of the option registers
          llGroups,    \* multicast addresses in the filter
          llLink       \* last_link

llVars == <<llDev, llHas, llDangling, llBad, llFailed, llOptions, llRegs, llGroups, llLink>>

\* XTE_OPTION_DEFAULTS
LlDefaults == {"txen", "flow", "rxen"}
\* temac_options: one bit per option and register
LlTable == {"jumbo", "vlan", "fcs_strip", "fcs_insert", "lentype", "flow", "promisc", "txen", "rxen"}
\* temac_setoptions: options the caller leaves out are cleared in the registers, and stay in
\* lp->options.
LlSetOptions(st, o) == [st EXCEPT !.regs = (@ \ LlTable) \cup (o \cap LlTable), !.options = @ \cup o]
\* temac_set_multicast_list: all or too many, some, none
LlSetMulticast(st, flags, groups) ==
  IF flags # {} \/ Cardinality(groups) > 4 THEN [st EXCEPT !.regs = @ \cup {"promisc"}]
  ELSE IF groups # {} THEN [st EXCEPT !.groups = groups]
  ELSE [st EXCEPT !.regs = @ \ {"promisc"}, !.groups = {}]
\* temac_dma_bd_release; rx_skb keeps the freed address
LlBdRelease(st) ==
  [st EXCEPT !.has = @ \ {"rings"}, !.bad = @ \/ "rings" \notin st.has, !.dangling = @ \cup {"rings"}]
\* temac_dma_bd_init: what was allocated is released when one allocation fails.
LlBdInit(st, ok) ==
  LET had == [st EXCEPT !.bad = @ \/ "rings" \in st.has, !.has = @ \cup {"rings"}, !.dangling = @ \ {"rings"}]
  IN  IF ok THEN had ELSE LlBdRelease([had EXCEPT !.failed = TRUE])
\* temac_device_reset: goes on when the rings cannot be allocated.
LlDeviceReset(st, ok, flags, groups) ==
  LET a == [LlBdInit(st, ok) EXCEPT !.regs = {"flow"}]
      b == LlSetOptions(a, a.options \ {"txen", "rxen"})
      c == LlSetMulticast(b, flags, groups)
  IN  LlSetOptions(c, c.options)

LlSt == [dev |-> llDev, has |-> llHas, dangling |-> llDangling, bad |-> llBad, failed |-> llFailed, options |-> llOptions,
         regs |-> llRegs, groups |-> llGroups]
LlBecomes(st) ==
  /\ llDev' = st.dev /\ llHas' = st.has /\ llDangling' = st.dangling /\ llBad' = st.bad /\ llFailed' = st.failed
  /\ llOptions' = st.options /\ llRegs' = st.regs /\ llGroups' = st.groups

\* Resources of temac_of_probe in the order in which they are taken
LlOrder == <<"ndev", "regs", "sdma", "sysfs", "registered">>
\* temac_mdio_setup: a bus that cannot be registered is freed, and lp->mii_bus keeps it.
LlMdio(st, bus) ==
  CASE bus = "ok" -> [st EXCEPT !.has = @ \cup {"bus"}]
    [] bus = "fails" -> [st EXCEPT !.dangling = @ \cup {"bus"}, !.failed = TRUE]
    [] OTHER -> [st EXCEPT !.failed = TRUE]
\* temac_of_probe: step fail fails (0: none) and what was taken before it is given back
\* (err_register_ndev, err_iounmap_2, err_iounmap, nodev); the answer of temac_mdio_setup is only logged.
\* The bus is not taken down when a later step fails.
LlProbe(fail, bus) ==
  /\ llDev = "none" /\ llHas = {} /\ UNCHANGED llLink
  /\ IF fail = 0
     THEN LlBecomes(LlMdio([LlSt EXCEPT !.dev = "probed", !.options = LlDefaults, !.has = {LlOrder[i] : i \in 1..5}], bus))
     ELSE LlBecomes([LlSt EXCEPT !.has = IF fail \in 4..5 /\ bus = "ok" THEN {"bus"} ELSE {}, !.failed = TRUE])
\* temac_open: the PHY, the reset, the two interrupts; a failure leaves the rings.
LlOpen(memory, irq, flags, groups) ==
  /\ llDev = "probed" /\ UNCHANGED llLink
  /\ LET st == LlDeviceReset(LlSt, memory, flags, groups)
     IN  LlBecomes(IF irq THEN [st EXCEPT !.dev = "open", !.has = @ \cup {"irqs", "phy"}] ELSE [st EXCEPT !.failed = TRUE])
\* temac_stop: the descriptors are released; skbs that wait in the transmit ring are not freed.
LlStop ==
  /\ llDev = "open" /\ UNCHANGED llLink
  /\ LlBecomes(LlBdRelease([LlSt EXCEPT !.dev = "probed", !.has = @ \ {"irqs", "phy"}]))
\* temac_of_remove: the bus first (temac_mdio_teardown), also when there is none
LlRemove ==
  /\ llDev = "probed" /\ UNCHANGED llLink
  /\ LlBecomes([LlSt EXCEPT !.dev = "none", !.has = @ \cap {"rings"}, !.bad = @ \/ "bus" \notin llHas \/ "rings" \in llHas,
                            !.dangling = {}])
\* speed | duplex << 1 | link: the duplex bit is one of the bits of 10
LlLinkState(speed, duplex, link) == <<speed, duplex \/ speed = 10, link>>
\* temac_adjust_link: the speed is written when the link state has changed.
LlAdjustLink(speed, duplex, link) ==
  /\ llDev = "open" /\ llLink # LlLinkState(speed, duplex, link)
  /\ llLink' = LlLinkState(speed, duplex, link)
  /\ llRegs' = (llRegs \ {"10", "100", "1000"}) \cup {ToString(speed)}
  /\ UNCHANGED <<llDev, llHas, llDangling, llBad, llFailed, llOptions, llGroups>>

LlInit == /\ llDev = "none" /\ llHas = {} /\ llDangling = {} /\ llBad = FALSE /\ llFailed = FALSE /\ llOptions = {}
          /\ llRegs = {} /\ llGroups = {} /\ llLink = << >>
LlNext ==
  \/ \E fail \in 0..5, bus \in {"ok", "fails", "absent"} : LlProbe(fail, bus)
  \/ \E memory, irq \in BOOLEAN, flags \in SUBSET {"promisc"}, groups \in SUBSET {1, 2} : LlOpen(memory, irq, flags, groups)
  \/ LlStop \/ LlRemove
  \/ \E speed \in {10, 1000}, duplex, link \in BOOLEAN : LlAdjustLink(speed, duplex, link)

\* As long as no step of probe or open fails, nothing is allocated over something that is
\* still held, freed twice, or left behind by temac_of_remove (temac_open, temac_stop).
LlHeld == ~llFailed => ~llBad /\ (llDev = "none" => llHas = {})
=============================================================================
