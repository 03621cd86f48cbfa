------------------------------- MODULE AxiMac -------------------------------
(***************************************************************************)
(* The life of an AXI Ethernet device outside its rings                    *)
(* (xilinx_axienet_main.c, xilinx_axienet_mdio.c): probing and removing,    *)
(* opening and closing, and the configuration of the MAC: options, frame    *)
(* size, flow control and multicast filter.  A 1G MAC with its own buffer,  *)
(* which is the one with an interrupt and a filter of its own.              *)
(***************************************************************************)
EXTENDS Integers, Sequences, FiniteSets, SequencesExt

CONSTANTS AmGroups,  \* multicast groups
          AmCamNum,  \* XAE_MULTICAST_CAM_TABLE_NUM
          AmQueues,  \* DMA queues
          AmProbes   \* attempts to probe the device (bound)

ASSUME AmAssumption == AmCamNum \in Nat

VARIABLES amProbed, amTries, \* the device is registered; attempts to probe it
          amClk,     \* how often each clock is enabled
          amBus,     \* the MDIO bus is registered
          amUp,      \* the device is open
          amIrq,     \* interrupts requested
          amNapi,    \* NAPI is enabled
          amOpts,    \* lp->options
          amHw,      \* the bits set in the MAC's registers
          amMtu,     \* the mtu: "std", or "jumbo" above XAE_MTU
          amBuf,     \* the size of the receive buffers: lp->max_frm_size when the ring was filled
          amMc,      \* the multicast list of the device
          amFlags,   \* IFF_PROMISC, IFF_ALLMULTI
          amCam,     \* the multicast table of the MAC
          amPause,   \* history: the flow control asked for by the last ethtool -A
          amReset,   \* history: the error handler has reset the MAC since the filter was set
          amLeft     \* history: a failed probe or open left something behind

amVars == <<amProbed, amTries, amClk, amBus, amUp, amIrq, amNapi, amOpts, amHw, amMtu, amBuf, amMc,
            amFlags, amCam, amPause, amReset, amLeft>>
AmConfVars == <<amOpts, amHw, amMtu, amBuf, amMc, amFlags, amCam, amPause, amReset>>

AmQ == 0..(AmQueues - 1)
AmClocks == {"dma_tx", "dma_rx", "dma_sg", "aclk", "sclk", "refclk"}
AmFcc(rx, tx) == (IF rx THEN {"fcrx"} ELSE {}) \cup (IF tx THEN {"fctx"} ELSE {})

----------------------------------------------------------------------------
\* Clocks, as axienet_dma_clk_init and axienet_clk_init (xxvenet_clk_init) enable them: when
\* clock k of the sequence fails, the ones before it are disabled again.
AmEnable(clk, s) == [c \in AmClocks |-> IF c \in ToSet(s) THEN clk[c] + 1 ELSE clk[c]]
AmDisable(clk) == [c \in AmClocks |-> clk[c] - 1]      \* axienet_clk_disable: all of them
AmDmaClkInit == <<"dma_tx", "dma_rx", "dma_sg">>
AmClkInit == <<"aclk", "sclk", "refclk">>

\* axienet_probe, and where it fails: "early" before any clock (memory, DMA channels, a DMA
\* clock), "clk" in axienet_clk_init, "mac" without an address, "sysfs", "reg" registering.
AmProbeOk(bus) ==
  /\ amClk' = AmEnable(AmEnable(amClk, AmDmaClkInit), AmClkInit)
  /\ amProbed' = TRUE /\ amBus' = bus /\ UNCHANGED amLeft

\* When axienet_clk_init fails, which has put its clocks back, all clocks are disabled; when
\* the attributes cannot be created, nothing is undone.
AmProbeFail(at) ==
  /\ amClk' = CASE at = "early" -> amClk
                [] at = "clk" -> AmDisable(AmEnable(amClk, AmDmaClkInit))
                [] at = "sysfs" -> AmEnable(AmEnable(amClk, AmDmaClkInit), AmClkInit)
                [] OTHER -> AmDisable(AmEnable(AmEnable(amClk, AmDmaClkInit), AmClkInit))
  /\ amLeft' = (amLeft \/ at \in {"clk", "sysfs"})
  /\ UNCHANGED <<amProbed, amBus>>

AmProbe ==
  /\ ~amProbed /\ ~amLeft /\ amTries < AmProbes /\ amTries' = amTries + 1
  /\ \/ \E bus \in BOOLEAN : AmProbeOk(bus)
     \/ \E at \in {"early", "clk", "mac", "sysfs", "reg"} : AmProbeFail(at)
  /\ amOpts' = {"flow", "txen", "rxen"} /\ amMtu' = "std" /\ amMc' = << >> /\ amFlags' = {}
  /\ amPause' = {"unset"} /\ amReset' = FALSE
  /\ UNCHANGED <<amUp, amIrq, amNapi, amHw, amBuf, amCam>>

\* axienet_remove; unregister_netdev has closed the device.
AmRemove ==
  /\ amProbed /\ ~amUp /\ amProbed' = FALSE /\ amBus' = FALSE
  /\ amClk' = AmDisable(amClk)
  /\ UNCHANGED <<amTries, amUp, amIrq, amNapi, amLeft>> /\ UNCHANGED AmConfVars

----------------------------------------------------------------------------
\* The configuration of the MAC.

\* axienet_options: the register bits each option stands for
AmBits(o) == CASE o = "jumbo" -> {"jumbo"} [] o = "vlan" -> {"vlan"} [] o = "flow" -> {"fcrx", "fctx"}
               [] o = "promisc" -> {"pm"} [] o = "txen" -> {"txen"} [] OTHER -> {"rxen"}
AmAllBits == UNION {AmBits(o) : o \in {"jumbo", "vlan", "flow", "promisc", "txen", "rxen"}}

\* axienet_setoptions: the bits of every option are written; options only ever grow.
AmSetOptions(hw, opts) == (hw \ AmAllBits) \cup UNION {AmBits(o) : o \in opts}

\* axienet_set_multicast_list: too many groups for the table
AmTooMany(mc) == Len(mc) > AmCamNum

AmPromisc(flags, mc) == flags # {} \/ AmTooMany(mc)
AmFilterBits(hw, flags, mc) ==
  CASE AmPromisc(flags, mc) -> hw \cup {"pm"}
    [] ~AmPromisc(flags, mc) /\ mc # << >> -> hw
    [] OTHER -> hw \ {"pm"}
AmFilterCam(cam, flags, mc) ==
  CASE AmPromisc(flags, mc) -> cam
    [] ~AmPromisc(flags, mc) /\ mc # << >> ->
         [i \in 1..AmCamNum |-> IF i <= Len(mc) THEN mc[i] ELSE cam[i]]
    [] OTHER -> [i \in 1..AmCamNum |-> "none"]

\* Mutant: the option of an earlier, larger mtu stays.
AmOptsForKeep(mtu) == amOpts \cup {"vlan"} \cup (IF mtu = "jumbo" THEN {"jumbo"} ELSE {})
\* axienet_device_reset: the options for the mtu
AmOptsFor(mtu) == (amOpts \ {"jumbo"}) \cup {"vlan"} \cup (IF mtu = "jumbo" THEN {"jumbo"} ELSE {})

\* axienet_device_reset and the error handler: receiver off, flow control on, options without
\* transmitter and receiver, filter, and all options
AmResetHw(opts) ==
  LET quiet == AmSetOptions((amHw \ {"rxen"}) \cup {"fcrx"}, opts \ {"txen", "rxen"})
  IN  AmSetOptions(AmFilterBits(quiet, amFlags, amMc), opts)
AmNewFlags(flags, mc) == IF AmPromisc(flags, mc) THEN flags \cup {"promisc"} ELSE flags

AmDeviceReset ==
  /\ amOpts' = AmOptsFor(amMtu) /\ amBuf' = amMtu
  /\ amFlags' = AmNewFlags(amFlags, amMc) /\ amCam' = AmFilterCam(amCam, amFlags, amMc)

\* dev_open: axienet_open, after which the stack sets the filter once more (axienet_set_multicast_list)
AmOpen ==
  /\ amProbed /\ ~amUp /\ amIrq = {}
  /\ AmDeviceReset
  /\ amHw' = AmFilterBits(AmResetHw(AmOptsFor(amMtu)), AmNewFlags(amFlags, amMc), amMc)
  /\ amUp' = TRUE /\ amNapi' = TRUE /\ amReset' = FALSE
  /\ amIrq' = ({"tx", "rx"} \X AmQ) \cup {<<"eth", 0>>}
  /\ UNCHANGED <<amProbed, amTries, amClk, amBus, amMtu, amMc, amPause, amLeft>>

\* axienet_open fails when interrupt `at' cannot be had.  A transmit interrupt leaves the
\* earlier ones requested; for the k-th receive interrupt the first k transmit interrupts
\* are freed; only the last, the MAC's, finds everything undone.
AmOpenFail(at) ==
  /\ amProbed /\ ~amUp /\ amIrq = {}
  /\ AmDeviceReset /\ amHw' = AmResetHw(AmOptsFor(amMtu))
  /\ amIrq' = CASE at[1] = "tx" -> {"tx"} \X {q \in AmQ : q < at[2]}
                [] at[1] = "rx" -> ({"tx"} \X {q \in AmQ : q >= at[2]})
                                     \cup ({"rx"} \X {q \in AmQ : q < at[2]})
                [] OTHER -> {}
  /\ amLeft' = (amLeft \/ amIrq' # {})
  /\ UNCHANGED <<amProbed, amTries, amClk, amBus, amUp, amNapi, amMtu, amMc, amPause, amReset>>

\* axienet_stop
AmStop ==
  /\ amUp /\ amUp' = FALSE /\ amIrq' = {} /\ amNapi' = FALSE
  /\ amHw' = AmSetOptions(amHw, amOpts \ {"txen", "rxen"})
  /\ UNCHANGED <<amProbed, amTries, amClk, amBus, amOpts, amMtu, amBuf, amMc, amFlags, amCam,
                 amPause, amReset, amLeft>>

\* axienet_change_mtu; larger frames than the MAC's memory takes are refused.
AmChangeMtu(mtu) ==
  /\ amProbed /\ ~amUp /\ amMtu' = mtu
  /\ UNCHANGED <<amProbed, amTries, amClk, amBus, amUp, amIrq, amNapi, amOpts, amHw, amBuf, amMc,
                 amFlags, amCam, amPause, amReset, amLeft>>

\* axienet_ethtools_set_pauseparam
AmSetPause(rx, tx) ==
  /\ amProbed /\ ~amUp
  /\ amHw' = (amHw \ {"fcrx", "fctx"}) \cup AmFcc(rx, tx) /\ amPause' = AmFcc(rx, tx)
  /\ UNCHANGED <<amProbed, amTries, amClk, amBus, amUp, amIrq, amNapi, amOpts, amMtu, amBuf, amMc,
                 amFlags, amCam, amReset, amLeft>>

\* The stack changes the multicast list or the flags of an open device and calls
\* axienet_set_multicast_list; of a closed device it only keeps them.
AmSetFilter(mc, flags) ==
  /\ amProbed /\ amMc' = mc
  /\ IF amUp
     THEN /\ amHw' = AmFilterBits(amHw, flags, mc) /\ amCam' = AmFilterCam(amCam, flags, mc)
          /\ amFlags' = AmNewFlags(flags, mc)
          /\ amReset' = FALSE
     ELSE amFlags' = flags /\ UNCHANGED <<amHw, amCam, amReset>>
  /\ UNCHANGED <<amProbed, amTries, amClk, amBus, amUp, amIrq, amNapi, amOpts, amMtu, amBuf,
                 amPause, amLeft>>
AmJoin(g) == g \notin ToSet(amMc) /\ AmSetFilter(Append(amMc, g), amFlags)
AmLeave(g) == \E i \in DOMAIN amMc : amMc[i] = g /\ AmSetFilter(RemoveAt(amMc, i), amFlags)
AmFlag(f) == AmSetFilter(amMc, IF f \in amFlags THEN amFlags \ {f} ELSE amFlags \cup {f})

\* What axienet_dma_err_handler does to the MAC
AmErrHandler ==
  /\ amUp
  /\ amHw' = AmResetHw(amOpts) /\ amCam' = AmFilterCam(amCam, amFlags, amMc)
  /\ amFlags' = AmNewFlags(amFlags, amMc)
  /\ amReset' = TRUE
  /\ UNCHANGED <<amProbed, amTries, amClk, amBus, amUp, amIrq, amNapi, amOpts, amMtu, amBuf, amMc,
                 amPause, amLeft>>

AmInit ==
  /\ amProbed = FALSE /\ amTries = 0 /\ amClk = [c \in AmClocks |-> 0] /\ amBus = FALSE
  /\ amUp = FALSE /\ amIrq = {} /\ amNapi = FALSE /\ amOpts = {} /\ amHw = {} /\ amMtu = "std"
  /\ amBuf = "std" /\ amMc = << >> /\ amFlags = {} /\ amCam = [i \in 1..AmCamNum |-> "none"]
  /\ amPause = {"unset"} /\ amReset = FALSE /\ amLeft = FALSE

AmNext ==
  \/ AmProbe \/ AmRemove \/ AmOpen \/ AmStop \/ AmErrHandler
  \/ \E at \in ({"tx", "rx"} \X AmQ) \cup {<<"eth", 0>>} : AmOpenFail(at)
  \/ \E m \in {"std", "jumbo"} : AmChangeMtu(m)
  \/ \E rx, tx \in BOOLEAN : AmSetPause(rx, tx)
  \/ \E g \in AmGroups : AmJoin(g) \/ AmLeave(g)
  \/ \E f \in {"promisc", "allmulti"} : AmFlag(f)

----------------------------------------------------------------------------
\* An open device hears every group of its list, however the list and the flags have
\* changed, until an error handler resets the MAC.  (It sets the filter before the options,
\* which turn promiscuous mode off.)
AmHears == amUp /\ ~amReset => "pm" \in amHw \/ ToSet(amMc) \subseteq {amCam[i] : i \in 1..AmCamNum}

\* The MAC accepts large frames exactly when the receive buffers are large, through any
\* sequence of opening, changing the mtu and errors.
AmFits == amUp => ("jumbo" \in amHw <=> amBuf = "jumbo")

\* Clocks balance: a device that is not there has none enabled, and none is disabled more
\* often than enabled, unless probing failed where the code does not clean up.
AmBalanced == ~amLeft => \A c \in AmClocks : amClk[c] = (IF amProbed THEN 1 ELSE 0)

\* Not kept (the comment on axienet_ethtools_set_pauseparam): ethtool -A enables and disables flow
\* control.  What it sets is lost when the device is opened.
AmPauseTaken == amUp /\ amPause # {"unset"} => amHw \cap {"fcrx", "fctx"} = amPause

\* The MAC and its clocks are as the driver's view of them, through every legal sequence of calls.
AmSound == AmHears /\ AmFits /\ AmBalanced
=============================================================================
