---------------------------- MODULE DriversProof ----------------------------
(***************************************************************************)
(* Proofs about the network drivers together (MCDrivers): the MAC (AxiMac), *)
(* the end point and its channels (TsnEndpoint), and the theorems about all *)
(* drivers, for any number of groups, channels and ports.  The rings of     *)
(* descriptors have their proofs in RingsProof.                             *)
(***************************************************************************)
EXTENDS MCDrivers, RingsProof, SequenceTheorems, WellFoundedInduction


----------------------------------------------------------------------------
(* The life and the configuration of the AXI Ethernet MAC (AxiMac).         *)

\* The options follow the size of the receive buffers while the device is open.
AmInv ==
  /\ amMc \in Seq(AmGroups) /\ AmSound
  /\ amUp => amProbed /\ ("jumbo" \in amOpts <=> amBuf = "jumbo")

\* Whatever list and flags axienet_set_multicast_list is given, its groups are heard.
LEMMA AmFilterHears ==
  ASSUME NEW hw, NEW cam, NEW flags, NEW mc \in Seq(AmGroups)
  PROVE  "pm" \in AmFilterBits(hw, flags, mc) \/
         ToSet(mc) \subseteq {AmFilterCam(cam, flags, mc)[i] : i \in 1 .. AmCamNum}
<1>1. Len(mc) \in Nat /\ DOMAIN mc = 1 .. Len(mc) /\ AmCamNum \in Nat
  BY AmAssumption
<1>2. CASE AmPromisc(flags, mc)
  BY <1>2 DEF AmFilterBits
<1>3. CASE ~AmPromisc(flags, mc) /\ mc # << >>
  <2> DEFINE new == [i \in 1 .. AmCamNum |-> IF i <= Len(mc) THEN mc[i] ELSE cam[i]]
  <2>1. AmFilterCam(cam, flags, mc) = new
    BY <1>3 DEF AmFilterCam
  <2>2. ~(Len(mc) > AmCamNum)
    BY <1>3 DEF AmPromisc, AmTooMany
  <2>3. ASSUME NEW i \in 1 .. Len(mc) PROVE i \in 1 .. AmCamNum /\ new[i] = mc[i]
    BY <1>1, <2>2
  <2> HIDE DEF new
  <2>4. \A i \in 1 .. Len(mc) : mc[i] \in {new[j] : j \in 1 .. AmCamNum}
    BY <2>3
  <2>5. QED
    BY <1>1, <2>1, <2>4 DEF ToSet
<1>4. CASE ~AmPromisc(flags, mc) /\ mc = << >>
  <2>1. ToSet(mc) = {}
    BY <1>1, <1>4 DEF ToSet
  <2>2. QED
    BY <2>1
<1>5. QED
  BY <1>2, <1>3, <1>4

\* The filter does not touch the bit for large frames, and the options decide it.
LEMMA AmJumboBit ==
  /\ \A hw, flags, mc : "jumbo" \in AmFilterBits(hw, flags, mc) <=> "jumbo" \in hw
  /\ \A hw, opts : "jumbo" \in AmSetOptions(hw, opts) <=> "jumbo" \in opts
  /\ \A opts : "jumbo" \in AmResetHw(opts) <=> "jumbo" \in opts
<1>1. \A hw, flags, mc : "jumbo" \in AmFilterBits(hw, flags, mc) <=> "jumbo" \in hw
  BY DEF AmFilterBits
<1>2. "jumbo" \in AmAllBits
  <2>1. "jumbo" \in AmBits("jumbo")
    BY DEF AmBits
  <2>2. QED
    BY <2>1 DEF AmAllBits
<1>3. \A o : "jumbo" \in AmBits(o) <=> o = "jumbo"
  BY DEF AmBits
<1>4. \A hw, opts : "jumbo" \in AmSetOptions(hw, opts) <=> "jumbo" \in opts
  BY <1>2, <1>3 DEF AmSetOptions
<1>5. \A opts : "jumbo" \in AmResetHw(opts) <=> "jumbo" \in opts
  BY <1>4 DEF AmResetHw
<1>6. QED
  BY <1>1, <1>4, <1>5

LEMMA AmRemoveGroup ==
  ASSUME NEW mc \in Seq(AmGroups), NEW i \in DOMAIN mc
  PROVE  RemoveAt(mc, i) \in Seq(AmGroups)
<1>1. Len(mc) \in Nat /\ i \in 1 .. Len(mc) /\ \A k \in 1 .. Len(mc) : mc[k] \in AmGroups
  OBVIOUS
<1>2. SubSeq(mc, 1, i - 1) \in Seq(AmGroups)
  <2>1. \A k \in 1 .. (i - 1) : mc[k] \in AmGroups
    BY <1>1
  <2>2. QED
    BY <1>1, <2>1, SubSeqProperties
<1>3. SubSeq(mc, i + 1, Len(mc)) \in Seq(AmGroups)
  <2>1. \A k \in (i + 1) .. Len(mc) : mc[k] \in AmGroups
    BY <1>1
  <2>2. QED
    BY <1>1, <2>1, SubSeqProperties
<1>4. QED
  BY <1>2, <1>3 DEF RemoveAt

LEMMA AmStarts == AmInit => AmInv
<1> SUFFICES ASSUME AmInit PROVE AmInv
  OBVIOUS
<1>1. amUp = FALSE /\ amProbed = FALSE /\ amMc = << >> /\ amClk = [c \in AmClocks |-> 0]
  BY DEF AmInit
<1>2. AmHears /\ AmFits /\ AmBalanced
  BY <1>1 DEF AmHears, AmFits, AmBalanced
<1>3. QED
  BY <1>1, <1>2 DEF AmInv, AmSound

\* Clocks: each is in at most one of the two sequences that are enabled.
LEMMA AmClkFacts ==
  /\ \A c \in AmClocks : AmEnable(AmEnable(amClk, AmDmaClkInit), AmClkInit)[c] = amClk[c] + 1
  /\ \A clk : \A c \in AmClocks : AmDisable(clk)[c] = clk[c] - 1
<1>1. ToSet(AmDmaClkInit) = {"dma_tx", "dma_rx", "dma_sg"} /\ ToSet(AmClkInit) = {"aclk", "sclk", "refclk"}
  <2>1. DOMAIN AmDmaClkInit = 1 .. 3 /\ DOMAIN AmClkInit = 1 .. 3
    BY DEF AmDmaClkInit, AmClkInit
  <2>2. AmDmaClkInit[1] = "dma_tx" /\ AmDmaClkInit[2] = "dma_rx" /\ AmDmaClkInit[3] = "dma_sg"
    BY DEF AmDmaClkInit
  <2>3. AmClkInit[1] = "aclk" /\ AmClkInit[2] = "sclk" /\ AmClkInit[3] = "refclk"
    BY DEF AmClkInit
  <2>4. 1 .. 3 = {1, 2, 3}
    OBVIOUS
  <2>5. QED
    BY <2>1, <2>2, <2>3, <2>4 DEF ToSet
<1>2. ASSUME NEW c \in AmClocks PROVE AmEnable(AmEnable(amClk, AmDmaClkInit), AmClkInit)[c] = amClk[c] + 1
  <2>1. AmEnable(amClk, AmDmaClkInit)[c] = IF c \in {"dma_tx", "dma_rx", "dma_sg"} THEN amClk[c] + 1 ELSE amClk[c]
    BY <1>1 DEF AmEnable
  <2>2. AmEnable(AmEnable(amClk, AmDmaClkInit), AmClkInit)[c]
          = IF c \in {"aclk", "sclk", "refclk"} THEN AmEnable(amClk, AmDmaClkInit)[c] + 1 ELSE AmEnable(amClk, AmDmaClkInit)[c]
    BY <1>1 DEF AmEnable
  <2>3. c \in {"dma_tx", "dma_rx", "dma_sg"} <=> ~(c \in {"aclk", "sclk", "refclk"})
    BY DEF AmClocks
  <2>4. QED
    BY <2>1, <2>2, <2>3
<1>3. QED
  BY <1>2 DEF AmDisable

\* Probing and removing: the clocks, and the rest of the device is as new.
LEMMA AmProbeKeeps == AmInv /\ AmProbe => AmInv'
<1> SUFFICES ASSUME AmInv, AmProbe PROVE AmInv'
  OBVIOUS
<1>1. ~amProbed /\ ~amLeft
  BY DEF AmProbe
<1>2. amMc' = << >> /\ amUp' = amUp
  BY DEF AmProbe
<1>3. AmBalanced'
  <2> DEFINE all == AmEnable(AmEnable(amClk, AmDmaClkInit), AmClkInit)
  <2>1. \A c \in AmClocks : amClk[c] = 0
    BY <1>1 DEF AmInv, AmSound, AmBalanced
  <2>2. \A c \in AmClocks : all[c] = 1 /\ AmDisable(all)[c] = 0
    BY <2>1, AmClkFacts
  <2> HIDE DEF all
  <2>3. ASSUME NEW bus \in BOOLEAN, AmProbeOk(bus) PROVE AmBalanced'
    BY <2>2, <2>3 DEF AmProbeOk, AmBalanced, all
  <2>4. ASSUME NEW at \in {"early", "clk", "mac", "sysfs", "reg"}, AmProbeFail(at) PROVE AmBalanced'
    <3>1. amProbed' = amProbed
      BY <2>4 DEF AmProbeFail
    <3>2. ~amLeft' => at \notin {"clk", "sysfs"}
      BY <2>4 DEF AmProbeFail
    <3>3. CASE at = "early"
      <4>1. amClk' = amClk
        BY <2>4, <3>3 DEF AmProbeFail
      <4>2. QED
        BY <1>1, <2>1, <3>1, <4>1 DEF AmBalanced
    <3>4. CASE at \in {"mac", "reg"}
      <4>1. amClk' = AmDisable(all)
        BY <2>4, <3>4 DEF AmProbeFail, all
      <4>2. QED
        BY <1>1, <2>2, <3>1, <4>1 DEF AmBalanced
    <3>5. CASE at \in {"clk", "sysfs"}
      BY <3>2, <3>5 DEF AmBalanced
    <3>6. QED
      BY <3>3, <3>4, <3>5
  <2>5. QED
    BY <2>3, <2>4 DEF AmProbe
<1>4. AmHears'
  <2>1. ToSet(amMc') = {}
    BY <1>2 DEF ToSet
  <2>2. QED
    BY <2>1 DEF AmHears
<1>5. ~amUp
  BY <1>1 DEF AmInv
<1>6. QED
  BY <1>2, <1>3, <1>4, <1>5 DEF AmInv, AmSound, AmFits

LEMMA AmRemoveKeeps == AmInv /\ AmRemove => AmInv'
<1> SUFFICES ASSUME AmInv, AmRemove PROVE AmInv'
  OBVIOUS
<1>1. amProbed /\ ~amUp /\ amProbed' = FALSE /\ amUp' = amUp /\ amClk' = AmDisable(amClk) /\ amMc' = amMc
  BY DEF AmRemove, AmConfVars
<1>2. amLeft' = amLeft
  BY DEF AmRemove
<1>3. AmBalanced'
  <2>1. ~amLeft => \A c \in AmClocks : amClk[c] = 1
    BY <1>1 DEF AmInv, AmSound, AmBalanced
  <2>2. ~amLeft => \A c \in AmClocks : amClk'[c] = 0
    BY <1>1, <2>1, AmClkFacts
  <2>3. QED
    BY <1>1, <1>2, <2>2 DEF AmBalanced
<1>4. QED
  BY <1>1, <1>3 DEF AmInv, AmSound, AmHears, AmFits

\* What leaves the registration and the clocks alone.
LEMMA AmStillBalanced ==
  ASSUME AmInv, amProbed' = amProbed, amClk' = amClk, ~amLeft' => ~amLeft
  PROVE  AmBalanced'
BY DEF AmInv, AmSound, AmBalanced

LEMMA AmOpenKeeps == AmInv /\ AmOpen => AmInv'
<1> SUFFICES ASSUME AmInv, AmOpen PROVE AmInv'
  OBVIOUS
<1> DEFINE new == AmNewFlags(amFlags, amMc)
           hw == AmResetHw(AmOptsFor(amMtu))
<1>1. /\ amProbed /\ amProbed' = amProbed /\ amClk' = amClk /\ amMc' = amMc
      /\ amHw' = AmFilterBits(hw, new, amMc) /\ amCam' = AmFilterCam(amCam, amFlags, amMc)
      /\ amOpts' = AmOptsFor(amMtu) /\ amBuf' = amMtu
  BY DEF AmOpen, AmDeviceReset
<1>2. amLeft' = amLeft
  BY DEF AmOpen
<1>3. AmBalanced'
  BY <1>1, <1>2, AmStillBalanced
<1>4. "jumbo" \in amOpts' <=> amBuf' = "jumbo"
  BY <1>1 DEF AmOptsFor
<1>5. "jumbo" \in amHw' <=> "jumbo" \in amOpts'
  BY <1>1, AmJumboBit
<1>6. amMc \in Seq(AmGroups)
  BY DEF AmInv
<1>7. AmHears'
  <2> HIDE DEF hw
  <2>1. CASE AmPromisc(new, amMc)
    BY <1>1, <2>1 DEF AmHears, AmFilterBits
  <2>2. CASE ~AmPromisc(new, amMc)
    <3>1. new = amFlags
      BY <2>2 DEF AmPromisc, AmNewFlags
    <3>2. "pm" \in amHw' \/ ToSet(amMc) \subseteq {amCam'[i] : i \in 1 .. AmCamNum}
      BY <1>1, <1>6, <3>1, AmFilterHears
    <3>3. QED
      BY <1>1, <3>2 DEF AmHears
  <2>3. QED
    BY <2>1, <2>2
<1>8. QED
  BY <1>1, <1>3, <1>4, <1>5, <1>6, <1>7 DEF AmInv, AmSound, AmFits

LEMMA AmErrHandlerKeeps == AmInv /\ AmErrHandler => AmInv'
<1> SUFFICES ASSUME AmInv, AmErrHandler PROVE AmInv'
  OBVIOUS
<1>1. /\ amUp /\ amProbed' = amProbed /\ amClk' = amClk /\ amMc' = amMc /\ amBuf' = amBuf
      /\ amHw' = AmResetHw(amOpts) /\ amOpts' = amOpts
  BY DEF AmErrHandler
<1>2. amReset' = TRUE /\ amLeft' = amLeft
  BY DEF AmErrHandler
<1>3. AmBalanced'
  BY <1>1, <1>2, AmStillBalanced
<1>4. "jumbo" \in amHw' <=> amBuf' = "jumbo"
  BY <1>1, AmJumboBit DEF AmInv
<1>5. QED
  BY <1>1, <1>2, <1>3, <1>4 DEF AmInv, AmSound, AmFits, AmHears

\* What happens to a device that stays closed, and closing it
LEMMA AmClosedKeeps ==
  ASSUME AmInv, ~amUp', amProbed' = amProbed, amClk' = amClk, ~amLeft' => ~amLeft, amMc' = amMc
  PROVE  AmInv'
BY AmStillBalanced DEF AmInv, AmSound, AmFits, AmHears

\* The list or the flags are changed, of an open device or of a closed one.
LEMMA AmFilterKeeps ==
  ASSUME AmInv, NEW mc \in Seq(AmGroups), NEW flags, AmSetFilter(mc, flags)
  PROVE  AmInv'
<1>1. amProbed' = amProbed /\ amClk' = amClk /\ amMc' = mc /\ amBuf' = amBuf /\ amOpts' = amOpts
  BY DEF AmSetFilter
<1>2. amUp' = amUp
  BY DEF AmSetFilter
<1>3. amLeft' = amLeft
  BY DEF AmSetFilter
<1>4. AmBalanced'
  BY <1>1, <1>3, AmStillBalanced
<1>5. CASE amUp
  <2>1. amHw' = AmFilterBits(amHw, flags, mc) /\ amCam' = AmFilterCam(amCam, flags, mc)
    BY <1>5 DEF AmSetFilter
  <2>2. AmHears'
    BY <1>1, <2>1, AmFilterHears DEF AmHears
  <2>3. "jumbo" \in amHw' <=> "jumbo" \in amHw
    BY <2>1, AmJumboBit
  <2>4. AmFits'
    BY <1>1, <1>2, <2>3 DEF AmFits, AmInv, AmSound
  <2>5. QED
    BY <1>1, <1>2, <1>4, <2>2, <2>4 DEF AmInv, AmSound
<1>6. CASE ~amUp
  BY <1>1, <1>2, <1>4, <1>6 DEF AmInv, AmSound, AmFits, AmHears
<1>7. QED
  BY <1>5, <1>6

LEMMA AmStep == AmInv /\ [AmNext]_amVars => AmInv'
<1> SUFFICES ASSUME AmInv, [AmNext]_amVars PROVE AmInv'
  OBVIOUS
<1>1. CASE AmProbe
  BY <1>1, AmProbeKeeps
<1>2. CASE AmRemove
  BY <1>2, AmRemoveKeeps
<1>3. CASE AmOpen
  BY <1>3, AmOpenKeeps
<1>4. CASE AmErrHandler
  BY <1>4, AmErrHandlerKeeps
<1>5. CASE AmStop
  <2>1. amUp' = FALSE /\ amProbed' = amProbed /\ amClk' = amClk /\ amMc' = amMc
    BY <1>5 DEF AmStop
  <2>2. amLeft' = amLeft
    BY <1>5 DEF AmStop
  <2>3. QED
    BY <2>1, <2>2, AmClosedKeeps
<1>6. ASSUME NEW at \in ({"tx", "rx"} \X AmQ) \cup {<<"eth", 0>>}, AmOpenFail(at) PROVE AmInv'
  <2>1. ~amUp /\ amUp' = amUp
    BY <1>6 DEF AmOpenFail
  <2>2. amProbed' = amProbed /\ amClk' = amClk /\ amMc' = amMc
    BY <1>6 DEF AmOpenFail
  <2>3. amLeft' = (amLeft \/ amIrq' # {})
    BY <1>6 DEF AmOpenFail
  <2>4. QED
    BY <2>1, <2>2, <2>3, AmClosedKeeps
<1>7. ASSUME NEW m \in {"std", "jumbo"}, AmChangeMtu(m) PROVE AmInv'
  <2>1. ~amUp /\ amUp' = amUp
    BY <1>7 DEF AmChangeMtu
  <2>2. amProbed' = amProbed /\ amClk' = amClk /\ amMc' = amMc
    BY <1>7 DEF AmChangeMtu
  <2>3. amLeft' = amLeft
    BY <1>7 DEF AmChangeMtu
  <2>4. QED
    BY <2>1, <2>2, <2>3, AmClosedKeeps
<1>8. ASSUME NEW rx \in BOOLEAN, NEW tx \in BOOLEAN, AmSetPause(rx, tx) PROVE AmInv'
  <2>1. ~amUp /\ amUp' = amUp
    BY <1>8 DEF AmSetPause
  <2>2. amProbed' = amProbed /\ amClk' = amClk /\ amMc' = amMc
    BY <1>8 DEF AmSetPause
  <2>3. amLeft' = amLeft
    BY <1>8 DEF AmSetPause
  <2>4. QED
    BY <2>1, <2>2, <2>3, AmClosedKeeps
<1>9. ASSUME NEW g \in AmGroups, AmJoin(g) \/ AmLeave(g) PROVE AmInv'
  <2>1. amMc \in Seq(AmGroups)
    BY DEF AmInv
  <2>2. CASE AmJoin(g)
    <3>1. Append(amMc, g) \in Seq(AmGroups)
      BY <2>1
    <3>2. QED
      BY <2>2, <3>1, AmFilterKeeps DEF AmJoin
  <2>3. CASE AmLeave(g)
    <3>1. PICK i \in DOMAIN amMc : AmSetFilter(RemoveAt(amMc, i), amFlags)
      BY <2>3 DEF AmLeave
    <3>2. RemoveAt(amMc, i) \in Seq(AmGroups)
      BY <2>1, AmRemoveGroup
    <3>3. QED
      BY <3>1, <3>2, AmFilterKeeps
  <2>4. QED
    BY <1>9, <2>2, <2>3
<1>10. ASSUME NEW f \in {"promisc", "allmulti"}, AmFlag(f) PROVE AmInv'
  BY <1>10, AmFilterKeeps DEF AmFlag, AmInv
<1>11. CASE UNCHANGED amVars
  <2>1. amProbed' = amProbed /\ amClk' = amClk /\ amMc' = amMc /\ amBuf' = amBuf /\ amHw' = amHw /\ amCam' = amCam
        /\ amOpts' = amOpts
    BY <1>11 DEF amVars
  <2>2. amUp' = amUp
    BY <1>11 DEF amVars
  <2>3. amReset' = amReset
    BY <1>11 DEF amVars
  <2>4. amLeft' = amLeft
    BY <1>11 DEF amVars
  <2>5. AmBalanced'
    BY <2>1, <2>4, AmStillBalanced
  <2>6. AmHears' /\ AmFits'
    BY <2>1, <2>2, <2>3 DEF AmInv, AmSound, AmFits, AmHears
  <2>7. QED
    BY <2>1, <2>2, <2>5, <2>6 DEF AmInv, AmSound
<1>12. QED
  BY <1>1, <1>2, <1>3, <1>4, <1>5, <1>6, <1>7, <1>8, <1>9, <1>10, <1>11 DEF AmNext

----------------------------------------------------------------------------
(* The end point, its ports and the receive channels (TsnEndpoint).         *)

\* The devices a frame of channel c may be for.
EpMeant(c) == CASE EpKind(c) = "ex" -> {"ex"} [] EpKind(c) = "mgmt" -> EpDevs [] OTHER -> {EpOwner}

EpDevTypes ==
  /\ epOnly \in BOOLEAN /\ epReg \subseteq EpDevs /\ epUp \subseteq epReg
  /\ epIrq \in [EpIrqs -> Nat] /\ epNapiOn \subseteq EpQ

EpChanTypes ==
  /\ epRun \subseteq EpChan /\ epSched \subseteq EpQ /\ epTasklet \subseteq EpQ
  /\ DOMAIN epRing = EpChan /\ \A c \in EpChan : epRing[c] \in Seq(EpMeant(c))
  /\ epPend \in [EpChan -> SUBSET {"ioc", "err"}] /\ epOn \in [EpChan -> SUBSET {"ioc", "err"}]

\* Until an opening fails, interrupts and NAPI are those of the devices that are open.
EpAsks ==
  ~epFailed =>
    /\ ~epWarned /\ ~epBug /\ epNapiOn = (IF EpOwner \in epUp THEN EpQ ELSE {})
    /\ \A k \in EpDataIrqs : epIrq[k] = (IF EpOwner \in epUp THEN 1 ELSE 0)
    /\ \A d \in EpPorts \cup {"mac1"} : \A n \in {"ptp_rx", "ptp_tx"} : epIrq[<<n, d>>] = (IF d \in epUp THEN 1 ELSE 0)

\* A running channel can raise its interrupt or has its poll routine scheduled, and a frame in it
\* has raised its interrupt, or its error handler is about to run.
EpAlive ==
  \A q \in EpQ : EpChanNum[q] \in epRun /\ q \in epNapiOn =>
    /\ "ioc" \in epOn[EpChanNum[q]] \/ q \in epSched \/ q \in epTasklet
    /\ epRing[EpChanNum[q]] # << >> /\ ~epCut => "ioc" \in epPend[EpChanNum[q]] \/ q \in epTasklet

EpInv == EpDevTypes /\ EpChanTypes /\ EpAsks /\ EpAlive /\ EpRightDevice

LEMMA EpConsts ==
  /\ \A q \in EpQ : EpChanNum[q] \in EpChan /\ EpChanNum[q] \in Nat
  /\ \A q, r \in EpQ : EpChanNum[q] = EpChanNum[r] => q = r
  /\ EpPorts \cap {"ep", "ex"} = {}
<1>1. EpChanNum \in Seq(Nat) /\ EpQ = DOMAIN EpChanNum
  BY EpAssumption DEF EpQ
<1>2. \A q, r \in EpQ : EpChanNum[q] = EpChanNum[r] => q = r
  BY <1>1, EpAssumption DEF IsInjective
<1>3. \A q \in EpQ : EpChanNum[q] \in EpChan /\ EpChanNum[q] \in Nat
  BY <1>1 DEF EpChan
<1>4. QED
  BY <1>2, <1>3, EpAssumption

LEMMA EpStarts == EpInit => EpInv
<1> SUFFICES ASSUME EpInit PROVE EpInv
  OBVIOUS
<1>1. /\ epOnly \in BOOLEAN /\ epReg = {} /\ epUp = {} /\ epIrq = [k \in EpIrqs |-> 0] /\ epNapiOn = {} /\ epRun = {}
      /\ epSched = {} /\ epTasklet = {} /\ epGot = << >>
  BY DEF EpInit
<1>2. epRing = [c \in EpChan |-> << >>] /\ epPend = [c \in EpChan |-> {}] /\ epOn = [c \in EpChan |-> {}]
  BY DEF EpInit
<1>3. EpDevTypes /\ EpChanTypes
  BY <1>1, <1>2 DEF EpDevTypes, EpChanTypes
<1>4. EpAsks
  <2>1. epWarned = FALSE /\ epBug = FALSE
    BY DEF EpInit
  <2>2. EpDataIrqs \subseteq EpIrqs
    BY DEF EpDataIrqs, EpIrqs
  <2>3. \A d \in EpPorts \cup {"mac1"} : \A n \in {"ptp_rx", "ptp_tx"} : <<n, d>> \in EpIrqs
    BY DEF EpIrqs
  <2>4. QED
    BY <1>1, <2>1, <2>2, <2>3 DEF EpAsks
<1>5. EpAlive
  BY <1>1 DEF EpAlive
<1>6. EpRightDevice
  BY <1>1 DEF EpRightDevice
<1>7. QED
  BY <1>3, <1>4, <1>5, <1>6 DEF EpInv

LEMMA EpInvMeans == EpInv => EpSound
<1> SUFFICES ASSUME EpInv PROVE EpSound
  OBVIOUS
<1>1. EpBalanced
  <2>1. \A k \in EpIrqs : k[1] \in {"rx", "tx"} => k \in EpDataIrqs
    BY DEF EpIrqs, EpDataIrqs
  <2>2. QED
    BY <2>1 DEF EpBalanced, EpInv, EpAsks
<1>2. EpServed
  <2>1. \A q \in EpQ : EpChanNum[q] \in epRun /\ q \in epNapiOn =>
          /\ "ioc" \in epOn[EpChanNum[q]] \/ q \in epSched \/ q \in epTasklet
          /\ epRing[EpChanNum[q]] # << >> /\ ~epCut => "ioc" \in epPend[EpChanNum[q]] \/ q \in epTasklet
    BY DEF EpInv, EpAlive
  <2>2. QED
    BY <2>1 DEF EpServed
<1>3. EpScheduled
  <2> SUFFICES ASSUME NEW d \in epUp, NEW k \in EpFrameKinds, NEW udp \in BOOLEAN
               PROVE  /\ EpWay(d, k, udp) = "tadma" => k \in {"udp", "ptp_udp"}
                      /\ k = "udp" => EpWay(d, k, udp) = "tadma"
                      /\ d \notin {"ep", "ex"} => (EpWay(d, k, udp) = "ptp" <=> k = "ptp" \/ (k = "ptp_udp" /\ udp))
    BY DEF EpScheduled
  <2>1. d \in EpDevs /\ epOnly \in BOOLEAN
    BY DEF EpInv, EpDevTypes
  <2>2. EpOwner = IF epOnly THEN "mac1" ELSE "ep"
    BY DEF EpOwner
  <2>3. k \in {"ptp", "ptp_udp", "udp", "ip", "other"}
    BY DEF EpFrameKinds
  <2>4. EpPcpToQueue(k) = (IF k \in {"ptp_udp", "udp"} THEN "st" ELSE IF k = "ip" THEN "res" ELSE "be")
    BY DEF EpPcpToQueue
  <2>5. EpSelectQueue("ep", k, udp) = EpPcpToQueue(k)
    BY DEF EpSelectQueue
  <2>6. CASE d = "ex"
    <3>1. EpWay(d, k, udp) = IF EpPcpToQueue(k) = "st" THEN "tadma" ELSE "ring"
      BY <2>6 DEF EpWay
    <3>2. QED
      BY <2>3, <2>4, <2>6, <3>1
  <2>7. CASE d = "ep"
    <3>1. ~epOnly
      BY <2>1, <2>7 DEF EpDevs
    <3>2. EpSelectQueue(d, k, udp) = EpPcpToQueue(k) /\ EpPcpToQueue(k) # "ptp" /\ d = EpOwner
      BY <2>2, <2>4, <2>5, <2>7, <3>1
    <3>3. EpWay(d, k, udp) = IF EpPcpToQueue(k) = "st" THEN "tadma" ELSE "ring"
      BY <2>7, <3>2 DEF EpWay
    <3>4. QED
      BY <2>3, <2>4, <2>7, <3>3
  <2>8. CASE d \notin {"ep", "ex"}
    <3>1. CASE k = "ptp" \/ (k = "ptp_udp" /\ udp)
      <4>1. EpSelectQueue(d, k, udp) = "ptp"
        BY <2>8, <3>1 DEF EpSelectQueue
      <4>2. EpWay(d, k, udp) = "ptp"
        BY <2>8, <4>1 DEF EpWay
      <4>3. QED
        BY <3>1, <4>2
    <3>2. CASE ~(k = "ptp" \/ (k = "ptp_udp" /\ udp))
      <4>1. CASE epOnly
        <5>1. d = EpOwner
          BY <2>1, <2>2, <2>8, <4>1 DEF EpDevs
        <5>2. EpSelectQueue(d, k, udp) = EpPcpToQueue(k)
          BY <2>8, <3>2, <4>1 DEF EpSelectQueue
        <5>3. EpWay(d, k, udp) = IF EpPcpToQueue(k) = "st" THEN "tadma" ELSE "ring"
          BY <2>4, <2>8, <5>1, <5>2 DEF EpWay
        <5>4. QED
          BY <2>3, <2>4, <3>2, <5>3
      <4>2. CASE ~epOnly
        <5>1. d # EpOwner
          BY <2>2, <2>8, <4>2
        <5>2. EpSelectQueue(d, k, udp) = "be"
          BY <2>8, <3>2, <4>2 DEF EpSelectQueue
        <5>3. EpWay(d, k, udp) = IF EpPcpToQueue(k) = "st" THEN "tadma" ELSE "ring"
          BY <2>5, <2>8, <5>1, <5>2 DEF EpWay
        <5>4. QED
          BY <2>3, <2>4, <3>2, <5>3
      <4>3. QED
        BY <4>1, <4>2
    <3>3. QED
      BY <3>1, <3>2
  <2>9. QED
    BY <2>6, <2>7, <2>8
<1>4. QED
  BY <1>1, <1>2, <1>3 DEF EpSound, EpInv

\* Steps that leave the channels alone
LEMMA EpChanSame ==
  ASSUME EpInv, UNCHANGED EpChanVars, EpQuiet, epOnly' = epOnly, epNapiOn' = epNapiOn
  PROVE  EpChanTypes' /\ EpAlive' /\ EpRightDevice'
<1>1. UNCHANGED <<epRun, epRing, epPend, epOn, epSched, epTasklet>>
  BY DEF EpChanVars
<1>2. epCut' = epCut
  BY DEF EpChanVars
<1>3. \A c : EpMeant(c)' = EpMeant(c)
  BY DEF EpMeant, EpKind, EpDevs, EpOwner
<1>4. EpChanTypes'
  BY <1>1, <1>3 DEF EpInv, EpChanTypes
<1>5. EpAlive'
  BY <1>1, <1>2 DEF EpInv, EpAlive
<1>6. EpRightDevice'
  BY DEF EpQuiet, EpRightDevice
<1>7. QED
  BY <1>4, <1>5, <1>6

\* Steps that leave the devices alone
LEMMA EpDevSame ==
  ASSUME EpInv, UNCHANGED EpDevVars
  PROVE  EpDevTypes' /\ EpAsks'
<1>1. UNCHANGED <<epReg, epUp, epIrq, epNapiOn>>
  BY DEF EpDevVars
<1>2. epOnly' = epOnly
  BY DEF EpDevVars
<1>3. epFailed' = epFailed
  BY DEF EpDevVars
<1>4. epWarned' = epWarned
  BY DEF EpDevVars
<1>5. epBug' = epBug
  BY DEF EpDevVars
<1>6. EpDevTypes'
  BY <1>1, <1>2 DEF EpInv, EpDevTypes, EpDevs
<1>7. EpAsks'
  BY <1>1, <1>2, <1>3, <1>4, <1>5 DEF EpInv, EpAsks, EpOwner
<1>8. QED
  BY <1>6, <1>7

\* Steps that register devices or open and close ones without interrupts
LEMMA EpRegOnly ==
  ASSUME EpInv, UNCHANGED <<epOnly, epIrq, epNapiOn, epFailed, epWarned, epBug>>,
         epReg' \subseteq EpDevs, epUp' \subseteq epReg', \A d : d # "ex" => (d \in epUp' <=> d \in epUp)
  PROVE  EpDevTypes' /\ EpAsks'
<1>1. EpDevTypes'
  BY DEF EpInv, EpDevTypes, EpDevs
<1>2. EpOwner' = EpOwner /\ EpOwner # "ex"
  BY DEF EpOwner
<1>3. \A d \in EpPorts \cup {"mac1"} : d # "ex"
  BY EpConsts
<1>4. EpAsks'
  <2>1. epNapiOn' = epNapiOn /\ epIrq' = epIrq
    OBVIOUS
  <2>2. epFailed' = epFailed
    OBVIOUS
  <2>3. epWarned' = epWarned
    OBVIOUS
  <2>4. epBug' = epBug
    OBVIOUS
  <2>5. EpOwner \in epUp' <=> EpOwner \in epUp
    BY <1>2
  <2>6. \A d \in EpPorts \cup {"mac1"} : d \in epUp' <=> d \in epUp
    BY <1>3
  <2>7. QED
    BY <1>2, <2>1, <2>2, <2>3, <2>4, <2>5, <2>6 DEF EpInv, EpAsks
<1>5. QED
  BY <1>1, <1>4

LEMMA EpRegKeeps ==
  ASSUME EpInv, EpProbe \/ EpProbeEx \/ EpRemoveEx \/ EpToggleEx \/ \E d \in EpDevs : EpProbePort(d)
  PROVE  EpInv'
<1>1. UNCHANGED EpChanVars /\ EpQuiet
  BY DEF EpProbe, EpProbeEx, EpRemoveEx, EpToggleEx, EpProbePort
<1>2. epOnly' = epOnly
  BY DEF EpProbe, EpProbeEx, EpRemoveEx, EpToggleEx, EpProbePort
<1>3. epFailed' = epFailed
  BY DEF EpProbe, EpProbeEx, EpRemoveEx, EpToggleEx, EpProbePort
<1>4. epWarned' = epWarned
  BY DEF EpProbe, EpProbeEx, EpRemoveEx, EpToggleEx, EpProbePort
<1>5. epBug' = epBug
  BY DEF EpProbe, EpProbeEx, EpRemoveEx, EpToggleEx, EpProbePort
<1>6. UNCHANGED <<epIrq, epNapiOn>>
  BY DEF EpProbe, EpProbeEx, EpRemoveEx, EpToggleEx, EpProbePort
<1>7. epReg \subseteq EpDevs /\ epUp \subseteq epReg
  BY DEF EpInv, EpDevTypes
<1>8. /\ epReg' \subseteq EpDevs /\ epUp' \subseteq epReg' /\ \A d : d # "ex" => (d \in epUp' <=> d \in epUp)
  <2>1. CASE EpProbe
    BY <1>7, <2>1 DEF EpProbe, EpDevs
  <2>2. CASE EpProbeEx
    BY <1>7, <2>2 DEF EpProbeEx, EpDevs
  <2>3. CASE EpRemoveEx
    BY <1>7, <2>3 DEF EpRemoveEx
  <2>4. CASE EpToggleEx
    BY <1>7, <2>4 DEF EpToggleEx
  <2>5. ASSUME NEW d \in EpDevs, EpProbePort(d) PROVE epReg' = epReg \cup {d} /\ epUp' = epUp
    BY <2>5 DEF EpProbePort
  <2>6. QED
    BY <1>7, <2>1, <2>2, <2>3, <2>4, <2>5
<1>9. EpDevTypes' /\ EpAsks'
  BY <1>2, <1>3, <1>4, <1>5, <1>6, <1>8, EpRegOnly
<1>10. EpChanTypes' /\ EpAlive' /\ EpRightDevice'
  BY <1>1, <1>2, <1>6, EpChanSame
<1>11. QED
  BY <1>9, <1>10 DEF EpInv

----------------------------------------------------------------------------
\* What requesting and freeing interrupts does to the counts
LEMMA EpCounts ==
  ASSUME NEW irq \in [EpIrqs -> Nat], NEW s
  PROVE  /\ EpAsked(irq, s) \in [EpIrqs -> Nat] /\ EpFreed(irq, s) \in [EpIrqs -> Nat]
         /\ \A k \in EpIrqs : EpAsked(irq, s)[k] = (IF k \in s THEN irq[k] + 1 ELSE irq[k])
         /\ \A k \in EpIrqs : k \in s /\ irq[k] = 1 => EpFreed(irq, s)[k] = 0
         /\ \A k \in EpIrqs : k \notin s => EpFreed(irq, s)[k] = irq[k]
<1>1. \A k \in EpIrqs : irq[k] \in Nat
  OBVIOUS
<1>2. \A k \in EpIrqs : EpAsked(irq, s)[k] = (IF k \in s THEN irq[k] + 1 ELSE irq[k])
  BY DEF EpAsked
<1>3. \A k \in EpIrqs : EpFreed(irq, s)[k] = (IF k \in s /\ irq[k] > 0 THEN irq[k] - 1 ELSE irq[k])
  BY DEF EpFreed
<1>4. EpAsked(irq, s) \in [EpIrqs -> Nat]
  BY <1>1 DEF EpAsked
<1>5. EpFreed(irq, s) \in [EpIrqs -> Nat]
  BY <1>1 DEF EpFreed
<1>6. \A k \in EpIrqs : k \in s /\ irq[k] = 1 => EpFreed(irq, s)[k] = 0
  BY <1>3
<1>7. \A k \in EpIrqs : k \notin s => EpFreed(irq, s)[k] = irq[k]
  BY <1>3
<1>8. QED
  BY <1>2, <1>4, <1>5, <1>6, <1>7

LEMMA EpIrqFacts ==
  /\ EpDataIrqs \subseteq EpIrqs
  /\ \A d \in EpPorts \cup {"mac1"} : \A n \in {"ptp_rx", "ptp_tx"} : <<n, d>> \in EpIrqs /\ <<n, d>> \notin EpDataIrqs
  /\ \A d, e : \A n \in {"ptp_rx", "ptp_tx"} : <<n, e>> \in {"ptp_rx", "ptp_tx"} \X {d} <=> e = d
  /\ \A d : \A k \in EpDataIrqs : k \notin {"ptp_rx", "ptp_tx"} \X {d}
BY DEF EpDataIrqs, EpIrqs

LEMMA EpPortIs == \A d \in epReg : EpInv /\ d \notin {"ep", "ex"} => d \in EpPorts \cup {"mac1"}
BY DEF EpInv, EpDevTypes, EpDevs

\* The data path is opened: the channels.
LEMMA EpDataOpenChans ==
  ASSUME EpInv, NEW fail \in EpFails, NEW irq, EpDataOpen(fail, irq), epOnly' = epOnly
  PROVE  EpChanTypes' /\ EpAlive' /\ EpRightDevice' /\ epNapiOn' \subseteq EpQ
<1> DEFINE qs == EpOpened(fail)
           chans == {EpChanNum[q] : q \in qs}
<1>1. /\ epRun' = chans /\ epRing' = [c \in EpChan |-> << >>] /\ epPend' = [c \in EpChan |-> {}]
      /\ epOn' = [c \in EpChan |-> IF c \in chans THEN {"ioc", "err"} ELSE {}]
  BY DEF EpDataOpen, EpRxQInit
<1>2. /\ epNapiOn' = epNapiOn \cup qs /\ epSched' = epSched /\ epTasklet' = epTasklet /\ epGot' = << >>
  BY DEF EpDataOpen, EpQuiet
<1>3. qs \subseteq EpQ
  BY DEF EpOpened
<1> HIDE DEF qs
<1>4. chans \subseteq EpChan
  BY <1>3, EpConsts
<1>5. EpChanTypes'
  <2>1. epRun' \subseteq EpChan /\ epSched' \subseteq EpQ /\ epTasklet' \subseteq EpQ
    BY <1>1, <1>2, <1>4 DEF EpInv, EpChanTypes
  <2>2. DOMAIN epRing' = EpChan /\ \A c \in EpChan : epRing'[c] = << >>
    BY <1>1
  <2>3. \A S : << >> \in Seq(S)
    OBVIOUS
  <2>4. epPend' \in [EpChan -> SUBSET {"ioc", "err"}]
    BY <1>1
  <2>5. epOn' \in [EpChan -> SUBSET {"ioc", "err"}]
    BY <1>1
  <2>6. QED
    BY <2>1, <2>2, <2>3, <2>4, <2>5 DEF EpChanTypes
<1>6. EpAlive'
  <2> SUFFICES ASSUME NEW q \in EpQ, EpChanNum[q] \in chans
               PROVE  "ioc" \in epOn'[EpChanNum[q]] /\ epRing'[EpChanNum[q]] = << >>
    BY <1>1 DEF EpAlive
  <2>1. EpChanNum[q] \in EpChan
    BY EpConsts
  <2>2. QED
    BY <1>1, <2>1
<1>7. EpRightDevice'
  BY <1>2 DEF EpRightDevice
<1>8. epNapiOn' \subseteq EpQ
  BY <1>2, <1>3 DEF EpInv, EpDevTypes
<1>9. QED
  BY <1>5, <1>6, <1>7, <1>8

\* ... and its interrupts, when nothing fails.
LEMMA EpDataOpenIrqs ==
  ASSUME EpInv, NEW fail \in EpFails, NEW irq \in [EpIrqs -> Nat], EpDataOpen(fail, irq)
  PROVE  /\ epIrq' \in [EpIrqs -> Nat] /\ (~epFailed' => ~epFailed /\ fail[1] = "no")
         /\ fail[1] = "no" => /\ (epWarned' <=> epWarned) /\ epNapiOn' = EpQ /\ (epNapiOn = {} => epBug' = FALSE)
                              /\ \A k \in EpIrqs : epIrq'[k] = (IF k \in EpDataIrqs THEN irq[k] + 1 ELSE irq[k])
<1> DEFINE rx == {"rx"} \X EpOpened(fail)
           tx == {"tx"} \X (CASE fail[1] = "rx" -> {} [] fail[1] = "tx" -> {q \in EpTxQ : q < fail[2]} [] OTHER -> EpTxQ)
           asked == EpAsked(irq, rx \cup tx)
           once == IF fail[1] = "tadma" THEN EpFreed(asked, {"rx"} \X EpTxQ) ELSE asked
<1>1. epIrq' = IF fail[1] \in {"tx", "tadma"} THEN EpFreed(once, {"rx"} \X EpQ) ELSE once
  BY DEF EpDataOpen
<1>2. epFailed' = (epFailed \/ fail[1] # "no")
  BY DEF EpDataOpen
<1>3. asked \in [EpIrqs -> Nat] /\ \A k \in EpIrqs : asked[k] = (IF k \in rx \cup tx THEN irq[k] + 1 ELSE irq[k])
  BY EpCounts
<1>4. once \in [EpIrqs -> Nat]
  <2> HIDE DEF asked
  <2>1. QED
    BY <1>3, EpCounts
<1>5. epIrq' \in [EpIrqs -> Nat]
  <2> HIDE DEF once
  <2>1. QED
    BY <1>1, <1>4, EpCounts
<1>6. ASSUME fail[1] = "no"
      PROVE  /\ epNapiOn' = EpQ /\ (epNapiOn = {} => epBug' = FALSE)
             /\ \A k \in EpIrqs : epIrq'[k] = (IF k \in EpDataIrqs THEN irq[k] + 1 ELSE irq[k])
  <2>1. EpOpened(fail) = EpQ
    BY <1>6 DEF EpOpened
  <2>2. rx \cup tx = EpDataIrqs
    BY <1>6, <2>1 DEF EpDataIrqs
  <2>3. epIrq' = asked
    BY <1>1, <1>6
  <2>4. epNapiOn' = EpQ
    BY <2>1 DEF EpDataOpen, EpInv, EpDevTypes
  <2>5. epNapiOn = {} => epBug' = FALSE
    BY DEF EpDataOpen
  <2> HIDE DEF rx, tx, asked
  <2>6. QED
    BY <1>3, <2>2, <2>3, <2>4, <2>5
<1>7. ASSUME fail[1] = "no" PROVE epWarned' <=> epWarned
  <2>1. epWarned' = (epWarned \/ (fail[1] \in {"tx", "tadma"} /\ EpUnasked(once, {"rx"} \X EpQ)))
    BY DEF EpDataOpen
  <2> HIDE DEF once
  <2>2. QED
    BY <1>7, <2>1
<1>8. QED
  BY <1>2, <1>5, <1>6, <1>7

LEMMA EpOpenKeeps == ASSUME EpInv, NEW fail \in EpFails, EpOpen(fail) PROVE EpInv'
<1>1. "ep" \in epReg /\ "ep" \notin epUp /\ EpDataOpen(fail, epIrq) /\ epReg' = epReg
      /\ epUp' = (IF fail[1] = "no" THEN epUp \cup {"ep"} ELSE epUp)
  BY DEF EpOpen
<1>2. epOnly' = epOnly
  BY DEF EpOpen
<1>3. ~epOnly /\ EpOwner = "ep" /\ EpOwner' = "ep"
  BY <1>1, <1>2 DEF EpInv, EpDevTypes, EpDevs, EpOwner
<1>4. EpChanTypes' /\ EpAlive' /\ EpRightDevice' /\ epNapiOn' \subseteq EpQ
  BY <1>1, <1>2, EpDataOpenChans
<1>5. epIrq \in [EpIrqs -> Nat]
  BY DEF EpInv, EpDevTypes
<1>6. /\ epIrq' \in [EpIrqs -> Nat] /\ (~epFailed' => ~epFailed /\ fail[1] = "no")
      /\ fail[1] = "no" => /\ (epWarned' <=> epWarned) /\ epNapiOn' = EpQ /\ (epNapiOn = {} => epBug' = FALSE)
                           /\ \A k \in EpIrqs : epIrq'[k] = (IF k \in EpDataIrqs THEN epIrq[k] + 1 ELSE epIrq[k])
  BY <1>1, <1>5, EpDataOpenIrqs
<1>7. EpDevTypes'
  BY <1>1, <1>2, <1>4, <1>6 DEF EpInv, EpDevTypes, EpDevs
<1>8. EpAsks'
  <2> SUFFICES ASSUME ~epFailed' PROVE EpAsks'
    BY DEF EpAsks
  <2>1. ~epFailed /\ fail[1] = "no"
    BY <1>6
  <2>2. /\ ~epWarned /\ epNapiOn = {} /\ \A k \in EpDataIrqs : epIrq[k] = 0
    BY <1>1, <1>3, <2>1 DEF EpInv, EpAsks
  <2>3. \A d \in EpPorts \cup {"mac1"} : \A n \in {"ptp_rx", "ptp_tx"} : epIrq[<<n, d>>] = (IF d \in epUp THEN 1 ELSE 0)
    BY <2>1 DEF EpInv, EpAsks
  <2>4. epUp' = epUp \cup {"ep"} /\ epNapiOn' = EpQ
    BY <1>1, <1>6, <2>1
  <2>5. ~epWarned' /\ ~epBug'
    BY <1>6, <2>1, <2>2
  <2>6. \A k \in EpDataIrqs : epIrq'[k] = 1
    BY <1>6, <2>1, <2>2, EpIrqFacts
  <2>7. \A d \in EpPorts \cup {"mac1"} : \A n \in {"ptp_rx", "ptp_tx"} : epIrq'[<<n, d>>] = epIrq[<<n, d>>]
    BY <1>6, <2>1, EpIrqFacts
  <2>8. \A d \in EpPorts \cup {"mac1"} : d \in epUp' <=> d \in epUp
    BY <2>4, EpConsts
  <2>9. \A d \in EpPorts \cup {"mac1"} : \A n \in {"ptp_rx", "ptp_tx"} : epIrq'[<<n, d>>] = (IF d \in epUp' THEN 1 ELSE 0)
    BY <2>3, <2>7, <2>8
  <2>10. QED
    BY <1>3, <2>4, <2>5, <2>6, <2>9 DEF EpAsks
<1>9. QED
  BY <1>4, <1>7, <1>8 DEF EpInv

LEMMA EpOpenPortKeeps == ASSUME EpInv, NEW d \in EpDevs, NEW fail \in EpFails, EpOpenPort(d, fail) PROVE EpInv'
<1> DEFINE s == {"ptp_rx", "ptp_tx"} \X {d}
           irq == EpAsked(epIrq, s)
<1>1. d \in epReg /\ d \notin epUp /\ d \notin {"ep", "ex"} /\ epReg' = epReg /\ epUp' = epUp \cup {d}
  BY DEF EpOpenPort
<1>2. epOnly' = epOnly /\ EpOwner' = EpOwner
  BY DEF EpOpenPort, EpOwner
<1>3. d \in EpPorts \cup {"mac1"}
  BY <1>1, EpPortIs
<1>4. epIrq \in [EpIrqs -> Nat]
  BY DEF EpInv, EpDevTypes
<1>5. irq \in [EpIrqs -> Nat] /\ \A k \in EpIrqs : irq[k] = (IF k \in s THEN epIrq[k] + 1 ELSE epIrq[k])
  BY <1>4, EpCounts
<1>6. \A k \in EpDataIrqs : irq[k] = epIrq[k]
  BY <1>5, EpIrqFacts
<1>7. ~epFailed => \A e \in EpPorts \cup {"mac1"} : \A n \in {"ptp_rx", "ptp_tx"} : irq[<<n, e>>] = (IF e \in epUp \cup {d} THEN 1 ELSE 0)
  <2> SUFFICES ASSUME ~epFailed, NEW e \in EpPorts \cup {"mac1"}, NEW n \in {"ptp_rx", "ptp_tx"}
               PROVE  irq[<<n, e>>] = (IF e \in epUp \cup {d} THEN 1 ELSE 0)
    OBVIOUS
  <2>1. epIrq[<<n, e>>] = (IF e \in epUp THEN 1 ELSE 0)
    BY DEF EpInv, EpAsks
  <2>2. <<n, e>> \in s <=> e = d
    BY EpIrqFacts
  <2>3. <<n, e>> \in EpIrqs
    BY EpIrqFacts
  <2>4. irq[<<n, e>>] = (IF e = d THEN epIrq[<<n, e>>] + 1 ELSE epIrq[<<n, e>>])
    BY <1>5, <2>2, <2>3
  <2>5. QED
    BY <1>1, <2>1, <2>4
<1> HIDE DEF irq
<1>8. CASE epOnly
  <2>1. EpDataOpen(fail, irq)
    BY <1>8 DEF EpOpenPort, irq
  <2>2. EpOwner = d
    BY <1>8 DEF EpOwner, EpDevs
  <2>3. EpChanTypes' /\ EpAlive' /\ EpRightDevice' /\ epNapiOn' \subseteq EpQ
    BY <1>2, <2>1, EpDataOpenChans
  <2>4. /\ epIrq' \in [EpIrqs -> Nat] /\ (~epFailed' => ~epFailed /\ fail[1] = "no")
        /\ fail[1] = "no" => /\ (epWarned' <=> epWarned) /\ epNapiOn' = EpQ /\ (epNapiOn = {} => epBug' = FALSE)
                             /\ \A k \in EpIrqs : epIrq'[k] = (IF k \in EpDataIrqs THEN irq[k] + 1 ELSE irq[k])
    BY <1>5, <2>1, EpDataOpenIrqs
  <2>5. EpDevTypes'
    BY <1>1, <1>2, <2>3, <2>4 DEF EpInv, EpDevTypes, EpDevs
  <2>6. EpAsks'
    <3> SUFFICES ASSUME ~epFailed' PROVE EpAsks'
      BY DEF EpAsks
    <3>1. ~epFailed /\ fail[1] = "no"
      BY <2>4
    <3>2. ~epWarned /\ epNapiOn = {} /\ \A k \in EpDataIrqs : epIrq[k] = 0
      BY <1>1, <2>2, <3>1 DEF EpInv, EpAsks
    <3>3. ~epWarned' /\ ~epBug' /\ epNapiOn' = EpQ
      BY <2>4, <3>1, <3>2
    <3>4. \A k \in EpDataIrqs : epIrq'[k] = 1
      BY <1>6, <2>4, <3>1, <3>2, EpIrqFacts
    <3>5. \A e \in EpPorts \cup {"mac1"} : \A n \in {"ptp_rx", "ptp_tx"} : epIrq'[<<n, e>>] = irq[<<n, e>>]
      BY <2>4, <3>1, EpIrqFacts
    <3>6. EpOwner' \in epUp'
      BY <1>1, <1>2, <2>2
    <3>7. \A e \in EpPorts \cup {"mac1"} : \A n \in {"ptp_rx", "ptp_tx"} : epIrq'[<<n, e>>] = (IF e \in epUp' THEN 1 ELSE 0)
      BY <1>1, <1>7, <3>1, <3>5
    <3>8. QED
      BY <3>3, <3>4, <3>6, <3>7 DEF EpAsks
  <2>7. QED
    BY <2>3, <2>5, <2>6 DEF EpInv
<1>9. CASE ~epOnly
  <2>1. epIrq' = irq /\ UNCHANGED EpChanVars /\ EpQuiet /\ epNapiOn' = epNapiOn
    BY <1>9 DEF EpOpenPort, irq
  <2>2. epFailed' = epFailed
    BY <1>9 DEF EpOpenPort
  <2>3. epWarned' = epWarned
    BY <1>9 DEF EpOpenPort
  <2>4. epBug' = epBug
    BY <1>9 DEF EpOpenPort
  <2>5. EpChanTypes' /\ EpAlive' /\ EpRightDevice'
    BY <1>2, <2>1, EpChanSame
  <2>6. EpDevTypes'
    BY <1>1, <1>2, <1>5, <2>1 DEF EpInv, EpDevTypes, EpDevs
  <2>7. EpOwner = "ep"
    BY <1>9 DEF EpOwner
  <2>8. EpOwner' \in epUp' <=> EpOwner \in epUp
    BY <1>1, <1>2, <2>7
  <2>9. EpAsks'
    <3> SUFFICES ASSUME ~epFailed' PROVE EpAsks'
      BY DEF EpAsks
    <3>1. /\ ~epWarned' /\ ~epBug' /\ epNapiOn' = (IF EpOwner \in epUp THEN EpQ ELSE {})
      BY <2>1, <2>2, <2>3, <2>4 DEF EpInv, EpAsks
    <3>2. \A k \in EpDataIrqs : epIrq'[k] = (IF EpOwner \in epUp THEN 1 ELSE 0)
      BY <1>6, <2>1, <2>2 DEF EpInv, EpAsks
    <3>3. \A e \in EpPorts \cup {"mac1"} : \A n \in {"ptp_rx", "ptp_tx"} : epIrq'[<<n, e>>] = (IF e \in epUp' THEN 1 ELSE 0)
      BY <1>1, <1>7, <2>1, <2>2
    <3>4. QED
      BY <2>8, <3>1, <3>2, <3>3 DEF EpAsks
  <2>10. QED
    BY <2>5, <2>6, <2>9 DEF EpInv
<1>10. QED
  BY <1>8, <1>9

\* The data path is closed: nothing runs.
LEMMA EpDataCloseChans ==
  ASSUME EpInv, NEW irq, NEW s, EpDataClose(irq, s), epOnly' = epOnly
  PROVE  EpChanTypes' /\ EpAlive' /\ EpRightDevice' /\ epNapiOn' = {}
<1>1. /\ epNapiOn' = {} /\ epSched' = {} /\ epTasklet' = {} /\ epRun' = {} /\ epOn' = epOn /\ epGot' = << >>
      /\ epRing' = [c \in EpChan |-> << >>] /\ epPend' = [c \in EpChan |-> {}]
  BY DEF EpDataClose, EpQuiet
<1>2. EpChanTypes'
  <2>1. DOMAIN epRing' = EpChan /\ \A c \in EpChan : epRing'[c] = << >>
    BY <1>1
  <2>2. \A S : << >> \in Seq(S)
    OBVIOUS
  <2>3. epPend' \in [EpChan -> SUBSET {"ioc", "err"}]
    BY <1>1
  <2>4. epOn' \in [EpChan -> SUBSET {"ioc", "err"}]
    BY <1>1 DEF EpInv, EpChanTypes
  <2>5. QED
    BY <1>1, <2>1, <2>2, <2>3, <2>4 DEF EpChanTypes
<1>3. EpAlive' /\ EpRightDevice'
  BY <1>1 DEF EpAlive, EpRightDevice
<1>4. QED
  BY <1>1, <1>2, <1>3

LEMMA EpStopKeeps == EpInv /\ EpStop => EpInv'
<1> SUFFICES ASSUME EpInv, EpStop PROVE EpInv'
  OBVIOUS
<1>1. "ep" \in epUp /\ epUp' = epUp \ {"ep"} /\ EpDataClose(epIrq, {}) /\ epReg' = epReg
  BY DEF EpStop
<1>2. epOnly' = epOnly
  BY DEF EpStop
<1>3. EpOwner = "ep" /\ EpOwner' = "ep"
  BY <1>1, <1>2 DEF EpInv, EpDevTypes, EpDevs, EpOwner
<1>4. EpChanTypes' /\ EpAlive' /\ EpRightDevice' /\ epNapiOn' = {}
  BY <1>1, <1>2, EpDataCloseChans
<1>5. epIrq \in [EpIrqs -> Nat]
  BY DEF EpInv, EpDevTypes
<1>6. epIrq' = EpFreed(epIrq, EpDataIrqs)
  <2>1. {} \cup EpDataIrqs = EpDataIrqs
    OBVIOUS
  <2>2. QED
    BY <1>1, <2>1 DEF EpDataClose
<1>7. epFailed' = epFailed
  BY <1>1 DEF EpDataClose
<1>8. epBug' = epBug
  BY <1>1 DEF EpDataClose
<1>9. epWarned' = (epWarned \/ EpUnasked(epIrq, {} \cup EpDataIrqs))
  BY <1>1 DEF EpDataClose
<1>10. epIrq' \in [EpIrqs -> Nat]
  BY <1>5, <1>6, EpCounts
<1>11. EpDevTypes'
  BY <1>1, <1>2, <1>4, <1>10 DEF EpInv, EpDevTypes, EpDevs
<1>12. EpAsks'
  <2> SUFFICES ASSUME ~epFailed' PROVE EpAsks'
    BY DEF EpAsks
  <2>1. ~epWarned /\ ~epBug /\ \A k \in EpDataIrqs : epIrq[k] = 1
    BY <1>1, <1>3, <1>7 DEF EpInv, EpAsks
  <2>2. \A d \in EpPorts \cup {"mac1"} : \A n \in {"ptp_rx", "ptp_tx"} : epIrq[<<n, d>>] = (IF d \in epUp THEN 1 ELSE 0)
    BY <1>7 DEF EpInv, EpAsks
  <2>11. ~EpUnasked(epIrq, {} \cup EpDataIrqs)
    BY <2>1 DEF EpUnasked
  <2>3. ~epWarned'
    BY <1>9, <2>1, <2>11
  <2>10. ~epBug'
    BY <1>8, <2>1
  <2>4. \A k \in EpDataIrqs : epIrq'[k] = 0
    BY <1>5, <1>6, <2>1, EpCounts, EpIrqFacts
  <2>5. ASSUME NEW d \in EpPorts \cup {"mac1"}, NEW n \in {"ptp_rx", "ptp_tx"} PROVE epIrq'[<<n, d>>] = epIrq[<<n, d>>]
    <3>1. <<n, d>> \notin EpDataIrqs /\ <<n, d>> \in EpIrqs
      BY EpIrqFacts
    <3>2. QED
      BY <1>5, <1>6, <3>1, EpCounts
  <2>6. \A d \in EpPorts \cup {"mac1"} : d \in epUp' <=> d \in epUp
    BY <1>1, EpConsts
  <2>7. \A d \in EpPorts \cup {"mac1"} : \A n \in {"ptp_rx", "ptp_tx"} : epIrq'[<<n, d>>] = (IF d \in epUp' THEN 1 ELSE 0)
    BY <2>2, <2>5, <2>6
  <2>8. EpOwner' \notin epUp'
    BY <1>1, <1>3
  <2>9. QED
    BY <1>4, <2>3, <2>4, <2>7, <2>8, <2>10 DEF EpAsks
<1>13. QED
  BY <1>4, <1>11, <1>12 DEF EpInv

LEMMA EpStopPortKeeps == ASSUME EpInv, NEW d \in EpDevs, EpStopPort(d) PROVE EpInv'
<1> DEFINE s == {"ptp_rx", "ptp_tx"} \X {d}
<1>1. d \in epUp /\ d \notin {"ep", "ex"} /\ epReg' = epReg /\ epUp' = epUp \ {d}
  BY DEF EpStopPort
<1>2. epOnly' = epOnly /\ EpOwner' = EpOwner
  BY DEF EpStopPort, EpOwner
<1>3. d \in EpPorts \cup {"mac1"}
  BY <1>1, EpPortIs DEF EpInv, EpDevTypes
<1>4. epIrq \in [EpIrqs -> Nat]
  BY DEF EpInv, EpDevTypes
<1>5. ~epFailed => /\ ~epWarned /\ ~epBug
                   /\ \A e \in EpPorts \cup {"mac1"} : \A n \in {"ptp_rx", "ptp_tx"} : epIrq[<<n, e>>] = (IF e \in epUp THEN 1 ELSE 0)
  BY DEF EpInv, EpAsks
<1>6. ~epFailed => \A k \in s : epIrq[k] = 1
  <2> SUFFICES ASSUME ~epFailed, NEW k \in s PROVE epIrq[k] = 1
    OBVIOUS
  <2>1. PICK n \in {"ptp_rx", "ptp_tx"} : k = <<n, d>>
    OBVIOUS
  <2>2. QED
    BY <1>1, <1>3, <1>5, <2>1
<1>7. \A e \in EpPorts \cup {"mac1"} : \A n \in {"ptp_rx", "ptp_tx"} :
        <<n, e>> \in EpIrqs /\ <<n, e>> \notin EpDataIrqs /\ (<<n, e>> \in s <=> e = d)
  BY EpIrqFacts
<1>8. CASE epOnly
  <2>1. EpDataClose(epIrq, s)
    BY <1>8 DEF EpStopPort
  <2>2. EpOwner = d
    BY <1>8 DEF EpOwner, EpDevs
  <2>3. EpChanTypes' /\ EpAlive' /\ EpRightDevice' /\ epNapiOn' = {}
    BY <1>2, <2>1, EpDataCloseChans
  <2>4. epIrq' = EpFreed(epIrq, s \cup EpDataIrqs) /\ epFailed' = epFailed
    BY <2>1 DEF EpDataClose
  <2>5. epBug' = epBug
    BY <2>1 DEF EpDataClose
  <2>6. epWarned' = (epWarned \/ EpUnasked(epIrq, s \cup EpDataIrqs))
    BY <2>1 DEF EpDataClose
  <2>7. epIrq' \in [EpIrqs -> Nat]
    BY <1>4, <2>4, EpCounts
  <2>8. EpDevTypes'
    BY <1>1, <1>2, <2>3, <2>7 DEF EpInv, EpDevTypes, EpDevs
  <2>9. EpAsks'
    <3> SUFFICES ASSUME ~epFailed' PROVE EpAsks'
      BY DEF EpAsks
    <3>1. ~epFailed
      BY <2>4
    <3>2. \A k \in EpDataIrqs : epIrq[k] = 1
      BY <1>1, <2>2, <3>1 DEF EpInv, EpAsks
    <3>3. \A k \in s \cup EpDataIrqs : epIrq[k] = 1
      BY <1>6, <3>1, <3>2
    <3>4. ~EpUnasked(epIrq, s \cup EpDataIrqs)
      BY <3>3 DEF EpUnasked
    <3>9. ~epWarned'
      BY <1>5, <2>6, <3>1, <3>4
    <3>10. ~epBug'
      BY <1>5, <2>5, <3>1
    <3>5. \A k \in EpDataIrqs : epIrq'[k] = 0
      BY <1>4, <2>4, <3>3, EpCounts, EpIrqFacts
    <3>6. ASSUME NEW e \in EpPorts \cup {"mac1"}, NEW n \in {"ptp_rx", "ptp_tx"}
          PROVE  epIrq'[<<n, e>>] = (IF e \in epUp' THEN 1 ELSE 0)
      <4>1. CASE e = d
        <5>1. <<n, e>> \in s /\ <<n, e>> \in EpIrqs
          BY <1>7, <4>1
        <5>2. epIrq'[<<n, e>>] = 0
          BY <1>4, <2>4, <3>3, <5>1, EpCounts
        <5>3. QED
          BY <1>1, <4>1, <5>2
      <4>2. CASE e # d
        <5>1. <<n, e>> \notin s \cup EpDataIrqs /\ <<n, e>> \in EpIrqs
          BY <1>7, <4>2
        <5>2. epIrq'[<<n, e>>] = epIrq[<<n, e>>]
          BY <1>4, <2>4, <5>1, EpCounts
        <5>3. QED
          BY <1>1, <1>5, <3>1, <4>2, <5>2
      <4>3. QED
        BY <4>1, <4>2
    <3>7. EpOwner' \notin epUp'
      BY <1>1, <1>2, <2>2
    <3>8. QED
      BY <2>3, <3>5, <3>6, <3>7, <3>9, <3>10 DEF EpAsks
  <2>10. QED
    BY <2>3, <2>8, <2>9 DEF EpInv
<1>9. CASE ~epOnly
  <2>1. epIrq' = EpFreed(epIrq, s) /\ UNCHANGED EpChanVars /\ EpQuiet /\ epNapiOn' = epNapiOn
    BY <1>9 DEF EpStopPort
  <2>2. epFailed' = epFailed
    BY <1>9 DEF EpStopPort
  <2>3. epWarned' = (epWarned \/ EpUnasked(epIrq, s))
    BY <1>9 DEF EpStopPort
  <2>4. epBug' = epBug
    BY <1>9 DEF EpStopPort
  <2>5. EpChanTypes' /\ EpAlive' /\ EpRightDevice'
    BY <1>2, <2>1, EpChanSame
  <2>6. epIrq' \in [EpIrqs -> Nat]
    BY <1>4, <2>1, EpCounts
  <2>7. EpDevTypes'
    BY <1>1, <1>2, <2>1, <2>6 DEF EpInv, EpDevTypes, EpDevs
  <2>8. EpOwner = "ep"
    BY <1>9 DEF EpOwner
  <2>9. EpOwner' \in epUp' <=> EpOwner \in epUp
    BY <1>1, <1>2, <2>8
  <2>10. EpAsks'
    <3> SUFFICES ASSUME ~epFailed' PROVE EpAsks'
      BY DEF EpAsks
    <3>1. ~epFailed
      BY <2>2
    <3>2. epNapiOn' = (IF EpOwner \in epUp THEN EpQ ELSE {}) /\ \A k \in EpDataIrqs : epIrq[k] = (IF EpOwner \in epUp THEN 1 ELSE 0)
      BY <2>1, <3>1 DEF EpInv, EpAsks
    <3>3. ~EpUnasked(epIrq, s)
      BY <1>6, <3>1 DEF EpUnasked
    <3>7. ~epWarned'
      BY <1>5, <2>3, <3>1, <3>3
    <3>8. ~epBug'
      BY <1>5, <2>4, <3>1
    <3>4. \A k \in EpDataIrqs : epIrq'[k] = epIrq[k]
      <4>1. \A k \in EpDataIrqs : k \notin s /\ k \in EpIrqs
        BY EpIrqFacts
      <4>2. QED
        BY <1>4, <2>1, <4>1, EpCounts
    <3>5. ASSUME NEW e \in EpPorts \cup {"mac1"}, NEW n \in {"ptp_rx", "ptp_tx"}
          PROVE  epIrq'[<<n, e>>] = (IF e \in epUp' THEN 1 ELSE 0)
      <4>1. CASE e = d
        <5>1. <<n, e>> \in s /\ <<n, e>> \in EpIrqs
          BY <1>7, <4>1
        <5>2. epIrq'[<<n, e>>] = 0
          BY <1>4, <1>6, <2>1, <3>1, <5>1, EpCounts
        <5>3. QED
          BY <1>1, <4>1, <5>2
      <4>2. CASE e # d
        <5>1. <<n, e>> \notin s /\ <<n, e>> \in EpIrqs
          BY <1>7, <4>2
        <5>2. epIrq'[<<n, e>>] = epIrq[<<n, e>>]
          BY <1>4, <2>1, <5>1, EpCounts
        <5>3. QED
          BY <1>1, <1>5, <3>1, <4>2, <5>2
      <4>3. QED
        BY <4>1, <4>2
    <3>6. QED
      BY <2>9, <3>2, <3>4, <3>5, <3>7, <3>8 DEF EpAsks
  <2>11. QED
    BY <2>5, <2>7, <2>10 DEF EpInv
<1>10. QED
  BY <1>8, <1>9

LEMMA EpSameKeeps == EpInv /\ UNCHANGED epVars => EpInv'
<1> SUFFICES ASSUME EpInv, UNCHANGED epVars PROVE EpInv'
  OBVIOUS
<1>1. UNCHANGED EpDevVars /\ UNCHANGED EpChanVars /\ epGot' = epGot
  BY DEF epVars, EpDevVars, EpChanVars
<1>2. EpDevTypes' /\ EpAsks'
  BY <1>1, EpDevSame
<1>3. UNCHANGED <<epRun, epRing, epPend, epOn, epSched, epTasklet, epOnly, epNapiOn, epGot>>
  BY <1>1 DEF EpDevVars, EpChanVars
<1>4. epCut' = epCut
  BY <1>1 DEF EpChanVars
<1>5. \A c : EpMeant(c)' = EpMeant(c)
  BY <1>3 DEF EpMeant, EpKind, EpDevs, EpOwner
<1>6. EpChanTypes'
  BY <1>3, <1>5 DEF EpInv, EpChanTypes
<1>7. EpAlive' /\ EpRightDevice'
  BY <1>3, <1>4 DEF EpInv, EpAlive, EpRightDevice
<1>8. QED
  BY <1>2, <1>6, <1>7 DEF EpInv

LEMMA EpReceiveKeeps == ASSUME EpInv, NEW c \in EpBusy, NEW to, EpReceive(c, to) PROVE EpInv'
<1>1. c \in epRun /\ to \in EpMeant(c) /\ epRing' = [epRing EXCEPT ![c] = Append(@, to)]
      /\ epPend' = [epPend EXCEPT ![c] = @ \cup {"ioc"}]
  BY DEF EpReceive, EpMeant
<1>2. UNCHANGED EpDevVars /\ UNCHANGED <<epRun, epOn, epSched, epTasklet>> /\ epGot' = << >>
  BY DEF EpReceive, EpQuiet
<1>3. epCut' = epCut
  BY DEF EpReceive
<1>4. EpDevTypes' /\ EpAsks'
  BY <1>2, EpDevSame
<1>5. c \in EpChan
  BY EpAssumption
<1>6. DOMAIN epRing = EpChan /\ \A e \in EpChan : epRing[e] \in Seq(EpMeant(e))
  BY DEF EpInv, EpChanTypes
<1>7. epPend \in [EpChan -> SUBSET {"ioc", "err"}]
  BY DEF EpInv, EpChanTypes
<1>8. UNCHANGED <<epOnly, epNapiOn>>
  BY <1>2 DEF EpDevVars
<1>9. \A e : EpMeant(e)' = EpMeant(e)
  BY <1>8 DEF EpMeant, EpKind, EpDevs, EpOwner
<1>10. /\ DOMAIN epRing' = EpChan /\ epRing'[c] = Append(epRing[c], to)
       /\ \A e \in EpChan : e # c => epRing'[e] = epRing[e]
  BY <1>1, <1>5, <1>6
<1>11. /\ epPend' \in [EpChan -> SUBSET {"ioc", "err"}] /\ "ioc" \in epPend'[c]
       /\ \A e \in EpChan : e # c => epPend'[e] = epPend[e]
  BY <1>1, <1>5, <1>7
<1>12. EpChanTypes'
  <2>1. epRing'[c] \in Seq(EpMeant(c))
    BY <1>1, <1>5, <1>6, <1>10
  <2>2. \A e \in EpChan : epRing'[e] \in Seq(EpMeant(e)')
    BY <1>6, <1>9, <1>10, <2>1
  <2>3. QED
    BY <1>2, <1>10, <1>11, <2>2 DEF EpInv, EpChanTypes
<1>13. EpAlive'
  <2> SUFFICES ASSUME NEW q \in EpQ, EpChanNum[q] \in epRun, q \in epNapiOn
               PROVE  /\ "ioc" \in epOn[EpChanNum[q]] \/ q \in epSched \/ q \in epTasklet
                      /\ epRing'[EpChanNum[q]] # << >> /\ ~epCut => "ioc" \in epPend'[EpChanNum[q]] \/ q \in epTasklet
    BY <1>2, <1>3, <1>8 DEF EpAlive
  <2>1. EpChanNum[q] \in EpChan
    BY EpConsts
  <2>2. /\ "ioc" \in epOn[EpChanNum[q]] \/ q \in epSched \/ q \in epTasklet
        /\ epRing[EpChanNum[q]] # << >> /\ ~epCut => "ioc" \in epPend[EpChanNum[q]] \/ q \in epTasklet
    BY DEF EpInv, EpAlive
  <2>3. CASE EpChanNum[q] = c
    BY <1>11, <2>2, <2>3
  <2>4. CASE EpChanNum[q] # c
    BY <1>10, <1>11, <2>1, <2>2, <2>4
  <2>5. QED
    BY <2>3, <2>4
<1>14. EpRightDevice'
  BY <1>2 DEF EpRightDevice
<1>15. QED
  BY <1>4, <1>12, <1>13, <1>14 DEF EpInv

LEMMA EpErrorKeeps == ASSUME EpInv, NEW c \in EpBusy, EpError(c) PROVE EpInv'
<1>1. epPend' = [epPend EXCEPT ![c] = @ \cup {"err"}] /\ UNCHANGED EpDevVars
      /\ UNCHANGED <<epRun, epRing, epOn, epSched, epTasklet>> /\ epGot' = << >>
  BY DEF EpError, EpQuiet
<1>2. epCut' = epCut
  BY DEF EpError
<1>3. EpDevTypes' /\ EpAsks'
  BY <1>1, EpDevSame
<1>4. c \in EpChan
  BY EpAssumption
<1>5. epPend \in [EpChan -> SUBSET {"ioc", "err"}]
  BY DEF EpInv, EpChanTypes
<1>6. UNCHANGED <<epOnly, epNapiOn>>
  BY <1>1 DEF EpDevVars
<1>7. \A e : EpMeant(e)' = EpMeant(e)
  BY <1>6 DEF EpMeant, EpKind, EpDevs, EpOwner
<1>8. epPend' \in [EpChan -> SUBSET {"ioc", "err"}] /\ \A e \in EpChan : "ioc" \in epPend'[e] <=> "ioc" \in epPend[e]
  BY <1>1, <1>4, <1>5
<1>9. EpChanTypes'
  BY <1>1, <1>7, <1>8 DEF EpInv, EpChanTypes
<1>10. EpAlive'
  BY <1>1, <1>2, <1>6, <1>8, EpConsts DEF EpInv, EpAlive
<1>11. EpRightDevice'
  BY <1>1 DEF EpRightDevice
<1>12. QED
  BY <1>3, <1>9, <1>10, <1>11 DEF EpInv

\* The handler finds the lowest channel with an interrupt, and its queue.
LEMMA EpLowestIs ==
  ASSUME EpInv, EpRaised # {}
  PROVE  EpLowest \in EpRaised /\ EpQueueOf(EpLowest) \in EpQ /\ EpChanNum[EpQueueOf(EpLowest)] = EpLowest
<1>1. EpRaised \subseteq EpChan /\ EpRaised \subseteq Nat
  BY EpConsts DEF EpRaised, EpChan
<1> DEFINE R == OpToRel(<, Nat)
<1>2. IsWellFoundedOn(R, Nat)
  BY NatLessThanWellFounded
<1>3. \E c \in EpRaised : \A d \in EpRaised : <<d, c>> \notin R
  BY <1>1, <1>2, WFMin
<1>4. PICK c \in EpRaised : \A d \in EpRaised : <<d, c>> \notin R
  BY <1>3
<1>5. \A d \in EpRaised : ~(d < c)
  <2>1. \A d \in EpRaised : d < c => <<d, c>> \in R
    BY <1>1 DEF OpToRel
  <2>2. QED
    BY <1>4, <2>1
<1>6. \A d \in EpRaised : c <= d
  BY <1>1, <1>5
<1>7. EpLowest \in EpRaised
  BY <1>6 DEF EpLowest
<1>8. \E q \in EpQ : EpChanNum[q] = EpLowest
  BY <1>1, <1>7 DEF EpChan
<1>9. QED
  BY <1>7, <1>8 DEF EpQueueOf

LEMMA EpRxIrqKeeps == EpInv /\ EpRxIrq => EpInv'
<1> SUFFICES ASSUME EpInv, EpRxIrq PROVE EpInv'
  OBVIOUS
<1> DEFINE c == EpLowest
           q == EpQueueOf(c)
           st == epPend[c]
<1>1. EpRaised # {}
  BY DEF EpRxIrq
<1>2. c \in EpRaised /\ q \in EpQ /\ EpChanNum[q] = c
  BY <1>1, EpLowestIs
<1>3. /\ epSched' = IF "ioc" \in st /\ q \in epNapiOn THEN epSched \cup {q} ELSE epSched
      /\ epOn' = [epOn EXCEPT ![c] = IF "err" \in st THEN {} ELSE @ \ {"ioc"}]
      /\ epTasklet' = IF "err" \in st THEN epTasklet \cup {q} ELSE epTasklet
      /\ epPend' = IF "err" \in st THEN [epPend EXCEPT ![c] = {}] ELSE epPend
  BY DEF EpRxIrq
<1>4. UNCHANGED EpDevVars /\ UNCHANGED <<epRun, epRing>> /\ epGot' = << >>
  BY DEF EpRxIrq, EpQuiet
<1>5. epCut' = epCut
  BY DEF EpRxIrq
<1>6. EpDevTypes' /\ EpAsks'
  BY <1>4, EpDevSame
<1>7. UNCHANGED <<epOnly, epNapiOn>>
  BY <1>4 DEF EpDevVars
<1>8. \A e : EpMeant(e)' = EpMeant(e)
  BY <1>7 DEF EpMeant, EpKind, EpDevs, EpOwner
<1>9. c \in EpChan /\ st \cap epOn[c] # {}
  BY <1>2 DEF EpRaised
<1> HIDE DEF c, q
<1>10. epPend \in [EpChan -> SUBSET {"ioc", "err"}] /\ epOn \in [EpChan -> SUBSET {"ioc", "err"}]
  BY DEF EpInv, EpChanTypes
<1>11. /\ epOn' \in [EpChan -> SUBSET {"ioc", "err"}] /\ \A e \in EpChan : e # c => epOn'[e] = epOn[e]
  BY <1>3, <1>9, <1>10
<1>12. epPend' \in [EpChan -> SUBSET {"ioc", "err"}] /\ \A e \in EpChan : e # c => epPend'[e] = epPend[e]
  BY <1>3, <1>9, <1>10
<1>13. EpChanTypes'
  BY <1>2, <1>3, <1>4, <1>8, <1>11, <1>12 DEF EpInv, EpChanTypes
<1>14. EpAlive'
  <2> SUFFICES ASSUME NEW r \in EpQ, EpChanNum[r] \in epRun, r \in epNapiOn
               PROVE  /\ "ioc" \in epOn'[EpChanNum[r]] \/ r \in epSched' \/ r \in epTasklet'
                      /\ epRing[EpChanNum[r]] # << >> /\ ~epCut => "ioc" \in epPend'[EpChanNum[r]] \/ r \in epTasklet'
    BY <1>4, <1>5, <1>7 DEF EpAlive
  <2>1. /\ "ioc" \in epOn[EpChanNum[r]] \/ r \in epSched \/ r \in epTasklet
        /\ epRing[EpChanNum[r]] # << >> /\ ~epCut => "ioc" \in epPend[EpChanNum[r]] \/ r \in epTasklet
    BY DEF EpInv, EpAlive
  <2>2. epSched \subseteq epSched' /\ epTasklet \subseteq epTasklet'
    BY <1>3
  <2>3. CASE r # q
    <3>1. EpChanNum[r] # c /\ EpChanNum[r] \in EpChan
      BY <1>2, <2>3, EpConsts
    <3>2. QED
      BY <1>11, <1>12, <2>1, <2>2, <3>1
  <2>4. CASE r = q /\ "err" \in st
    BY <1>3, <2>4
  <2>5. CASE r = q /\ "err" \notin st
    <3>1. "ioc" \in st
      BY <1>9, <1>10, <2>5
    <3>2. r \in epSched' /\ epPend' = epPend
      BY <1>3, <2>5, <3>1
    <3>3. QED
      BY <1>2, <2>5, <3>1, <3>2
  <2>6. QED
    BY <2>3, <2>4, <2>5
<1>15. EpRightDevice'
  BY <1>4 DEF EpRightDevice
<1>16. QED
  BY <1>6, <1>13, <1>14, <1>15 DEF EpInv

\* The poll routine hands each frame to the device its channel, or the first frame, names.
LEMMA EpTargetIs ==
  ASSUME NEW c, NEW ring \in Seq(EpMeant(c)), ring # << >>, NEW i \in DOMAIN ring,
         EpTarget(c, EpLead(ring)) \notin {ring[i], "drop"}
  PROVE  \E j \in 1..(i - 1) : ring[j] = EpTarget(c, EpLead(ring))
<1>1. i \in 1..Len(ring) /\ ring[i] \in EpMeant(c) /\ EpLead(ring) = ring[1] /\ Len(ring) \in Nat
  BY DEF EpLead
<1>2. EpKind(c) \in {"ex", "mgmt", "own"}
  BY DEF EpKind
<1>3. EpKind(c) # "own"
  <2> SUFFICES ASSUME EpKind(c) = "own" PROVE FALSE
    OBVIOUS
  <2>1. EpTarget(c, EpLead(ring)) = EpOwner
    BY DEF EpTarget
  <2>2. EpMeant(c) = {EpOwner}
    BY DEF EpMeant
  <2>3. QED
    BY <1>1, <2>1, <2>2
<1>4. EpKind(c) # "ex"
  <2> SUFFICES ASSUME EpKind(c) = "ex" PROVE FALSE
    OBVIOUS
  <2>1. EpTarget(c, EpLead(ring)) \in {"ex", "drop"}
    BY DEF EpTarget
  <2>2. EpMeant(c) = {"ex"}
    BY DEF EpMeant
  <2>3. QED
    BY <1>1, <2>1, <2>2
<1>5. EpTarget(c, EpLead(ring)) \in {ring[1], "drop"}
  BY <1>1, <1>2, <1>3, <1>4 DEF EpTarget
<1>6. EpTarget(c, EpLead(ring)) = ring[1] /\ i # 1
  BY <1>1, <1>5
<1>7. 1 \in 1..(i - 1)
  BY <1>1, <1>6
<1>8. QED
  BY <1>6, <1>7

LEMMA EpPollKeeps == ASSUME EpInv, NEW q \in EpQ, EpPoll(q) PROVE EpInv'
<1> DEFINE c == EpChanNum[q]
           st == epPend[c]
           turn == "ioc" \in st /\ "err" \notin st
<1>1. c \in EpChan /\ \A r \in EpQ : r # q => EpChanNum[r] # c /\ EpChanNum[r] \in EpChan
  BY EpConsts
<1>2. epPend' = IF "ioc" \in st THEN [epPend EXCEPT ![c] = {}] ELSE epPend
  BY DEF EpPoll
<1>3. IF turn /\ epRing[c] # << >>
      THEN /\ epGot' = [i \in DOMAIN epRing[c] |-> <<epRing[c][i], EpTarget(c, EpLead(epRing[c]))>>]
           /\ epRing' = [epRing EXCEPT ![c] = << >>]
      ELSE epGot' = << >> /\ epRing' = epRing
  BY DEF EpPoll
<1>4. IF turn THEN epSched' = epSched /\ epOn' = epOn
      ELSE epSched' = epSched \ {q} /\ epOn' = [epOn EXCEPT ![c] = @ \cup {"ioc"}]
  BY DEF EpPoll
<1>5. epCut' = (epCut \/ {"ioc", "err"} \subseteq st)
  BY DEF EpPoll
<1>6. UNCHANGED EpDevVars /\ epRun' = epRun /\ epTasklet' = epTasklet
  BY DEF EpPoll
<1>7. EpDevTypes' /\ EpAsks'
  BY <1>6, EpDevSame
<1>8. UNCHANGED <<epOnly, epNapiOn>>
  BY <1>6 DEF EpDevVars
<1>9. \A e : EpMeant(e)' = EpMeant(e)
  BY <1>8 DEF EpMeant, EpKind, EpDevs, EpOwner
<1>10. /\ epPend \in [EpChan -> SUBSET {"ioc", "err"}] /\ epOn \in [EpChan -> SUBSET {"ioc", "err"}]
  BY DEF EpInv, EpChanTypes
<1>11. DOMAIN epRing = EpChan /\ \A e \in EpChan : epRing[e] \in Seq(EpMeant(e))
  BY DEF EpInv, EpChanTypes
<1> HIDE DEF c
<1>12. epPend' \in [EpChan -> SUBSET {"ioc", "err"}] /\ \A e \in EpChan : e # c => epPend'[e] = epPend[e]
  BY <1>1, <1>2, <1>10
<1>13. /\ epOn' \in [EpChan -> SUBSET {"ioc", "err"}] /\ \A e \in EpChan : e # c => epOn'[e] = epOn[e]
       /\ ~turn => "ioc" \in epOn'[c]
  BY <1>1, <1>4, <1>10
<1>14. /\ DOMAIN epRing' = EpChan /\ \A e \in EpChan : e # c => epRing'[e] = epRing[e]
       /\ turn => epRing'[c] = << >>
       /\ ~turn => epRing'[c] = epRing[c]
  BY <1>1, <1>3, <1>11
<1>15. EpChanTypes'
  <2>1. \A S : << >> \in Seq(S)
    OBVIOUS
  <2>2. \A e \in EpChan : epRing'[e] \in Seq(EpMeant(e)')
    BY <1>9, <1>11, <1>14, <2>1
  <2>3. epSched' \subseteq EpQ
    BY <1>4 DEF EpInv, EpChanTypes
  <2>4. QED
    BY <1>6, <1>12, <1>13, <1>14, <2>2, <2>3 DEF EpInv, EpChanTypes
<1>16. EpAlive'
  <2> SUFFICES ASSUME NEW r \in EpQ, EpChanNum[r] \in epRun, r \in epNapiOn
               PROVE  /\ "ioc" \in epOn'[EpChanNum[r]] \/ r \in epSched' \/ r \in epTasklet
                      /\ epRing'[EpChanNum[r]] # << >> /\ ~epCut' => "ioc" \in epPend'[EpChanNum[r]] \/ r \in epTasklet
    BY <1>6, <1>8 DEF EpAlive
  <2>1. /\ "ioc" \in epOn[EpChanNum[r]] \/ r \in epSched \/ r \in epTasklet
        /\ epRing[EpChanNum[r]] # << >> /\ ~epCut => "ioc" \in epPend[EpChanNum[r]] \/ r \in epTasklet
    BY DEF EpInv, EpAlive
  <2>2. ~epCut' => ~epCut /\ ~({"ioc", "err"} \subseteq st)
    BY <1>5
  <2>3. CASE r # q
    <3>1. EpChanNum[r] # c /\ EpChanNum[r] \in EpChan
      BY <1>1, <2>3
    <3>2. epOn'[EpChanNum[r]] = epOn[EpChanNum[r]] /\ epPend'[EpChanNum[r]] = epPend[EpChanNum[r]]
          /\ epRing'[EpChanNum[r]] = epRing[EpChanNum[r]]
      BY <1>12, <1>13, <1>14, <3>1
    <3>3. r \in epSched => r \in epSched'
      BY <1>4, <2>3
    <3>4. QED
      BY <2>1, <2>2, <3>2, <3>3
  <2>4. CASE r = q /\ turn
    <3>1. EpChanNum[r] = c
      BY <2>4 DEF c
    <3>2. epRing'[c] = << >>
      BY <1>14, <2>4
    <3>3. epOn' = epOn /\ epSched' = epSched
      BY <1>4, <2>4
    <3>4. QED
      BY <2>1, <3>1, <3>2, <3>3
  <2>5. CASE r = q /\ ~turn
    <3>1. EpChanNum[r] = c
      BY <2>5 DEF c
    <3>2. "ioc" \in epOn'[c]
      BY <1>13, <2>5
    <3>3. ~epCut' => "ioc" \notin st /\ epPend' = epPend
      BY <1>2, <2>2, <2>5
    <3>4. epRing'[c] = epRing[c]
      BY <1>14, <2>5
    <3>5. QED
      BY <2>1, <2>2, <3>1, <3>2, <3>3, <3>4
  <2>6. QED
    BY <2>3, <2>4, <2>5
<1>17. EpRightDevice'
  <2>1. CASE turn /\ epRing[c] # << >>
    <3> DEFINE ring == epRing[c]
               to == EpTarget(c, EpLead(ring))
    <3>1. ring \in Seq(EpMeant(c)) /\ ring # << >>
      BY <1>1, <1>11, <2>1
    <3>2. epGot' = [i \in DOMAIN ring |-> <<ring[i], to>>]
      BY <1>3, <2>1
    <3>3. \A i \in DOMAIN ring : to \notin {ring[i], "drop"} => \E j \in 1..(i - 1) : ring[j] = to
      BY <3>1, EpTargetIs
    <3>4. \A i \in DOMAIN ring : \A j \in 1..(i - 1) : j \in DOMAIN ring
      <4>1. DOMAIN ring = 1..Len(ring) /\ Len(ring) \in Nat
        BY <3>1
      <4>2. QED
        BY <4>1
    <3> HIDE DEF ring, to
    <3>5. DOMAIN epGot' = DOMAIN ring /\ \A i \in DOMAIN ring : epGot'[i][1] = ring[i] /\ epGot'[i][2] = to
      BY <3>2
    <3>6. QED
      BY <3>3, <3>4, <3>5 DEF EpRightDevice
  <2>2. CASE ~(turn /\ epRing[c] # << >>)
    <3>1. epGot' = << >>
      BY <1>3, <2>2
    <3>2. QED
      BY <3>1 DEF EpRightDevice
  <2>3. QED
    BY <2>1, <2>2
<1>18. QED
  BY <1>7, <1>15, <1>16, <1>17 DEF EpInv

LEMMA EpErrHandlerKeeps == ASSUME EpInv, NEW q \in EpQ, EpErrHandler(q) PROVE EpInv'
<1> DEFINE c == EpChanNum[q]
<1>1. /\ epTasklet' = epTasklet \ {q} /\ epRun' = {c} /\ epRing' = [epRing EXCEPT ![c] = << >>]
      /\ epPend' = [e \in EpChan |-> {}]
      /\ epOn' = [e \in EpChan |-> IF e = c THEN {"ioc", "err"} ELSE {}]
  BY DEF EpErrHandler
<1>2. UNCHANGED EpDevVars /\ epSched' = epSched /\ epGot' = << >>
  BY DEF EpErrHandler, EpQuiet
<1>3. EpDevTypes' /\ EpAsks'
  BY <1>2, EpDevSame
<1>4. UNCHANGED <<epOnly, epNapiOn>>
  BY <1>2 DEF EpDevVars
<1>5. \A e : EpMeant(e)' = EpMeant(e)
  BY <1>4 DEF EpMeant, EpKind, EpDevs, EpOwner
<1>6. c \in EpChan
  BY EpConsts
<1>7. DOMAIN epRing = EpChan /\ \A e \in EpChan : epRing[e] \in Seq(EpMeant(e))
  BY DEF EpInv, EpChanTypes
<1> HIDE DEF c
<1>8. DOMAIN epRing' = EpChan /\ epRing'[c] = << >> /\ \A e \in EpChan : e # c => epRing'[e] = epRing[e]
  BY <1>1, <1>6, <1>7
<1>9. EpChanTypes'
  <2>1. \A S : << >> \in Seq(S)
    OBVIOUS
  <2>2. \A e \in EpChan : epRing'[e] \in Seq(EpMeant(e)')
    BY <1>5, <1>7, <1>8, <2>1
  <2>3. epPend' \in [EpChan -> SUBSET {"ioc", "err"}]
    BY <1>1
  <2>4. epOn' \in [EpChan -> SUBSET {"ioc", "err"}]
    BY <1>1
  <2>5. QED
    BY <1>1, <1>2, <1>6, <1>8, <2>2, <2>3, <2>4 DEF EpInv, EpChanTypes
<1>10. EpAlive'
  <2>1. "ioc" \in epOn'[c]
    BY <1>1, <1>6
  <2>2. QED
    BY <1>1, <1>8, <2>1 DEF EpAlive
<1>11. EpRightDevice'
  BY <1>2 DEF EpRightDevice
<1>12. QED
  BY <1>3, <1>9, <1>10, <1>11 DEF EpInv

LEMMA EpStep == EpInv /\ [EpNext]_epVars => EpInv'
<1> SUFFICES ASSUME EpInv, [EpNext]_epVars PROVE EpInv'
  OBVIOUS
<1>1. CASE EpProbe \/ EpProbeEx \/ EpRemoveEx \/ EpToggleEx
  BY <1>1, EpRegKeeps
<1>2. CASE EpStop
  BY <1>2, EpStopKeeps
<1>3. CASE EpRxIrq
  BY <1>3, EpRxIrqKeeps
<1>4. ASSUME NEW d \in EpDevs \ {"ep", "ex"}, EpProbePort(d) \/ EpOpenPortNoIrq(d) \/ EpStopPort(d) PROVE EpInv'
  <2>1. CASE EpProbePort(d)
    BY <2>1, EpRegKeeps
  <2>2. CASE EpOpenPortNoIrq(d)
    BY <2>2, EpSameKeeps DEF EpOpenPortNoIrq
  <2>3. CASE EpStopPort(d)
    BY <2>3, EpStopPortKeeps
  <2>4. QED
    BY <1>4, <2>1, <2>2, <2>3
<1>5. ASSUME NEW f \in EpFails, EpOpen(f) \/ \E d \in EpDevs \ {"ep", "ex"} : EpOpenPort(d, f) PROVE EpInv'
  BY <1>5, EpOpenKeeps, EpOpenPortKeeps
<1>6. ASSUME NEW c \in EpBusy, EpError(c) \/ \E to \in EpDevs : EpReceive(c, to) PROVE EpInv'
  BY <1>6, EpErrorKeeps, EpReceiveKeeps
<1>7. ASSUME NEW q \in EpQ, EpPoll(q) \/ EpErrHandler(q) PROVE EpInv'
  BY <1>7, EpPollKeeps, EpErrHandlerKeeps
<1>8. CASE UNCHANGED epVars
  BY <1>8, EpSameKeeps
<1>9. QED
  BY <1>1, <1>2, <1>3, <1>4, <1>5, <1>6, <1>7, <1>8 DEF EpNext

----------------------------------------------------------------------------
(* The gate schedules of Qbv (TsnConf).                                     *)

\* A list of a user in the registers
QbImage(list) == [i \in DOMAIN list |-> [gates |-> QbMap(list[i].state), ticks |-> QbTicksOf(list[i].time)]]
QbUserLists == Seq([state : SUBSET QbGates, time : Nat])

QbInv ==
  /\ qbAsked \in QbUserLists /\ qbEnabled \in BOOLEAN
  /\ ~qbEnabled => qbAsked = << >>
  /\ qbEnabled => qbAdmin = QbImage(qbAsked)
  /\ qbEnabled /\ ~qbPending => qbOper = qbAdmin

LEMMA ElementIs == ASSUME NEW S, NEW s \in Seq(S), NEW i \in DOMAIN s PROVE s[i] \in S
OBVIOUS

LEMMA QbEmptyList == << >> \in QbUserLists
BY DEF QbUserLists

LEMMA QbStarts == QbInit => QbInv
<1>1. QbInit => qbEnabled = FALSE /\ qbAsked = << >>
  BY DEF QbInit, QbNone
<1>2. QED
  BY <1>1, QbEmptyList DEF QbInv

LEMMA QbStep == QbInv /\ [QbNext]_qbVars => QbInv'
<1> SUFFICES ASSUME QbInv, [QbNext]_qbVars PROVE QbInv'
  OBVIOUS
<1>1. CASE QbTakeOver
  BY <1>1 DEF QbTakeOver, QbInv, QbImage, QbMap, QbTicksOf
<1>2. ASSUME NEW cycle \in 0 .. 1, NEW list \in QbLists, NEW force \in BOOLEAN, QbSched(cycle, list, force) PROVE QbInv'
  <2>1. CASE UNCHANGED <<qbAdmin, qbOper, qbEnabled, qbPending, qbAsked>>
    BY <2>1 DEF QbInv, QbImage, QbMap, QbTicksOf
  <2>2. CASE QbSetSchedule(cycle, list, force)
    <3>1. list \in QbUserLists
      BY QbAssumption DEF QbUserLists
    <3>2. CASE qbEnabled' = FALSE /\ qbAsked' = QbNone
      <4>1. qbEnabled' = FALSE /\ qbAsked' = << >>
        BY <3>2 DEF QbNone
      <4>2. QED
        BY <4>1, QbEmptyList DEF QbInv
    <3>3. CASE UNCHANGED <<qbAdmin, qbOper, qbEnabled, qbPending, qbAsked>>
      BY <2>1, <3>3
    <3>4. CASE /\ qbAdmin' = QbImage(list) /\ qbEnabled' = TRUE /\ qbPending' = TRUE /\ qbAsked' = list
      <4>1. QbImage(qbAsked)' = QbImage(list)
        BY <3>4 DEF QbImage, QbMap, QbTicksOf
      <4>2. QED
        BY <3>1, <3>4, <4>1 DEF QbInv
    <3>5. QED
      BY <2>2, <3>2, <3>3, <3>4 DEF QbSetSchedule, QbImage
  <2>3. QED
    BY <1>2, <2>1, <2>2 DEF QbSched
<1>3. CASE UNCHANGED qbVars
  BY <1>3 DEF qbVars, QbInv, QbImage, QbMap, QbTicksOf
<1>4. QED
  BY <1>1, <1>2, <1>3 DEF QbNext

\* A time that has room in the register is the time that was asked for but for the part of a tick.
LEMMA QbTimeKept == ASSUME NEW t \in Nat PROVE QbRounded(QbTicksOf(t) * QbTick, t)
<1> DEFINE q == t \div QbTick
<1>1. QbTick \in Nat \ {0} /\ QbTicks \in Nat \ {0}
  BY QbAssumption
<1>2. q \in Nat /\ (q * QbTick) <= t /\ t < (q * QbTick) + QbTick
  BY <1>1, Z3
<1>3. QbTicksOf(t) = (q % QbTicks)
  BY DEF QbTicksOf
<1> HIDE DEF q
<1>4. ASSUME t < QbTick * QbTicks PROVE q < QbTicks
  <2> SUFFICES ASSUME q >= QbTicks PROVE FALSE
    BY <1>1, <1>2
  <2>1. PICK d \in Nat : q = QbTicks + d
    <3>1. q - QbTicks \in Nat /\ q = QbTicks + (q - QbTicks)
      BY <1>1, <1>2
    <3>2. QED
      BY <3>1
  <2>2. (q * QbTick) = (QbTick * QbTicks) + (d * QbTick) /\ (d * QbTick) \in Nat
    BY <1>1, <2>1
  <2>3. (QbTick * QbTicks) \in Nat /\ (q * QbTick) \in Nat
    BY <1>1, <1>2
  <2>4. QED
    BY <1>2, <1>4, <2>2, <2>3
<1>5. ASSUME q < QbTicks PROVE (q % QbTicks) = q
  BY <1>1, <1>2, <1>5
<1>6. QED
  BY <1>2, <1>3, <1>4, <1>5 DEF QbRounded, QbFits

\* What the user sees of gates that were set
LEMMA QbThereAndBack == ASSUME NEW gs \in SUBSET QbGates PROVE QbUnmap(QbMap(gs)) = QbSeen(gs)
<1>1. gs \subseteq {"BE", "RE", "ST"}
  BY DEF QbGates
<1>2. CASE QbTc = 2
  <2>1. QbMap(gs) = (IF "BE" \in gs THEN {0} ELSE {}) \cup (IF "ST" \in gs THEN {1} ELSE {})
    BY <1>2 DEF QbMap
  <2>2. /\ 0 \in QbMap(gs) <=> "BE" \in gs
        /\ 1 \in QbMap(gs) <=> "ST" \in gs
        /\ 2 \notin QbMap(gs)
    BY <2>1
  <2>3. QbMap(gs) = {1} <=> "ST" \in gs /\ "BE" \notin gs
    <3>1. ASSUME QbMap(gs) = {1} PROVE "ST" \in gs /\ "BE" \notin gs
      <4>1. 0 \notin QbMap(gs) /\ 1 \in QbMap(gs)
        BY <3>1
      <4>2. QED
        BY <2>2, <4>1
    <3>2. ASSUME "ST" \in gs, "BE" \notin gs PROVE QbMap(gs) = {1}
      BY <2>1, <3>2
    <3>3. QED
      BY <3>1, <3>2
  <2>4. QbSeen(gs) = IF "BE" \in gs /\ "ST" \in gs THEN {"BE", "RE"} ELSE gs \ {"RE"}
    BY <1>2 DEF QbSeen
  <2>5. CASE QbMap(gs) = {1}
    <3>1. QbUnmap(QbMap(gs)) = {"ST"}
      BY <1>2, <2>5 DEF QbUnmap
    <3>2. gs \ {"RE"} = {"ST"}
      BY <1>1, <2>3, <2>5
    <3>3. QED
      BY <2>3, <2>4, <2>5, <3>1, <3>2
  <2>6. CASE QbMap(gs) # {1}
    <3>1. QbUnmap(QbMap(gs)) = {g \in QbGates : CASE g = "BE" -> 0 \in QbMap(gs) [] g = "RE" -> 1 \in QbMap(gs) [] g = "ST" -> 2 \in QbMap(gs)}
      BY <2>6 DEF QbUnmap
    <3>2. QbUnmap(QbMap(gs)) = (IF "BE" \in gs THEN {"BE"} ELSE {}) \cup (IF "ST" \in gs THEN {"RE"} ELSE {})
      BY <2>2, <3>1 DEF QbGates
    <3>3. ~("ST" \in gs /\ "BE" \notin gs)
      BY <2>3, <2>6
    <3>4. CASE "BE" \in gs /\ "ST" \in gs
      <4>1. QbUnmap(QbMap(gs)) = {"BE"} \cup {"RE"}
        BY <3>2, <3>4
      <4>2. QED
        BY <2>4, <3>4, <4>1
    <3>5. CASE "ST" \notin gs
      <4>1. gs \ {"RE"} = IF "BE" \in gs THEN {"BE"} ELSE {}
        BY <1>1, <3>5
      <4>2. QbUnmap(QbMap(gs)) = IF "BE" \in gs THEN {"BE"} ELSE {}
        BY <3>2, <3>5
      <4>3. QED
        BY <2>4, <3>5, <4>1, <4>2
    <3>6. QED
      BY <3>3, <3>4, <3>5
  <2>7. QED
    BY <2>5, <2>6
<1>3. CASE QbTc = 3
  <2>1. QbMap(gs) = (IF "BE" \in gs THEN {0} ELSE {}) \cup (IF "ST" \in gs THEN {2} ELSE {}) \cup (IF "RE" \in gs THEN {1} ELSE {})
    BY <1>3 DEF QbMap
  <2>2. /\ 0 \in QbMap(gs) <=> "BE" \in gs
        /\ 1 \in QbMap(gs) <=> "RE" \in gs
        /\ 2 \in QbMap(gs) <=> "ST" \in gs
    BY <2>1
  <2>3. QbUnmap(QbMap(gs)) = {g \in QbGates : CASE g = "BE" -> 0 \in QbMap(gs) [] g = "RE" -> 1 \in QbMap(gs) [] g = "ST" -> 2 \in QbMap(gs)}
    BY <1>3 DEF QbUnmap
  <2>4. QbUnmap(QbMap(gs)) = gs
    BY <1>1, <2>2, <2>3 DEF QbGates
  <2>5. QED
    BY <1>3, <2>4 DEF QbSeen
<1>4. QED
  BY <1>2, <1>3, QbAssumption

LEMMA QbInvMeans == QbInv => QbServes /\ QbReads
<1> SUFFICES ASSUME QbInv PROVE QbServes /\ QbReads
  OBVIOUS
<1>1. /\ qbAsked \in Seq([state : SUBSET QbGates, time : Nat]) /\ DOMAIN qbAsked = 1 .. Len(qbAsked) /\ Len(qbAsked) \in Nat
  BY DEF QbInv, QbUserLists
<1>2. \A i \in DOMAIN qbAsked : qbAsked[i] \in [state : SUBSET QbGates, time : Nat]
  BY <1>1, ElementIs
<1>3. qbEnabled /\ ~qbPending => qbOper = QbImage(qbAsked)
  BY DEF QbInv
<1>4. ASSUME qbEnabled, ~qbPending
      PROVE  /\ DOMAIN qbOper = 1 .. Len(qbAsked) /\ Len(qbOper) = Len(qbAsked)
             /\ \A i \in DOMAIN qbAsked : /\ qbOper[i].gates = QbMap(qbAsked[i].state)
                                          /\ QbRounded(qbOper[i].ticks * QbTick, qbAsked[i].time)
  <2>1. DOMAIN qbOper = 1 .. Len(qbAsked)
        /\ \A i \in DOMAIN qbAsked : qbOper[i] = [gates |-> QbMap(qbAsked[i].state), ticks |-> QbTicksOf(qbAsked[i].time)]
    BY <1>1, <1>3, <1>4 DEF QbImage
  <2>2. Len(qbOper) = Len(qbAsked)
    <3>1. qbOper = [i \in 1 .. Len(qbAsked) |-> qbOper[i]]
      BY <1>1, <1>3, <1>4, <2>1 DEF QbImage
    <3>2. QED
      BY <1>1, <3>1
  <2>3. ASSUME NEW i \in DOMAIN qbAsked PROVE QbRounded(qbOper[i].ticks * QbTick, qbAsked[i].time)
    <3>1. qbAsked[i].time \in Nat
      BY <1>2
    <3>2. QbRounded(QbTicksOf(qbAsked[i].time) * QbTick, qbAsked[i].time)
      BY <3>1, QbTimeKept
    <3>3. PICK n : n = QbTicksOf(qbAsked[i].time)
      OBVIOUS
    <3>4. qbOper[i] = [gates |-> QbMap(qbAsked[i].state), ticks |-> n]
      BY <2>1, <3>3
    <3>5. qbOper[i].ticks = n
      BY <3>4
    <3>6. QED
      BY <3>2, <3>3, <3>5
  <2>4. ASSUME NEW i \in DOMAIN qbAsked PROVE qbOper[i].gates = QbMap(qbAsked[i].state)
    <3>1. PICK n : n = QbTicksOf(qbAsked[i].time)
      OBVIOUS
    <3>2. qbOper[i] = [gates |-> QbMap(qbAsked[i].state), ticks |-> n]
      BY <2>1, <3>1
    <3>3. QED
      BY <3>2
  <2>5. QED
    BY <2>1, <2>2, <2>3, <2>4
<1>5. QbServes
  <2> SUFFICES ASSUME qbEnabled, ~qbPending
               PROVE  \A i \in DOMAIN qbAsked : \A g \in (IF QbTc = 3 THEN QbGates ELSE {"BE", "ST"}) :
                        g \in qbAsked[i].state <=> QbQueueOf(g) \in qbOper[i].gates
    BY <1>4 DEF QbServes
  <2>1. \A gs : \A g \in (IF QbTc = 3 THEN QbGates ELSE {"BE", "ST"}) : g \in gs <=> QbQueueOf(g) \in QbMap(gs)
    <3> SUFFICES ASSUME NEW gs, NEW g \in (IF QbTc = 3 THEN QbGates ELSE {"BE", "ST"}) PROVE g \in gs <=> QbQueueOf(g) \in QbMap(gs)
      OBVIOUS
    <3>1. CASE QbTc = 2
      <4>1. QbMap(gs) = (IF "BE" \in gs THEN {0} ELSE {}) \cup (IF "ST" \in gs THEN {1} ELSE {})
        BY <3>1 DEF QbMap
      <4>2. QbQueueOf("BE") = 0 /\ QbQueueOf("ST") = 1 /\ g \in {"BE", "ST"}
        BY <3>1 DEF QbQueueOf
      <4>3. QED
        BY <4>1, <4>2
    <3>2. CASE QbTc = 3
      <4>1. QbMap(gs) = (IF "BE" \in gs THEN {0} ELSE {}) \cup (IF "ST" \in gs THEN {2} ELSE {}) \cup (IF "RE" \in gs THEN {1} ELSE {})
        BY <3>2 DEF QbMap
      <4>2. QbQueueOf("BE") = 0 /\ QbQueueOf("RE") = 1 /\ QbQueueOf("ST") = 2 /\ g \in {"BE", "RE", "ST"}
        BY <3>2 DEF QbQueueOf, QbGates
      <4>3. QED
        BY <4>1, <4>2
    <3>3. QED
      BY <3>1, <3>2, QbAssumption
  <2>2. QED
    BY <1>4, <2>1
<1>6. QbReads
  <2> SUFFICES ASSUME ~qbPending
               PROVE  /\ Len(QbGetSchedule) = Len(qbAsked)
                      /\ \A i \in DOMAIN qbAsked : /\ QbGetSchedule[i].state = QbSeen(qbAsked[i].state)
                                                   /\ QbRounded(QbGetSchedule[i].time, qbAsked[i].time)
    BY DEF QbReads
  <2>1. CASE ~qbEnabled
    <3>1. QbGetSchedule = << >> /\ qbAsked = << >>
      BY <2>1 DEF QbGetSchedule, QbInv, QbNone
    <3>2. DOMAIN qbAsked = {}
      BY <3>1
    <3>3. QED
      BY <3>1, <3>2
  <2>2. CASE qbEnabled
    <3>1. QbGetSchedule = [i \in 1 .. Len(qbAsked) |-> [state |-> QbUnmap(qbOper[i].gates), time |-> qbOper[i].ticks * QbTick]]
      BY <1>4, <2>2 DEF QbGetSchedule
    <3>2. Len(QbGetSchedule) = Len(qbAsked)
      BY <1>1, <3>1
    <3>3. ASSUME NEW i \in DOMAIN qbAsked
          PROVE  /\ QbGetSchedule[i].state = QbSeen(qbAsked[i].state)
                 /\ QbRounded(QbGetSchedule[i].time, qbAsked[i].time)
      <4>1. QbGetSchedule[i].state = QbUnmap(qbOper[i].gates) /\ QbGetSchedule[i].time = qbOper[i].ticks * QbTick
        BY <1>1, <3>1
      <4>2. qbOper[i].gates = QbMap(qbAsked[i].state) /\ QbRounded(qbOper[i].ticks * QbTick, qbAsked[i].time)
        BY <1>4, <2>2
      <4>3. qbAsked[i].state \in SUBSET QbGates
        BY <1>2
      <4>4. QbUnmap(QbMap(qbAsked[i].state)) = QbSeen(qbAsked[i].state)
        BY <4>3, QbThereAndBack
      <4>5. QED
        BY <4>1, <4>2, <4>4
    <3>4. QED
      BY <3>2, <3>3
  <2>3. QED
    BY <2>1, <2>2
<1>7. QED
  BY <1>5, <1>6

----------------------------------------------------------------------------
(* The VLAN table of the switch (TsnSwitch).                                *)

SwEntries == [ports : SUBSET (SwPorts \cup {"ex"}), noLearn : BOOLEAN]
SwCalls == [op : {"none", "add", "del", "learn", "unlearn"}, port : SwPorts \cup {"ep"}, v : Nat, hi : Nat,
            native : Nat, pc : {"idle", "next", "load", "fetch", "take", "put", "store"}, data : SwEntries,
            at : Nat, sound : BOOLEAN]

SwTypes ==
  /\ swTable \in [SwVlans -> SwEntries] /\ swAsked \in [SwVlans -> SUBSET (SwPorts \cup {"ex"})]
  /\ swData \in SwEntries /\ swCtrl \in SwVlans
  /\ swCall \in [SwCallers -> SwCalls] /\ swNative \in [SwPorts \ {"ex"} -> Nat]

\* A call is about VLANs of the table, and only calls about learning take their VLAN from a register.
SwGoes(c) ==
  /\ c.pc # "idle" => /\ c.v \in SwVlans /\ c.hi \in SwVlans /\ c.v <= c.hi /\ c.at \in SwVlans
                      /\ c.port \in SwPorts \cup {"ep"} /\ c.op # "none"
  /\ c.op \in {"add", "del"} => c.at = c.v
  /\ c.op \in {"learn", "unlearn"} => c.v = c.hi
  /\ c.pc \in {"next", "load"} => c.op \in {"add", "del"} /\ c.port \in SwPorts
  /\ c.op \in {"add", "del"} => c.port \in SwPorts
  /\ c.pc \in {"fetch", "take"} => c.op \in {"learn", "unlearn"}

\* What a sound call finds in the registers, or has taken from them
SwHolds(c, table, data, ctrl) ==
  /\ c.pc = "load" => c.data = table[c.v]
  /\ c.pc = "fetch" => ctrl = c.v /\ data = table[c.v]
  /\ c.pc = "take" => c.at = c.v /\ data = table[c.v]
  /\ c.pc = "put" => c.at = c.v /\ c.data.ports = table[c.v].ports
  /\ c.pc = "store" => c.at = c.v /\ data.ports \ {"ex"} = SwPortsFor(c, table[c.v].ports) \ {"ex"}

SwInside(c) == c.sound /\ c.pc \notin {"idle", "next"}
SwSound == \A a \in SwCallers : SwInside(swCall[a]) => SwAlone(a) /\ SwHolds(swCall[a], swTable, swData, swCtrl)

\* But for an entry about to be stored, the data register holds the VLAN of the control register.
SwClean == (\A a \in SwCallers : swCall[a].pc # "store") => swData = swTable[swCtrl]

SwInv == SwTypes /\ (\A a \in SwCallers : SwGoes(swCall[a])) /\ SwSound /\ SwClean /\ SwMembers

LEMMA SwIdleIs == /\ SwIdle \in SwCalls /\ SwGoes(SwIdle) /\ SwIdle.pc = "idle" /\ ~SwIdle.sound
                  /\ SwEmpty \in SwEntries
<1>1. SwEmpty \in SwEntries
  BY DEF SwEmpty, SwEntries
<1>2. SwIdle \in SwCalls
  BY <1>1 DEF SwIdle, SwCallOf, SwCalls
<1>3. SwGoes(SwIdle) /\ SwIdle.pc = "idle" /\ ~SwIdle.sound
  BY DEF SwIdle, SwCallOf, SwGoes
<1>4. QED
  BY <1>1, <1>2, <1>3

LEMMA SwStarts == SwInit => SwInv
<1> SUFFICES ASSUME SwInit PROVE SwInv
  OBVIOUS
<1>1. SwTypes
  BY SwIdleIs DEF SwInit, SwTypes
<1>2. \A a \in SwCallers : swCall[a] = SwIdle
  BY DEF SwInit
<1>3. SwSound /\ SwClean
  <2>1. SwSound
    BY <1>2, SwIdleIs DEF SwSound, SwInside
  <2>2. swData = swTable[swCtrl]
    BY DEF SwInit
  <2>3. QED
    BY <2>1, <2>2 DEF SwClean
<1>4. SwMembers
  BY DEF SwInit, SwMembers, SwEmpty
<1>5. QED
  BY <1>1, <1>2, <1>3, <1>4, SwIdleIs DEF SwInv

\* A step of a caller that the others notice: none of their calls is sound any more.
LEMMA SwMeetKeeps ==
  ASSUME SwInv, NEW a \in SwCallers, NEW c \in SwCalls, SwGoes(c), SwMeet(a, c),
         swTable' \in [SwVlans -> SwEntries], swAsked' \in [SwVlans -> SUBSET (SwPorts \cup {"ex"})],
         swData' \in SwEntries, swCtrl' \in SwVlans, swNative' \in [SwPorts \ {"ex"} -> Nat],
         SwInside(c) => SwAlone(a) /\ SwHolds(c, swTable', swData', swCtrl'),
         c.pc # "store" /\ swData' # swTable'[swCtrl'] => \E b \in SwCallers \ {a} : swCall[b].pc = "store",
         SwMembers'
  PROVE  SwInv'
<1>1. swCall \in [SwCallers -> SwCalls]
  BY DEF SwInv, SwTypes
<1>2. ASSUME NEW b \in SwCallers, b # a
      PROVE  /\ swCall'[b] = [swCall[b] EXCEPT !.sound = FALSE] /\ swCall'[b] \in SwCalls
             /\ ~swCall'[b].sound /\ swCall'[b].pc = swCall[b].pc /\ SwGoes(swCall'[b])
  <2>1. swCall'[b] = [swCall[b] EXCEPT !.sound = FALSE] /\ swCall[b] \in SwCalls
    BY <1>1, <1>2 DEF SwMeet
  <2>2. /\ swCall'[b] \in SwCalls /\ ~swCall'[b].sound /\ swCall'[b].pc = swCall[b].pc /\ swCall'[b].v = swCall[b].v
        /\ swCall'[b].hi = swCall[b].hi /\ swCall'[b].at = swCall[b].at /\ swCall'[b].op = swCall[b].op
        /\ swCall'[b].port = swCall[b].port
    BY <2>1 DEF SwCalls
  <2>3. SwGoes(swCall[b])
    BY DEF SwInv
  <2>4. SwGoes(swCall'[b])
    BY <2>2, <2>3 DEF SwGoes
  <2>5. QED
    BY <2>1, <2>2, <2>4
<1>3. swCall'[a] = c /\ swCall' = [b \in SwCallers |-> swCall'[b]]
  BY DEF SwMeet
<1>4. swCall' \in [SwCallers -> SwCalls]
  BY <1>2, <1>3
<1>5. SwTypes'
  BY <1>4 DEF SwTypes
<1>6. \A b \in SwCallers : SwGoes(swCall'[b])
  BY <1>2, <1>3
<1>7. SwSound'
  <2> SUFFICES ASSUME NEW b \in SwCallers, SwInside(swCall'[b])
               PROVE  SwAlone(b)' /\ SwHolds(swCall'[b], swTable', swData', swCtrl')
    BY DEF SwSound
  <2>1. b = a
    BY <1>2 DEF SwInside
  <2>2. SwAlone(a) /\ SwHolds(c, swTable', swData', swCtrl')
    BY <1>3, <2>1
  <2>3. SwAlone(a)'
    BY <1>2, <2>2 DEF SwAlone, SwOut
  <2>4. QED
    BY <1>3, <2>1, <2>2, <2>3
<1>8. SwClean'
  BY <1>2, <1>3 DEF SwClean
<1>9. QED
  BY <1>5, <1>6, <1>7, <1>8 DEF SwInv

\* A step of a caller inside a call, or one that leaves the registers alone
LEMMA SwGoOnKeeps ==
  ASSUME SwInv, NEW a \in SwCallers, NEW c \in SwCalls, SwGoes(c), SwGoOn(a, c),
         swTable' \in [SwVlans -> SwEntries], swAsked' \in [SwVlans -> SUBSET (SwPorts \cup {"ex"})],
         swData' \in SwEntries, swCtrl' \in SwVlans, swNative' \in [SwPorts \ {"ex"} -> Nat],
         SwInside(c) => SwAlone(a) /\ SwHolds(c, swTable', swData', swCtrl'),
         SwOut(a) => c.pc \in {"idle", "next"} /\ UNCHANGED swRegs,
         c.pc # "store" /\ swData' # swTable'[swCtrl'] => \E b \in SwCallers \ {a} : swCall[b].pc = "store",
         SwMembers'
  PROVE  SwInv'
<1>1. swCall \in [SwCallers -> SwCalls]
  BY DEF SwInv, SwTypes
<1>2. swCall' = [swCall EXCEPT ![a] = c]
  BY DEF SwGoOn
<1>3. swCall'[a] = c /\ \A b \in SwCallers \ {a} : swCall'[b] = swCall[b]
  BY <1>1, <1>2
<1>4. swCall' \in [SwCallers -> SwCalls]
  BY <1>1, <1>2
<1>5. SwTypes'
  BY <1>4 DEF SwTypes
<1>6. \A b \in SwCallers : SwGoes(swCall'[b])
  BY <1>3 DEF SwInv
<1>7. SwSound'
  <2> SUFFICES ASSUME NEW b \in SwCallers, SwInside(swCall'[b])
               PROVE  SwAlone(b)' /\ SwHolds(swCall'[b], swTable', swData', swCtrl')
    BY DEF SwSound
  <2>1. CASE b = a
    <3>1. SwAlone(a)
      BY <1>3, <2>1
    <3>2. SwAlone(a)'
      BY <1>3, <3>1 DEF SwAlone, SwOut
    <3>3. QED
      BY <1>3, <2>1, <3>2
  <2>2. CASE b # a
    <3>1. SwAlone(b) /\ SwHolds(swCall[b], swTable, swData, swCtrl)
      BY <1>3, <2>2 DEF SwInv, SwSound
    <3>2. SwOut(a)
      BY <2>2, <3>1 DEF SwAlone
    <3>3. c.pc \in {"idle", "next"} /\ swTable' = swTable /\ swData' = swData /\ swCtrl' = swCtrl
      BY <3>2 DEF swRegs
    <3>4. SwAlone(b)'
      BY <1>3, <3>1, <3>3 DEF SwAlone, SwOut
    <3>5. QED
      BY <1>3, <2>2, <3>1, <3>3, <3>4
  <2>3. QED
    BY <2>1, <2>2
<1>8. SwClean'
  BY <1>3 DEF SwClean
<1>9. QED
  BY <1>5, <1>6, <1>7, <1>8 DEF SwInv

\* When no other call is under way, and none of its own, a caller finds a VLAN as it is.
LEMMA SwFinds == ASSUME SwInv, NEW a \in SwCallers, SwOut(a), SwAlone(a) PROVE swData = swTable[swCtrl]
<1>1. \A b \in SwCallers : SwOut(b)
  BY DEF SwAlone
<1>2. \A b \in SwCallers : swCall[b].pc # "store"
  BY <1>1 DEF SwOut
<1>3. QED
  BY <1>2 DEF SwInv, SwClean

LEMMA SwVlanAddKeeps ==
  ASSUME SwInv, NEW a \in SwCallers, SwOut(a), NEW c \in SwCalls, SwGoes(c), c.pc = "next",
         SwVlanAdd(a, c), UNCHANGED <<swRegs, swHistory, swNative>>
  PROVE  SwInv'
<1>1. PICK s \in BOOLEAN : s <=> SwAlone(a) /\ swCtrl = c.v
  OBVIOUS
<1>2. (SwAlone(a) /\ swCtrl = c.v) = s
  BY <1>1 DEF SwAlone
<1>3. PICK n : n = [c EXCEPT !.pc = "load", !.data = swData, !.sound = s]
  OBVIOUS
<1>4. SwMeet(a, n)
  BY <1>2, <1>3 DEF SwVlanAdd
<1>5. /\ swTable \in [SwVlans -> SwEntries] /\ swAsked \in [SwVlans -> SUBSET (SwPorts \cup {"ex"})]
      /\ swData \in SwEntries /\ swCtrl \in SwVlans /\ swNative \in [SwPorts \ {"ex"} -> Nat]
  BY DEF SwInv, SwTypes
<1>6. /\ n \in SwCalls /\ n.pc = "load" /\ n.data = swData /\ n.v = c.v /\ n.hi = c.hi /\ n.at = c.at
      /\ n.op = c.op /\ n.port = c.port
  BY <1>3, <1>5 DEF SwCalls
<1>7. n.sound <=> s
  BY <1>1, <1>3 DEF SwCalls
<1>8. SwGoes(n)
  BY <1>6 DEF SwGoes
<1>9. swTable' = swTable /\ swData' = swData /\ swCtrl' = swCtrl /\ swAsked' = swAsked /\ swLost' = swLost /\ swNative' = swNative
  BY DEF swRegs, swHistory
<1>10. SwInside(n) => SwAlone(a) /\ SwHolds(n, swTable', swData', swCtrl')
  BY <1>1, <1>6, <1>7, <1>9, SwFinds DEF SwInside, SwHolds
<1>11. swData # swTable[swCtrl] => \E b \in SwCallers \ {a} : swCall[b].pc = "store"
  BY DEF SwInv, SwClean, SwOut
<1>12. SwMembers'
  BY <1>9 DEF SwInv, SwMembers
<1>13. QED
  BY <1>4, <1>5, <1>6, <1>8, <1>9, <1>10, <1>11, <1>12, SwMeetKeeps

LEMMA SwLoadVlanKeeps == ASSUME SwInv, NEW a \in SwCallers, SwLoadVlan(a) PROVE SwInv'
<1> DEFINE c == swCall[a]
<1>1. c \in SwCalls /\ c.pc = "load" /\ SwGoes(c) /\ c.v \in SwVlans
  BY DEF SwLoadVlan, SwInv, SwTypes, SwGoes
<1>2. PICK n : n = [c EXCEPT !.pc = "put"]
  OBVIOUS
<1>3. /\ SwGoOn(a, n) /\ swTable' = swTable /\ swData' = swTable[c.v] /\ swCtrl' = c.v
      /\ swAsked' = swAsked /\ swLost' = swLost /\ swNative' = swNative
  BY <1>2 DEF SwLoadVlan, SwLoad, swHistory
<1>4. SwInside(c) => SwAlone(a) /\ c.data = swTable[c.v]
  BY <1>1 DEF SwInv, SwSound, SwHolds
<1>5. ~SwOut(a)
  BY <1>1 DEF SwOut
<1> HIDE DEF c
<1>6. /\ n \in SwCalls /\ n.pc = "put" /\ n.data = c.data /\ n.v = c.v /\ n.hi = c.hi /\ n.at = c.at
      /\ n.op = c.op /\ n.port = c.port
  BY <1>1, <1>2 DEF SwCalls
<1>7. n.sound <=> c.sound
  BY <1>1, <1>2 DEF SwCalls
<1>8. SwGoes(n) /\ n.at = n.v
  BY <1>1, <1>6 DEF SwGoes
<1>9. /\ swTable \in [SwVlans -> SwEntries] /\ swAsked \in [SwVlans -> SUBSET (SwPorts \cup {"ex"})]
      /\ swTable[c.v] \in SwEntries /\ swNative \in [SwPorts \ {"ex"} -> Nat]
  BY <1>1 DEF SwInv, SwTypes
<1>10. SwInside(n) => SwAlone(a) /\ SwHolds(n, swTable', swData', swCtrl')
  BY <1>1, <1>3, <1>4, <1>6, <1>7, <1>8 DEF SwInside, SwHolds
<1>11. SwMembers'
  BY <1>3 DEF SwInv, SwMembers
<1>12. QED
  BY <1>1, <1>3, <1>5, <1>6, <1>8, <1>9, <1>10, <1>11, SwGoOnKeeps

\* The registers stay as they are.
LEMMA SwQuietKeeps ==
  ASSUME SwInv, NEW a \in SwCallers, ~SwOut(a), NEW n \in SwCalls, SwGoes(n), SwGoOn(a, n), n.pc # "store",
         swCall[a].pc # "store", UNCHANGED <<swRegs, swHistory, swNative>>,
         SwInside(n) => SwAlone(a) /\ SwHolds(n, swTable, swData, swCtrl)
  PROVE  SwInv'
<1>1. swTable' = swTable /\ swData' = swData /\ swCtrl' = swCtrl /\ swAsked' = swAsked /\ swLost' = swLost /\ swNative' = swNative
  BY DEF swRegs, swHistory
<1>2. /\ swTable \in [SwVlans -> SwEntries] /\ swAsked \in [SwVlans -> SUBSET (SwPorts \cup {"ex"})]
      /\ swData \in SwEntries /\ swCtrl \in SwVlans /\ swNative \in [SwPorts \ {"ex"} -> Nat]
  BY DEF SwInv, SwTypes
<1>3. swData # swTable[swCtrl] => \E b \in SwCallers \ {a} : swCall[b].pc = "store"
  BY DEF SwInv, SwClean
<1>4. SwMembers'
  BY <1>1 DEF SwInv, SwMembers
<1>5. QED
  BY <1>1, <1>2, <1>3, <1>4, SwGoOnKeeps

LEMMA SwFetchKeeps == ASSUME SwInv, NEW a \in SwCallers, SwFetch(a) PROVE SwInv'
<1> DEFINE c == swCall[a]
<1>1. c \in SwCalls /\ c.pc = "fetch" /\ SwGoes(c) /\ swCtrl \in SwVlans /\ swCtrl \in Nat
  BY SwAssumption DEF SwFetch, SwInv, SwTypes
<1>2. PICK n : n = [c EXCEPT !.pc = "take", !.at = swCtrl]
  OBVIOUS
<1>3. SwGoOn(a, n) /\ UNCHANGED <<swRegs, swHistory, swNative>> /\ ~SwOut(a) /\ swCall[a].pc # "store"
  BY <1>1, <1>2 DEF SwFetch, SwOut
<1>4. SwInside(c) => SwAlone(a) /\ swCtrl = c.v /\ swData = swTable[c.v]
  BY <1>1 DEF SwInv, SwSound, SwHolds
<1> HIDE DEF c
<1>5. /\ n \in SwCalls /\ n.pc = "take" /\ n.v = c.v /\ n.hi = c.hi /\ n.at = swCtrl
      /\ n.op = c.op /\ n.port = c.port
  BY <1>1, <1>2 DEF SwCalls
<1>6. n.sound <=> c.sound
  BY <1>1, <1>2 DEF SwCalls
<1>7. SwGoes(n)
  BY <1>1, <1>5 DEF SwGoes
<1>8. SwInside(n) => SwAlone(a) /\ SwHolds(n, swTable, swData, swCtrl)
  BY <1>1, <1>4, <1>5, <1>6 DEF SwInside, SwHolds
<1>9. QED
  BY <1>3, <1>5, <1>7, <1>8, SwQuietKeeps

LEMMA SwTakeKeeps == ASSUME SwInv, NEW a \in SwCallers, SwTake(a) PROVE SwInv'
<1> DEFINE c == swCall[a]
<1>1. c \in SwCalls /\ c.pc = "take" /\ SwGoes(c) /\ swData \in SwEntries
  BY DEF SwTake, SwInv, SwTypes
<1>2. PICK n : n = [c EXCEPT !.pc = "put", !.data = swData]
  OBVIOUS
<1>3. SwGoOn(a, n) /\ UNCHANGED <<swRegs, swHistory, swNative>> /\ ~SwOut(a) /\ swCall[a].pc # "store"
  BY <1>1, <1>2 DEF SwTake, SwOut
<1>4. SwInside(c) => SwAlone(a) /\ c.at = c.v /\ swData = swTable[c.v]
  BY <1>1 DEF SwInv, SwSound, SwHolds
<1> HIDE DEF c
<1>5. /\ n \in SwCalls /\ n.pc = "put" /\ n.v = c.v /\ n.hi = c.hi /\ n.at = c.at
      /\ n.op = c.op /\ n.port = c.port /\ n.data = swData
  BY <1>1, <1>2 DEF SwCalls
<1>6. n.sound <=> c.sound
  BY <1>1, <1>2 DEF SwCalls
<1>7. SwGoes(n)
  BY <1>1, <1>5 DEF SwGoes
<1>8. SwInside(n) => SwAlone(a) /\ SwHolds(n, swTable, swData, swCtrl)
  BY <1>1, <1>4, <1>5, <1>6 DEF SwInside, SwHolds
<1>9. QED
  BY <1>3, <1>5, <1>7, <1>8, SwQuietKeeps

\* The entry a call writes
LEMMA SwEntryIs ==
  ASSUME NEW c \in SwCalls, SwGoes(c), c.pc = "put"
  PROVE  SwEntry(c) \in SwEntries /\ SwEntry(c).ports \ {"ex"} = SwPortsFor(c, c.data.ports) \ {"ex"}
<1>1. c.data \in SwEntries /\ (c.op \in {"add", "del"} => c.port \in SwPorts)
  BY DEF SwCalls, SwGoes
<1>2. CASE c.op = "add"
  <2>1. SwEntry(c) = [c.data EXCEPT !.ports = @ \cup {"ex", c.port}]
    BY <1>2 DEF SwEntry
  <2>2. SwEntry(c) \in SwEntries /\ SwEntry(c).ports = c.data.ports \cup {"ex", c.port}
    BY <1>1, <1>2, <2>1 DEF SwEntries
  <2>3. QED
    BY <1>2, <2>2 DEF SwPortsFor
<1>3. CASE c.op = "del"
  <2>1. SwEntry(c) = [c.data EXCEPT !.ports = @ \ {c.port}]
    BY <1>3 DEF SwEntry
  <2>2. SwEntry(c) \in SwEntries /\ SwEntry(c).ports = c.data.ports \ {c.port}
    BY <1>1, <1>3, <2>1 DEF SwEntries
  <2>3. QED
    BY <1>3, <2>2 DEF SwPortsFor
<1>4. CASE c.op \notin {"add", "del"}
  <2>1. PICK b \in BOOLEAN : b <=> (c.op = "unlearn")
    OBVIOUS
  <2>2. (c.op = "unlearn") = b
    BY <2>1
  <2>3. SwEntry(c) = [c.data EXCEPT !.noLearn = b]
    BY <1>4, <2>2 DEF SwEntry
  <2>4. SwEntry(c) \in SwEntries /\ SwEntry(c).ports = c.data.ports
    BY <1>1, <2>3 DEF SwEntries
  <2>5. QED
    BY <1>4, <2>4 DEF SwPortsFor
<1>5. QED
  BY <1>2, <1>3, <1>4

LEMMA SwPutKeeps == ASSUME SwInv, NEW a \in SwCallers, SwPut(a) PROVE SwInv'
<1> DEFINE c == swCall[a]
<1>1. c \in SwCalls /\ c.pc = "put" /\ SwGoes(c)
  BY DEF SwPut, SwInv, SwTypes
<1>2. PICK n : n = [c EXCEPT !.pc = "store"]
  OBVIOUS
<1>3. /\ SwGoOn(a, n) /\ swTable' = swTable /\ swData' = SwEntry(c) /\ swCtrl' = swCtrl
      /\ swAsked' = swAsked /\ swLost' = swLost /\ swNative' = swNative
  BY <1>2 DEF SwPut, swHistory
<1>4. SwInside(c) => SwAlone(a) /\ c.at = c.v /\ c.data.ports = swTable[c.v].ports
  BY <1>1 DEF SwInv, SwSound, SwHolds
<1>5. ~SwOut(a)
  BY <1>1 DEF SwOut
<1> HIDE DEF c
<1>6. /\ n \in SwCalls /\ n.pc = "store" /\ n.v = c.v /\ n.hi = c.hi /\ n.at = c.at
      /\ n.op = c.op /\ n.port = c.port
  BY <1>1, <1>2 DEF SwCalls
<1>7. n.sound <=> c.sound
  BY <1>1, <1>2 DEF SwCalls
<1>8. SwGoes(n) /\ SwEntry(c) \in SwEntries
  BY <1>1, <1>6, SwEntryIs DEF SwGoes
<1>9. /\ swTable \in [SwVlans -> SwEntries] /\ swAsked \in [SwVlans -> SUBSET (SwPorts \cup {"ex"})]
      /\ swCtrl \in SwVlans /\ swNative \in [SwPorts \ {"ex"} -> Nat]
  BY DEF SwInv, SwTypes
<1>10. SwInside(n) => SwAlone(a) /\ SwHolds(n, swTable', swData', swCtrl')
  <2> SUFFICES ASSUME SwInside(n) PROVE SwAlone(a) /\ SwHolds(n, swTable', swData', swCtrl')
    OBVIOUS
  <2>1. SwAlone(a) /\ c.at = c.v /\ c.data.ports = swTable[c.v].ports
    BY <1>1, <1>4, <1>7 DEF SwInside
  <2>2. SwEntry(c).ports \ {"ex"} = SwPortsFor(c, swTable[c.v].ports) \ {"ex"}
    BY <1>1, <2>1, SwEntryIs
  <2>3. SwPortsFor(n, swTable[c.v].ports) = SwPortsFor(c, swTable[c.v].ports)
    BY <1>6 DEF SwPortsFor
  <2>4. QED
    BY <1>3, <1>6, <2>1, <2>2, <2>3 DEF SwHolds
<1>11. SwMembers'
  BY <1>3 DEF SwInv, SwMembers
<1>12. QED
  BY <1>1, <1>3, <1>5, <1>6, <1>8, <1>9, <1>10, <1>11, SwGoOnKeeps

\* The rest of a range is a request of its own.
LEMMA SwAfterIs ==
  ASSUME NEW c \in SwCalls, SwGoes(c), c.pc # "idle"
  PROVE  /\ SwAfter(c) \in SwCalls /\ SwGoes(SwAfter(c)) /\ SwAfter(c).pc \in {"idle", "next"}
         /\ ~SwInside(SwAfter(c))
<1>1. CASE c.v < c.hi
  <2>1. PICK n : n = [c EXCEPT !.v = c.v + 1, !.at = c.v + 1, !.pc = "next", !.sound = FALSE]
    OBVIOUS
  <2>2. SwAfter(c) = n
    BY <1>1, <2>1 DEF SwAfter
  <2>3. c.v \in Nat /\ c.hi \in Nat /\ c.v + 1 \in Nat /\ c.hi \in SwVlans
    BY DEF SwCalls, SwGoes
  <2>4. c.v + 1 \in SwVlans /\ c.v + 1 <= c.hi
    BY <1>1, <2>3, SwAssumption
  <2>5. /\ n \in SwCalls /\ n.pc = "next" /\ n.v = c.v + 1 /\ n.hi = c.hi /\ n.at = c.v + 1 /\ n.op = c.op
        /\ n.port = c.port
    BY <2>1, <2>3 DEF SwCalls
  <2>6. c.op \in {"add", "del"}
    BY <1>1, <2>3 DEF SwCalls, SwGoes
  <2>7. SwGoes(n)
    BY <2>3, <2>4, <2>5, <2>6 DEF SwGoes
  <2>8. QED
    BY <2>2, <2>5, <2>7 DEF SwInside
<1>2. CASE ~(c.v < c.hi)
  BY <1>2, SwIdleIs DEF SwAfter, SwInside
<1>3. QED
  BY <1>1, <1>2

LEMMA SwStoreVlanKeeps == ASSUME SwInv, NEW a \in SwCallers, SwStoreVlan(a) PROVE SwInv'
<1> DEFINE c == swCall[a]
           n == SwAfter(c)
<1>1. c \in SwCalls /\ c.pc = "store" /\ SwGoes(c) /\ c.v \in SwVlans /\ c.at \in SwVlans
  BY DEF SwStoreVlan, SwInv, SwTypes, SwGoes
<1>2. /\ SwGoOn(a, n) /\ swTable' = [swTable EXCEPT ![c.at] = swData] /\ swData' = swData /\ swCtrl' = c.at
      /\ swAsked' = [swAsked EXCEPT ![c.v] = SwPortsFor(c, @)] /\ swNative' = swNative
      /\ swLost' = IF c.sound THEN swLost ELSE swLost \cup {c.at}
  BY DEF SwStoreVlan, SwStore
<1>3. c.sound => c.at = c.v /\ swData.ports \ {"ex"} = SwPortsFor(c, swTable[c.v].ports) \ {"ex"}
  BY <1>1 DEF SwInv, SwSound, SwHolds, SwInside
<1>4. ~SwOut(a)
  BY <1>1 DEF SwOut
<1> HIDE DEF c
<1>5. n \in SwCalls /\ SwGoes(n) /\ n.pc \in {"idle", "next"} /\ ~SwInside(n)
  BY <1>1, SwAfterIs
<1> HIDE DEF n
<1>6. /\ swTable \in [SwVlans -> SwEntries] /\ swAsked \in [SwVlans -> SUBSET (SwPorts \cup {"ex"})]
      /\ swData \in SwEntries /\ swNative \in [SwPorts \ {"ex"} -> Nat]
  BY DEF SwInv, SwTypes
<1>7. SwPortsFor(c, swAsked[c.v]) \in SUBSET (SwPorts \cup {"ex"})
  <2>1. swAsked[c.v] \in SUBSET (SwPorts \cup {"ex"}) /\ (c.op \in {"add", "del"} => c.port \in SwPorts)
    BY <1>1, <1>6 DEF SwGoes
  <2>2. QED
    BY <2>1 DEF SwPortsFor
<1>8. swTable' \in [SwVlans -> SwEntries] /\ swAsked' \in [SwVlans -> SUBSET (SwPorts \cup {"ex"})]
  BY <1>1, <1>2, <1>6, <1>7
<1>9. swTable'[c.at] = swData /\ swAsked'[c.v] = SwPortsFor(c, swAsked[c.v])
      /\ (\A v \in SwVlans \ {c.at} : swTable'[v] = swTable[v])
      /\ (\A v \in SwVlans \ {c.v} : swAsked'[v] = swAsked[v])
  BY <1>1, <1>2, <1>6
<1>10. SwMembers'
  <2> SUFFICES ASSUME NEW v \in SwVlans, v \notin swLost' PROVE swTable'[v].ports \ {"ex"} = swAsked'[v] \ {"ex"}
    BY DEF SwMembers
  <2>1. v \notin swLost /\ swTable[v].ports \ {"ex"} = swAsked[v] \ {"ex"}
    BY <1>2 DEF SwInv, SwMembers
  <2>2. CASE c.sound /\ v = c.v
    <3>1. swData.ports \ {"ex"} = SwPortsFor(c, swTable[v].ports) \ {"ex"} /\ c.at = v
      BY <1>3, <2>2
    <3>2. SwPortsFor(c, swTable[v].ports) \ {"ex"} = SwPortsFor(c, swAsked[v]) \ {"ex"}
      BY <2>1 DEF SwPortsFor
    <3>3. QED
      BY <1>9, <2>2, <3>1, <3>2
  <2>3. CASE v # c.v
    <3>1. v # c.at
      BY <1>2, <1>3, <2>3
    <3>2. QED
      BY <1>9, <2>1, <2>3, <3>1
  <2>4. CASE ~c.sound /\ v = c.v
    <3>1. v # c.at
      BY <1>2, <2>4
    <3>2. c.op \notin {"add", "del"}
      BY <1>1, <2>4, <3>1 DEF SwGoes
    <3>3. SwPortsFor(c, swAsked[c.v]) = swAsked[c.v]
      BY <3>2 DEF SwPortsFor
    <3>4. QED
      BY <1>9, <2>1, <2>4, <3>1, <3>3
  <2>5. QED
    BY <2>2, <2>3, <2>4
<1>11. QED
  BY <1>1, <1>2, <1>4, <1>5, <1>6, <1>8, <1>9, <1>10, SwGoOnKeeps

\* The calls that give one command
LEMMA SwCommandKeeps ==
  ASSUME SwInv, NEW a \in SwCallers, swCall[a] = SwIdle, SwMeet(a, SwIdle), NEW v \in SwVlans,
         swTable' \in [SwVlans -> SwEntries], swAsked' = swAsked, swNative' = swNative,
         swData' \in SwEntries, swCtrl' = v, swData' = swTable'[v], SwMembers'
  PROVE  SwInv'
<1>1. swAsked \in [SwVlans -> SUBSET (SwPorts \cup {"ex"})] /\ swNative \in [SwPorts \ {"ex"} -> Nat]
  BY DEF SwInv, SwTypes
<1>2. ~SwInside(SwIdle)
  BY SwIdleIs DEF SwInside
<1>3. QED
  BY <1>1, <1>2, SwIdleIs, SwMeetKeeps

LEMMA SwGetVlanLearnKeeps == ASSUME SwInv, NEW a \in SwCallers, NEW v \in SwVlans, SwGetVlanLearn(a, v) PROVE SwInv'
<1>1. /\ swCall[a] = SwIdle /\ SwMeet(a, SwIdle) /\ swTable' = swTable /\ swData' = swTable[v] /\ swCtrl' = v
      /\ swAsked' = swAsked /\ swLost' = swLost /\ swNative' = swNative
  BY DEF SwGetVlanLearn, SwLoad, swHistory
<1>2. swTable \in [SwVlans -> SwEntries] /\ swTable[v] \in SwEntries
  BY DEF SwInv, SwTypes
<1>3. SwMembers'
  BY <1>1 DEF SwInv, SwMembers
<1>4. QED
  BY <1>1, <1>2, <1>3, SwCommandKeeps

LEMMA SwMemCtrlKeeps == ASSUME SwInv, NEW a \in SwCallers, NEW v \in SwVlans, SwMemCtrl(a, v) PROVE SwInv'
<1>1. /\ swCall[a] = SwIdle /\ SwMeet(a, SwIdle) /\ swTable' = [swTable EXCEPT ![v] = swData] /\ swData' = swData
      /\ swCtrl' = v /\ swAsked' = swAsked /\ swNative' = swNative
      /\ swLost' = IF SwAlone(a) /\ swCtrl = v THEN swLost ELSE swLost \cup {v}
  BY DEF SwMemCtrl, SwStore
<1>2. swTable \in [SwVlans -> SwEntries] /\ swData \in SwEntries
  BY DEF SwInv, SwTypes
<1>3. swTable' \in [SwVlans -> SwEntries] /\ swTable'[v] = swData /\ \A w \in SwVlans \ {v} : swTable'[w] = swTable[w]
  BY <1>1, <1>2
<1>4. SwOut(a)
  BY <1>1, SwIdleIs DEF SwOut
<1>5. SwMembers'
  <2> SUFFICES ASSUME NEW w \in SwVlans, w \notin swLost' PROVE swTable'[w].ports \ {"ex"} = swAsked'[w] \ {"ex"}
    BY DEF SwMembers
  <2>1. w \notin swLost /\ swTable[w].ports \ {"ex"} = swAsked[w] \ {"ex"}
    BY <1>1 DEF SwInv, SwMembers
  <2>2. CASE w = v
    <3>1. SwAlone(a) /\ swCtrl = v
      BY <1>1, <2>2
    <3>2. swData = swTable[v]
      BY <1>4, <3>1, SwFinds
    <3>3. QED
      BY <1>1, <1>3, <2>1, <2>2, <3>2
  <2>3. CASE w # v
    BY <1>1, <1>3, <2>1, <2>3
  <2>4. QED
    BY <2>2, <2>3
<1>6. QED
  BY <1>1, <1>2, <1>3, <1>5, SwCommandKeeps

LEMMA SwSetVlanLearnKeeps ==
  ASSUME SwInv, NEW a \in SwCallers, NEW v \in SwVlans, NEW op \in {"learn", "unlearn"}, SwSetVlanLearn(a, v, op)
  PROVE  SwInv'
<1>1. PICK s \in BOOLEAN : s <=> SwAlone(a)
  OBVIOUS
<1>2. SwAlone(a) = s
  BY <1>1 DEF SwAlone
<1>3. PICK n : n = [SwCallOf(op, "ep", v, v, "fetch") EXCEPT !.sound = s]
  OBVIOUS
<1>4. /\ SwMeet(a, n) /\ swTable' = swTable /\ swData' = swTable[v] /\ swCtrl' = v
      /\ swAsked' = swAsked /\ swLost' = swLost /\ swNative' = swNative
  BY <1>2, <1>3 DEF SwSetVlanLearn, SwLoad, swHistory
<1>5. v \in Nat
  BY SwAssumption
<1>6. /\ n \in SwCalls /\ n.pc = "fetch" /\ n.v = v /\ n.hi = v /\ n.at = v /\ n.op = op /\ n.port = "ep"
  BY <1>3, <1>5, SwIdleIs DEF SwCallOf, SwCalls
<1>7. n.sound <=> s
  BY <1>1, <1>3 DEF SwCallOf
<1>8. SwGoes(n)
  BY <1>5, <1>6 DEF SwGoes
<1>9. /\ swTable \in [SwVlans -> SwEntries] /\ swAsked \in [SwVlans -> SUBSET (SwPorts \cup {"ex"})]
      /\ swTable[v] \in SwEntries /\ swNative \in [SwPorts \ {"ex"} -> Nat]
  BY DEF SwInv, SwTypes
<1>10. SwInside(n) => SwAlone(a) /\ SwHolds(n, swTable', swData', swCtrl')
  BY <1>1, <1>4, <1>6, <1>7 DEF SwInside, SwHolds
<1>11. SwMembers'
  BY <1>4 DEF SwInv, SwMembers
<1>12. QED
  BY <1>4, <1>6, <1>8, <1>9, <1>10, <1>11, SwMeetKeeps

LEMMA SwPvidTypes ==
  ASSUME SwInv, NEW p \in SwPorts \cup {"ep"}, NEW v \in Nat, SwPvidAdd(p, v)
  PROVE  swNative' \in [SwPorts \ {"ex"} -> Nat]
BY DEF SwPvidAdd, SwInv, SwTypes

LEMMA SwPvidKeeps == ASSUME SwInv, NEW p \in SwPorts, NEW v \in SwVlans, SwPvid(p, v) PROVE SwInv'
<1>1. swNative' \in [SwPorts \ {"ex"} -> Nat]
  BY SwAssumption, SwPvidTypes DEF SwPvid
<1>2. /\ swTable' = swTable /\ swData' = swData /\ swCtrl' = swCtrl /\ swCall' = swCall /\ swAsked' = swAsked
      /\ swLost' = swLost
  BY DEF SwPvid, swRegs, swHistory
<1>3. QED
  BY <1>1, <1>2 DEF SwInv, SwTypes, SwSound, SwInside, SwAlone, SwOut, SwHolds, SwPortsFor, SwClean, SwMembers, SwGoes

\* A request of the bridge begins or ends, or a native VLAN changes, and the registers stay as they are.
LEMMA SwBridgeKeeps ==
  ASSUME SwInv, "bridge" \in SwCallers, SwOut("bridge"), NEW n \in SwCalls, SwGoes(n), n.pc \in {"idle", "next"},
         SwGoOn("bridge", n), UNCHANGED <<swRegs, swHistory>>, swNative' \in [SwPorts \ {"ex"} -> Nat]
  PROVE  SwInv'
<1>1. swTable' = swTable /\ swData' = swData /\ swCtrl' = swCtrl /\ swAsked' = swAsked /\ swLost' = swLost
  BY DEF swRegs, swHistory
<1>2. /\ swTable \in [SwVlans -> SwEntries] /\ swAsked \in [SwVlans -> SUBSET (SwPorts \cup {"ex"})]
      /\ swData \in SwEntries /\ swCtrl \in SwVlans
  BY DEF SwInv, SwTypes
<1>3. ~SwInside(n)
  BY DEF SwInside
<1>4. swData # swTable[swCtrl] => \E b \in SwCallers \ {"bridge"} : swCall[b].pc = "store"
  BY DEF SwInv, SwClean, SwOut
<1>5. SwMembers'
  BY <1>1 DEF SwInv, SwMembers
<1>6. QED
  BY <1>1, <1>2, <1>3, <1>4, <1>5, SwGoOnKeeps

LEMMA SwObjKeeps ==
  ASSUME SwInv, NEW op \in {"add", "del"}, NEW p \in SwPorts, NEW lo \in SwVlans, NEW hi \in SwVlans, lo <= hi,
         SwObj(op, p, lo, hi)
  PROVE  SwInv'
<1>1. PICK x : x = IF op = "del" /\ p \in DOMAIN swNative THEN swNative[p] ELSE 0
  OBVIOUS
<1>2. x \in Nat
  BY <1>1 DEF SwInv, SwTypes
<1>3. PICK n : n = [SwCallOf(op, p, lo, hi, "next") EXCEPT !.native = x]
  OBVIOUS
<1>4. /\ SwGoOn("bridge", n) /\ swCall["bridge"] = SwIdle /\ UNCHANGED <<swRegs, swHistory>> /\ swNative' = swNative
  BY <1>1, <1>3 DEF SwObj
<1>5. lo \in Nat /\ hi \in Nat /\ "bridge" \in SwCallers
  BY SwAssumption
<1>6. n \in SwCalls /\ n.pc = "next" /\ n.v = lo /\ n.hi = hi /\ n.at = lo /\ n.op = op /\ n.port = p
  BY <1>2, <1>3, <1>5, SwIdleIs DEF SwCallOf, SwCalls
<1>7. SwGoes(n)
  BY <1>5, <1>6 DEF SwGoes
<1>8. SwOut("bridge") /\ swNative' \in [SwPorts \ {"ex"} -> Nat]
  BY <1>4, SwIdleIs DEF SwOut, SwInv, SwTypes
<1>9. QED
  BY <1>4, <1>5, <1>6, <1>7, <1>8, SwBridgeKeeps

LEMMA SwObjNextKeeps == ASSUME SwInv, SwObjNext PROVE SwInv'
<1> DEFINE c == swCall["bridge"]
<1>1. /\ c.pc = "next" /\ UNCHANGED <<swRegs, swHistory>> /\ "bridge" \in SwCallers
      /\ IF c.v = c.native THEN SwPvidAdd(c.port, 1) /\ SwGoOn("bridge", SwAfter(c))
         ELSE SwVlanAdd("bridge", c) /\ UNCHANGED swNative
  BY SwAssumption DEF SwObjNext
<1>2. c \in SwCalls /\ SwGoes(c) /\ SwOut("bridge")
  BY <1>1 DEF SwInv, SwTypes, SwOut
<1> HIDE DEF c
<1>3. CASE c.v = c.native
  <2>1. SwAfter(c) \in SwCalls /\ SwGoes(SwAfter(c)) /\ SwAfter(c).pc \in {"idle", "next"}
    BY <1>1, <1>2, SwAfterIs
  <2>2. c.port \in SwPorts /\ SwPvidAdd(c.port, 1)
    BY <1>1, <1>2, <1>3 DEF SwGoes
  <2>3. swNative' \in [SwPorts \ {"ex"} -> Nat]
    BY <2>2, SwPvidTypes
  <2>4. QED
    BY <1>1, <1>2, <1>3, <2>1, <2>3, SwBridgeKeeps
<1>4. CASE c.v # c.native
  BY <1>1, <1>2, <1>4, SwVlanAddKeeps
<1>5. QED
  BY <1>3, <1>4

LEMMA SwPortVlanKeeps ==
  ASSUME SwInv, NEW a \in SwCallers, NEW op \in {"add", "del"}, NEW v \in SwVlans, NEW p \in SwPorts, NEW ipv, NEW status,
         SwPortVlan(a, op, v, p, ipv, status)
  PROVE  SwInv'
<1>1. PICK n : n = SwCallOf(op, p, v, v, "next")
  OBVIOUS
<1>2. swCall[a] = SwIdle /\ SwVlanAdd(a, n) /\ UNCHANGED <<swRegs, swHistory, swNative>>
  BY <1>1 DEF SwPortVlan
<1>3. v \in Nat
  BY SwAssumption
<1>4. n \in SwCalls /\ n.pc = "next" /\ n.v = v /\ n.hi = v /\ n.at = v /\ n.op = op /\ n.port = p
  BY <1>1, <1>3, SwIdleIs DEF SwCallOf, SwCalls
<1>5. SwGoes(n)
  BY <1>3, <1>4 DEF SwGoes
<1>6. SwOut(a)
  BY <1>2, SwIdleIs DEF SwOut
<1>7. QED
  BY <1>2, <1>4, <1>5, <1>6, SwVlanAddKeeps

LEMMA SwStep == SwInv /\ [SwNext]_swVars => SwInv'
<1> SUFFICES ASSUME SwInv, [SwNext]_swVars PROVE SwInv'
  OBVIOUS
<1>1. CASE SwVlanStep
  BY <1>1, SwLoadVlanKeeps, SwFetchKeeps, SwTakeKeeps, SwPutKeeps, SwStoreVlanKeeps DEF SwVlanStep
<1>2. CASE SwObjNext
  BY <1>2, SwObjNextKeeps
<1>3. ASSUME UNCHANGED swVlanVars PROVE SwInv'
  BY <1>3 DEF swVlanVars, swRegs, swHistory, SwInv, SwTypes, SwSound, SwInside, SwAlone, SwOut, SwHolds, SwPortsFor,
              SwClean, SwMembers, SwGoes
<1>4. ASSUME NEW v \in SwVlans, NEW p \in SwPorts, SwPvid(p, v) PROVE SwInv'
  BY <1>4, SwPvidKeeps
<1>5. ASSUME NEW v \in SwVlans, NEW p \in SwPorts, NEW a \in SwCallers, NEW op \in {"add", "del"},
             NEW ipv, NEW status, SwPortVlan(a, op, v, p, ipv, status)
      PROVE  SwInv'
  BY <1>5, SwPortVlanKeeps
<1>6. ASSUME NEW v \in SwVlans, NEW p \in SwPorts, NEW hi \in SwVlans, v <= hi, NEW op \in {"add", "del"},
             SwObj(op, p, v, hi) \/ SwObjPvid(p, hi)
      PROVE  SwInv'
  BY <1>6, <1>4, SwObjKeeps DEF SwObjPvid
<1>7. ASSUME NEW a \in SwCallers, NEW v \in SwVlans,
             (\E op \in {"learn", "unlearn"} : SwSetVlanLearn(a, v, op)) \/ SwGetVlanLearn(a, v) \/ SwMemCtrl(a, v)
      PROVE  SwInv'
  BY <1>7, SwSetVlanLearnKeeps, SwGetVlanLearnKeeps, SwMemCtrlKeeps
<1>8. ASSUME NEW p \in SwPorts, SwStpDone(p) PROVE SwInv'
  BY <1>3, <1>8 DEF SwStpDone
<1>9. ASSUME NEW p \in SwPorts, NEW s, NEW late, SwSetStp(p, s, late) PROVE SwInv'
  BY <1>3, <1>9 DEF SwSetStp
<1>10. CASE UNCHANGED swVars
  BY <1>3, <1>10 DEF swVars
<1>11. CASE SwVlanOp
  BY <1>4, <1>5, <1>6, <1>7, <1>8, <1>9, <1>11 DEF SwVlanOp
<1>12. QED
  BY <1>1, <1>2, <1>10, <1>11 DEF SwNext

LEMMA SwInvMeans == SwInv => SwMembers
BY DEF SwInv

----------------------------------------------------------------------------
(* The address table of the switch (TsnSwitch).                             *)

FdPortSets == SUBSET (SwPorts \cup {"mac1", "ep", "ex_only", "ex_ep"})
FdKeys == SwKeys \cup SwUserKeys
FdRequests == [cmd : {"add", "delete"}, key : SwKeys, ports : FdPortSets]
FdActive == [cmd : {"add", "delete", "read"}, key : FdKeys, ports : FdPortSets,
             pc : {"key2", "action", "command"}, alone : BOOLEAN, met : SUBSET FdKeys]

\* What an address has in the table once a request was done
FdDone(r) == IF r.cmd = "add" THEN r.ports ELSE {}

FdTypes ==
  /\ fdCam = [k \in FdAll |-> fdCam[k]] /\ fdBridge \in [SwKeys -> FdPortSets]
  /\ fdQueue \in Seq(FdRequests)
  /\ fdCall \in [SwCallers -> FdActive \cup {FdIdle}]
  /\ fdRegs = [key1 |-> fdRegs.key1, key2 |-> fdRegs.key2, ports |-> fdRegs.ports]

\* The bridge's requests set and remove its own addresses.
FdBusy(a) == fdCall[a] # FdIdle
FdOwn == FdBusy("bridge") => fdCall["bridge"].cmd \in {"add", "delete"} /\ fdCall["bridge"].key \in SwKeys

\* A call finds the halves of addresses of calls that it met in the registers, and alone its own.
FdInRegs(c, regs) ==
  /\ c.key \in c.met /\ \E m \in c.met : regs.key1 = m[1]
  /\ c.pc # "key2" => \E m \in c.met : regs.key2 = m[2]
  /\ c.alone => /\ regs.key1 = c.key[1] /\ (c.pc # "key2" => regs.key2 = c.key[2])
                /\ (c.pc = "command" /\ c.cmd # "read" => regs.ports = c.ports)
FdMeet ==
  \A a \in SwCallers : FdBusy(a) =>
    /\ FdInRegs(fdCall[a], fdRegs)
    /\ \A b \in SwCallers : FdBusy(b) => fdCall[b].key \in fdCall[a].met /\ (fdCall[a].alone => b = a)

\* The last request about an address makes of it what the bridge has ...
FdLast(i) == \A j \in DOMAIN fdQueue : j > i => fdQueue[j].key # fdQueue[i].key
FdQueued == \A i \in DOMAIN fdQueue : FdLast(i) => FdDone(fdQueue[i]) = fdBridge[fdQueue[i].key]

\* ... and without one, the request under way or the table itself agrees with the bridge.
FdNoneFor(k) == \A i \in DOMAIN fdQueue : fdQueue[i].key # k
FdFor(k) == FdBusy("bridge") /\ fdCall["bridge"].key = k
FdAgrees ==
  \A k \in SwKeys : FdNoneFor(k) =>
    /\ FdFor(k) => fdBridge[k] = FdDone(fdCall["bridge"])
    /\ ~FdFor(k) /\ k \notin fdLost => fdCam[k] = fdBridge[k]

FdInv == FdTypes /\ FdOwn /\ FdMeet /\ FdQueued /\ FdAgrees

LEMMA FdIdleIs == FdIdle \notin FdActive /\ FdIdle.pc = "idle"
BY DEF FdIdle, FdCallOf, FdActive

\* An address is made of its halves.
LEMMA FdKeyIs == ASSUME NEW k \in FdKeys PROVE k = <<k[1], k[2]>> /\ k \in FdAll
<1>1. k = <<k[1], k[2]>>
  BY SwAssumption DEF FdKeys
<1>2. <<k[1], k[2]>> \in FdAll
  BY DEF FdAll, FdMixes, FdKeys
<1>3. QED
  BY <1>1, <1>2

LEMMA FdStarts == FdInit => FdInv
<1> SUFFICES ASSUME FdInit PROVE FdInv
  OBVIOUS
<1>1. FdTypes
  <2>1. << >> \in Seq(FdRequests)
    OBVIOUS
  <2>2. QED
    BY <2>1 DEF FdInit, FdTypes, FdPortSets
<1>2. DOMAIN fdQueue = {} /\ "bridge" \in SwCallers /\ \A a \in SwCallers : fdCall[a] = FdIdle
  <2>1. fdQueue = << >>
    BY Zenon DEF FdInit
  <2>2. DOMAIN fdQueue = {}
    BY ONLY <2>1
  <2>3. \A a \in SwCallers : fdCall[a] = FdIdle
    BY DEF FdInit
  <2>4. QED
    BY <2>2, <2>3, SwAssumption
<1>3. FdOwn /\ FdMeet
  BY <1>2 DEF FdOwn, FdMeet, FdBusy
<1>4. SwKeys \subseteq FdAll
  BY FdKeyIs DEF FdKeys
<1>5. FdQueued /\ FdAgrees
  BY <1>2, <1>4 DEF FdInit, FdQueued, FdAgrees, FdFor, FdBusy
<1>6. QED
  BY <1>1, <1>3, <1>5 DEF FdInv

\* The request that is done first leaves the queue.
LEMMA FdShift ==
  ASSUME FdTypes, fdQueue # << >>
  PROVE  /\ Tail(fdQueue) \in Seq(FdRequests) /\ RemoveAt(fdQueue, 1) = Tail(fdQueue)
         /\ 1 \in DOMAIN fdQueue /\ fdQueue[1] \in FdRequests /\ Head(fdQueue) = fdQueue[1]
         /\ DOMAIN fdQueue = 1 .. Len(fdQueue) /\ Len(fdQueue) \in Nat
         /\ DOMAIN Tail(fdQueue) = 1 .. (Len(fdQueue) - 1)
         /\ \A i \in DOMAIN Tail(fdQueue) : i + 1 \in DOMAIN fdQueue /\ Tail(fdQueue)[i] = fdQueue[i + 1]
<1>1. fdQueue \in Seq(FdRequests)
  BY DEF FdTypes
<1>2. DOMAIN fdQueue = 1 .. Len(fdQueue) /\ Len(fdQueue) \in Nat /\ Len(fdQueue) > 0
  BY <1>1
<1>3. /\ Tail(fdQueue) \in Seq(FdRequests) /\ Len(Tail(fdQueue)) = Len(fdQueue) - 1
      /\ \A i \in 1 .. Len(Tail(fdQueue)) : Tail(fdQueue)[i] = fdQueue[i + 1]
  BY <1>1, HeadTailProperties
<1>4. DOMAIN Tail(fdQueue) = 1 .. (Len(fdQueue) - 1)
  BY <1>3
<1>5. Tail(fdQueue) = SubSeq(fdQueue, 2, Len(fdQueue))
  BY <1>1, TailIsSubSeq
<1>6. SubSeq(fdQueue, 1, 0) = << >>
  BY <1>1
<1>7. RemoveAt(fdQueue, 1) = Tail(fdQueue)
  <2>1. RemoveAt(fdQueue, 1) = SubSeq(fdQueue, 1, 0) \o SubSeq(fdQueue, 2, Len(fdQueue))
    BY DEF RemoveAt
  <2>2. << >> \o Tail(fdQueue) = Tail(fdQueue)
    BY <1>3
  <2>3. QED
    BY <1>5, <1>6, <2>1, <2>2
<1>8. 1 \in DOMAIN fdQueue /\ fdQueue[1] \in FdRequests
  BY <1>1, <1>2, ElementIs
<1>9. Head(fdQueue) = fdQueue[1]
  BY <1>1, <1>2
<1>10. \A i \in DOMAIN Tail(fdQueue) : i + 1 \in DOMAIN fdQueue
  BY <1>2, <1>4
<1>11. QED
  BY <1>2, <1>3, <1>4, <1>7, <1>8, <1>9, <1>10

\* Without the first request, the others are as good as before, and an address that has none
\* left had none, or had the first one as its last.
LEMMA FdQueuedTail ==
  ASSUME FdTypes, FdQueued, fdQueue # << >>, fdQueue' = Tail(fdQueue), fdBridge' = fdBridge
  PROVE  FdQueued' /\ \A k : FdNoneFor(k)' => FdNoneFor(k) \/ (fdQueue[1].key = k /\ FdLast(1))
<1>1. /\ DOMAIN fdQueue = 1 .. Len(fdQueue) /\ Len(fdQueue) \in Nat
      /\ DOMAIN fdQueue' = 1 .. (Len(fdQueue) - 1)
      /\ \A i \in DOMAIN fdQueue' : i + 1 \in DOMAIN fdQueue /\ fdQueue'[i] = fdQueue[i + 1]
  BY FdShift
<1>2. \A j \in DOMAIN fdQueue : j > 1 => j - 1 \in DOMAIN fdQueue' /\ j = (j - 1) + 1
  BY <1>1
<1>3. \A j \in DOMAIN fdQueue : j > 1 => j - 1 \in DOMAIN fdQueue' /\ fdQueue'[j - 1] = fdQueue[j]
  BY <1>1, <1>2
<1>4. ASSUME NEW i \in DOMAIN fdQueue', FdLast(i)'
      PROVE  FdDone(fdQueue'[i]) = fdBridge[fdQueue'[i].key]
  <2>1. ASSUME NEW j \in DOMAIN fdQueue, j > i + 1 PROVE fdQueue[j].key # fdQueue[i + 1].key
    <3>1. j - 1 > i /\ j > 1
      BY <1>1, <2>1
    <3>2. j - 1 \in DOMAIN fdQueue' /\ fdQueue'[j - 1] = fdQueue[j]
      BY <1>3, <3>1
    <3>3. fdQueue'[j - 1].key # fdQueue'[i].key
      BY <1>4, <3>1, <3>2 DEF FdLast
    <3>4. QED
      BY <1>1, <3>2, <3>3
  <2>2. i + 1 \in DOMAIN fdQueue /\ fdQueue'[i] = fdQueue[i + 1]
    BY <1>1
  <2>3. FdLast(i + 1)
    BY <2>1 DEF FdLast
  <2>4. QED
    BY <1>4, <2>2, <2>3 DEF FdQueued
<1>5. FdQueued'
  BY <1>4 DEF FdQueued
<1>6. ASSUME NEW k, FdNoneFor(k)', ~FdNoneFor(k) PROVE fdQueue[1].key = k /\ FdLast(1)
  <2>1. \A j \in DOMAIN fdQueue : j > 1 => fdQueue[j].key # k
    BY <1>3, <1>6 DEF FdNoneFor
  <2>2. \A j \in DOMAIN fdQueue : j = 1 \/ j > 1
    BY <1>1
  <2>3. fdQueue[1].key = k
    BY <1>6, <2>1, <2>2 DEF FdNoneFor
  <2>4. QED
    BY <2>1, <2>3 DEF FdLast
<1>7. QED
  BY <1>5, <1>6

LEMMA FdQueueSame ==
  ASSUME fdQueue' = fdQueue, fdBridge' = fdBridge
  PROVE  (FdQueued => FdQueued') /\ \A k : FdNoneFor(k)' <=> FdNoneFor(k)
BY DEF FdQueued, FdLast, FdNoneFor

\* A call in which others have been
FdMet(c, key) == [c EXCEPT !.alone = FALSE, !.met = @ \cup {key}]

LEMMA FdMetIs ==
  ASSUME NEW c \in FdActive, NEW key \in FdKeys
  PROVE  /\ FdMet(c, key) \in FdActive /\ FdMet(c, key).cmd = c.cmd /\ FdMet(c, key).key = c.key
         /\ FdMet(c, key).ports = c.ports /\ FdMet(c, key).pc = c.pc /\ FdMet(c, key).met = c.met \cup {key}
         /\ ~FdMet(c, key).alone
BY DEF FdMet, FdActive

\* A caller begins: those that are under way meet it, and it meets them.
LEMMA FdStartIs ==
  ASSUME FdTypes, FdOwn, FdMeet, NEW a \in SwCallers, NEW cmd \in {"add", "delete", "read"}, NEW key \in FdKeys,
         NEW ports \in FdPortSets, FdStart(a, cmd, key, ports)
  PROVE  /\ ~FdBusy(a) /\ FdBusy(a)' /\ (\A b \in SwCallers \ {a} : FdBusy(b)' <=> FdBusy(b))
         /\ fdCall'[a].cmd = cmd /\ fdCall'[a].key = key /\ fdCall'[a].ports = ports
         /\ \A b \in SwCallers \ {a} : FdBusy(b) =>
              fdCall'[b].cmd = fdCall[b].cmd /\ fdCall'[b].key = fdCall[b].key /\ fdCall'[b].ports = fdCall[b].ports
         /\ fdCall' \in [SwCallers -> FdActive \cup {FdIdle}] /\ FdMeet'
         /\ fdRegs' = [key1 |-> fdRegs'.key1, key2 |-> fdRegs'.key2, ports |-> fdRegs'.ports]
<1> DEFINE busy == {b \in SwCallers : fdCall[b] # FdIdle}
<1>1. a \notin busy /\ fdRegs' = [fdRegs EXCEPT !.key1 = key[1]]
  BY DEF FdStart
<1>2. PICK s \in BOOLEAN : s <=> busy = {}
  OBVIOUS
<1>3. (busy = {}) = s
  BY <1>2
<1>4. PICK n : n = FdCallOf(cmd, key, ports, "key2", s, {key} \cup {fdCall[c].key : c \in busy})
  OBVIOUS
<1>5. fdCall' = [b \in SwCallers |-> IF b = a THEN n ELSE IF b \in busy THEN FdMet(fdCall[b], key) ELSE FdIdle]
  BY <1>3, <1>4 DEF FdStart, FdMet
<1>6. \A b \in SwCallers : b \in busy <=> FdBusy(b)
  BY DEF FdBusy
<1>7. \A b \in busy : fdCall[b] \in FdActive
  BY DEF FdTypes
<1>8. {fdCall[c].key : c \in busy} \subseteq FdKeys
  BY <1>7 DEF FdActive
<1>9. /\ n.cmd = cmd /\ n.key = key /\ n.ports = ports /\ n.pc = "key2"
      /\ n.met = {key} \cup {fdCall[c].key : c \in busy}
  BY <1>4 DEF FdCallOf
<1>10. n.alone <=> s
  BY <1>2, <1>4 DEF FdCallOf
<1>11. n \in FdActive
  BY <1>2, <1>4, <1>8 DEF FdCallOf, FdActive
<1>12. n.alone => \A b \in SwCallers : ~FdBusy(b)
  BY <1>2, <1>6, <1>10
<1>13. \A b \in SwCallers : FdBusy(b) => fdCall[b].key \in n.met
  BY <1>6, <1>9
<1> HIDE DEF busy
<1>14. fdCall'[a] = n /\ FdBusy(a)' /\ ~FdBusy(a)
  BY <1>1, <1>5, <1>6, <1>11, FdIdleIs DEF FdBusy
<1>15. ASSUME NEW b \in SwCallers \ {a} PROVE IF FdBusy(b) THEN fdCall'[b] = FdMet(fdCall[b], key) ELSE fdCall'[b] = FdIdle
  BY <1>5, <1>6
<1>16. ASSUME NEW b \in SwCallers \ {a}, FdBusy(b)
       PROVE  /\ FdBusy(b)' /\ fdCall'[b] \in FdActive /\ fdCall'[b].met = fdCall[b].met \cup {key}
              /\ ~fdCall'[b].alone /\ fdCall'[b].pc = fdCall[b].pc
              /\ fdCall'[b].cmd = fdCall[b].cmd /\ fdCall'[b].key = fdCall[b].key /\ fdCall'[b].ports = fdCall[b].ports
  <2>1. fdCall[b] \in FdActive /\ fdCall'[b] = FdMet(fdCall[b], key)
    BY <1>6, <1>7, <1>15, <1>16
  <2>2. QED
    BY <2>1, FdMetIs, FdIdleIs DEF FdBusy
<1>17. \A b \in SwCallers \ {a} : FdBusy(b)' <=> FdBusy(b)
  BY <1>15, <1>16 DEF FdBusy
<1>18. fdCall' \in [SwCallers -> FdActive \cup {FdIdle}]
  <2>1. fdCall' = [b \in SwCallers |-> fdCall'[b]]
    BY <1>5
  <2>2. \A b \in SwCallers : fdCall'[b] \in FdActive \cup {FdIdle}
    BY <1>11, <1>14, <1>15, <1>16
  <2>3. QED
    BY <2>1, <2>2
<1>19. fdRegs'.key1 = key[1] /\ fdRegs'.key2 = fdRegs.key2 /\ fdRegs'.ports = fdRegs.ports
       /\ fdRegs' = [key1 |-> fdRegs'.key1, key2 |-> fdRegs'.key2, ports |-> fdRegs'.ports]
  <2>1. fdRegs = [key1 |-> fdRegs.key1, key2 |-> fdRegs.key2, ports |-> fdRegs.ports]
    BY DEF FdTypes
  <2>2. QED
    BY <1>1, <2>1
<1>20. FdInRegs(n, fdRegs')
  BY <1>9, <1>19 DEF FdInRegs
<1>21. ASSUME NEW b \in SwCallers \ {a}, FdBusy(b) PROVE FdInRegs(fdCall'[b], fdRegs')
  <2>1. FdInRegs(fdCall[b], fdRegs)
    BY <1>21 DEF FdMeet
  <2>2. key \in fdCall'[b].met
    BY <1>16, <1>21
  <2>3. QED
    BY <1>16, <1>19, <1>21, <2>1, <2>2 DEF FdInRegs
<1>22. FdMeet'
  <2> SUFFICES ASSUME NEW b \in SwCallers, FdBusy(b)'
               PROVE  /\ FdInRegs(fdCall'[b], fdRegs')
                      /\ \A c \in SwCallers : FdBusy(c)' => fdCall'[c].key \in fdCall'[b].met /\ (fdCall'[b].alone => c = b)
    BY DEF FdMeet
  <2>1. CASE b = a
    <3>1. \A c \in SwCallers : FdBusy(c)' => fdCall'[c].key \in n.met /\ (n.alone => c = b)
      BY <1>9, <1>12, <1>13, <1>14, <1>16, <1>17, <2>1
    <3>2. QED
      BY <1>14, <1>20, <2>1, <3>1
  <2>2. CASE b # a
    <3>1. FdBusy(b) /\ FdInRegs(fdCall'[b], fdRegs') /\ ~fdCall'[b].alone
      BY <1>16, <1>17, <1>21, <2>2
    <3>2. ASSUME NEW c \in SwCallers, FdBusy(c)' PROVE fdCall'[c].key \in fdCall'[b].met
      <4>1. fdCall'[b].met = fdCall[b].met \cup {key}
        BY <1>16, <2>2, <3>1
      <4>2. CASE c = a
        BY <1>9, <1>14, <4>1, <4>2
      <4>3. CASE c # a
        <5>1. FdBusy(c) /\ fdCall'[c].key = fdCall[c].key
          BY <1>16, <1>17, <3>2, <4>3
        <5>2. fdCall[c].key \in fdCall[b].met
          BY <3>1, <5>1 DEF FdMeet
        <5>3. QED
          BY <4>1, <5>1, <5>2
      <4>4. QED
        BY <4>2, <4>3
    <3>3. QED
      BY <3>1, <3>2
  <2>3. QED
    BY <2>1, <2>2
<1>23. QED
  BY <1>9, <1>14, <1>16, <1>17, <1>18, <1>19, <1>22

\* The bridge's table and its request are as before when another caller begins.
LEMMA FdIoctlKeeps ==
  ASSUME FdInv, NEW a \in SwCallers, a # "bridge", NEW cmd \in {"add", "delete", "read"}, NEW key \in SwUserKeys,
         NEW ports \in FdPortSets, FdIoctl(a, cmd, key, ports)
  PROVE  FdInv'
<1>1. FdStart(a, cmd, key, ports) /\ UNCHANGED <<fdCam, fdQueue, fdBridge, fdLost>> /\ "bridge" \in SwCallers
  BY SwAssumption DEF FdIoctl
<1>2. FdTypes /\ FdOwn /\ FdMeet /\ key \in FdKeys
  BY DEF FdInv, FdKeys
<1>3. /\ FdBusy("bridge")' <=> FdBusy("bridge")
      /\ FdBusy("bridge") => /\ fdCall'["bridge"].cmd = fdCall["bridge"].cmd
                             /\ fdCall'["bridge"].key = fdCall["bridge"].key
                             /\ fdCall'["bridge"].ports = fdCall["bridge"].ports
      /\ fdCall' \in [SwCallers -> FdActive \cup {FdIdle}] /\ FdMeet'
      /\ fdRegs' = [key1 |-> fdRegs'.key1, key2 |-> fdRegs'.key2, ports |-> fdRegs'.ports]
  BY <1>1, <1>2, FdStartIs
<1>4. FdTypes'
  BY <1>1, <1>2, <1>3 DEF FdTypes
<1>5. FdOwn'
  BY <1>2, <1>3 DEF FdOwn
<1>6. FdQueued' /\ \A k : FdNoneFor(k)' <=> FdNoneFor(k)
  BY <1>1, FdQueueSame DEF FdInv
<1>7. FdBusy("bridge") => FdDone(fdCall'["bridge"]) = FdDone(fdCall["bridge"])
  BY <1>3 DEF FdDone
<1>8. \A k : FdFor(k)' <=> FdFor(k)
  BY <1>3 DEF FdFor
<1>9. FdAgrees'
  <2> SUFFICES ASSUME NEW k \in SwKeys, FdNoneFor(k)'
               PROVE  /\ FdFor(k)' => fdBridge'[k] = FdDone(fdCall'["bridge"])
                      /\ ~FdFor(k)' /\ k \notin fdLost' => fdCam'[k] = fdBridge'[k]
    BY DEF FdAgrees
  <2>1. /\ FdFor(k) => fdBridge[k] = FdDone(fdCall["bridge"])
        /\ ~FdFor(k) /\ k \notin fdLost => fdCam[k] = fdBridge[k]
    BY <1>6 DEF FdInv, FdAgrees
  <2>2. FdFor(k) => FdBusy("bridge")
    BY DEF FdFor
  <2>3. QED
    BY <1>1, <1>7, <1>8, <2>1, <2>2
<1>10. QED
  BY <1>3, <1>4, <1>5, <1>6, <1>9 DEF FdInv

LEMMA FdWorkKeeps == ASSUME FdInv, FdWork PROVE FdInv'
<1>1. PICK i \in FdTaken : /\ FdStart("bridge", fdQueue[i].cmd, fdQueue[i].key, fdQueue[i].ports)
                           /\ fdQueue' = RemoveAt(fdQueue, i)
  BY DEF FdWork
<1>2. i = 1 /\ fdQueue # << >>
  BY DEF FdTaken
<1> DEFINE new == fdQueue[1]
<1>3. fdQueue' = Tail(fdQueue) /\ fdQueue' \in Seq(FdRequests) /\ new \in FdRequests /\ 1 \in DOMAIN fdQueue
  BY <1>1, <1>2, FdShift DEF FdInv
<1>4. new.cmd \in {"add", "delete"} /\ new.key \in SwKeys /\ new.ports \in FdPortSets
  BY <1>3 DEF FdRequests
<1>5. FdStart("bridge", new.cmd, new.key, new.ports) /\ "bridge" \in SwCallers
  BY <1>1, <1>2, SwAssumption
<1>6. UNCHANGED <<fdCam, fdBridge, fdLost>>
  BY DEF FdWork
<1>7. FdQueued' /\ \A k : FdNoneFor(k)' => FdNoneFor(k) \/ (new.key = k /\ FdLast(1))
  BY <1>2, <1>3, <1>6, FdQueuedTail DEF FdInv
<1>8. FdLast(1) => FdDone(new) = fdBridge[new.key]
  BY <1>3 DEF FdInv, FdQueued
<1>9. \A k : FdNoneFor(k) => new.key # k
  BY <1>3 DEF FdNoneFor
<1> HIDE DEF new
<1>10. FdTypes /\ FdOwn /\ FdMeet /\ new.key \in FdKeys /\ new.cmd \in {"add", "delete", "read"}
  BY <1>4 DEF FdInv, FdKeys
<1>11. /\ ~FdBusy("bridge") /\ FdBusy("bridge")'
       /\ fdCall'["bridge"].cmd = new.cmd /\ fdCall'["bridge"].key = new.key /\ fdCall'["bridge"].ports = new.ports
       /\ fdCall' \in [SwCallers -> FdActive \cup {FdIdle}] /\ FdMeet'
       /\ fdRegs' = [key1 |-> fdRegs'.key1, key2 |-> fdRegs'.key2, ports |-> fdRegs'.ports]
  BY <1>4, <1>5, <1>10, FdStartIs
<1>12. FdTypes'
  BY <1>3, <1>6, <1>10, <1>11 DEF FdTypes
<1>13. FdOwn'
  BY <1>4, <1>11 DEF FdOwn
<1>14. FdDone(fdCall'["bridge"]) = FdDone(new)
  BY <1>11 DEF FdDone
<1>15. \A k : (FdFor(k)' <=> new.key = k) /\ ~FdFor(k)
  BY <1>11 DEF FdFor
<1>16. FdAgrees'
  <2> SUFFICES ASSUME NEW k \in SwKeys, FdNoneFor(k)'
               PROVE  /\ FdFor(k)' => fdBridge'[k] = FdDone(fdCall'["bridge"])
                      /\ ~FdFor(k)' /\ k \notin fdLost' => fdCam'[k] = fdBridge'[k]
    BY DEF FdAgrees
  <2>1. CASE new.key = k
    BY <1>6, <1>7, <1>8, <1>9, <1>14, <1>15, <2>1
  <2>2. CASE new.key # k
    <3>1. FdNoneFor(k)
      BY <1>7, <2>2
    <3>2. k \notin fdLost => fdCam[k] = fdBridge[k]
      BY <1>15, <3>1 DEF FdInv, FdAgrees
    <3>3. QED
      BY <1>6, <1>15, <2>2, <3>2
  <2>3. QED
    BY <2>1, <2>2
<1>17. QED
  BY <1>7, <1>11, <1>12, <1>13, <1>16 DEF FdInv

LEMMA FdWorkFailsKeeps == ASSUME FdInv, FdWorkFails PROVE FdInv'
<1>1. /\ fdQueue # << >> /\ fdQueue' = Tail(fdQueue) /\ fdLost' = fdLost \cup {Head(fdQueue).key}
      /\ UNCHANGED <<fdCam, fdRegs, fdCall, fdBridge>> /\ ~FdBusy("bridge")
  BY DEF FdWorkFails, FdBusy
<1>2. fdQueue' \in Seq(FdRequests) /\ Head(fdQueue) = fdQueue[1]
  BY <1>1, FdShift DEF FdInv
<1>3. FdQueued' /\ \A k : FdNoneFor(k)' => FdNoneFor(k) \/ (fdQueue[1].key = k /\ FdLast(1))
  BY <1>1, FdQueuedTail DEF FdInv
<1>4. FdTypes'
  BY <1>1, <1>2 DEF FdInv, FdTypes
<1>5. FdOwn' /\ FdMeet'
  BY <1>1 DEF FdInv, FdOwn, FdMeet, FdInRegs, FdBusy
<1>6. \A k : ~FdFor(k) /\ ~FdFor(k)'
  BY <1>1 DEF FdFor, FdBusy
<1>7. FdAgrees'
  <2> SUFFICES ASSUME NEW k \in SwKeys, FdNoneFor(k)', k \notin fdLost' PROVE fdCam'[k] = fdBridge'[k]
    BY <1>6 DEF FdAgrees
  <2>1. FdNoneFor(k)
    BY <1>1, <1>2, <1>3
  <2>2. QED
    BY <1>1, <1>6, <2>1 DEF FdInv, FdAgrees
<1>8. QED
  BY <1>3, <1>4, <1>5, <1>7 DEF FdInv

LEMMA FdEventKeeps ==
  ASSUME FdInv, NEW cmd \in {"add", "delete"}, NEW key \in SwKeys, NEW port \in {"ep", "mac1"}, FdEvent(cmd, key, port)
  PROVE  FdInv'
<1> DEFINE new == [cmd |-> cmd, key |-> key, ports |-> {port}]
           n == Len(fdQueue)
<1>1. /\ fdBridge' = [fdBridge EXCEPT ![key] = FdDone(new)] /\ fdQueue' = Append(fdQueue, new)
      /\ UNCHANGED <<fdCam, fdRegs, fdCall, fdLost>>
  BY DEF FdEvent, FdDone
<1>2. new \in FdRequests /\ new.key = key /\ FdDone(new) \in FdPortSets
  BY DEF FdRequests, FdPortSets, FdDone
<1>3. fdQueue \in Seq(FdRequests) /\ fdBridge \in [SwKeys -> FdPortSets]
  BY DEF FdInv, FdTypes
<1> HIDE DEF new
<1>4. /\ fdQueue' \in Seq(FdRequests) /\ DOMAIN fdQueue' = 1 .. (n + 1) /\ DOMAIN fdQueue = 1 .. n /\ n \in Nat
      /\ fdQueue'[n + 1] = new /\ \A i \in DOMAIN fdQueue : fdQueue'[i] = fdQueue[i]
  BY <1>1, <1>2, <1>3
<1>5. fdBridge' \in [SwKeys -> FdPortSets] /\ fdBridge'[key] = FdDone(new)
      /\ \A k \in SwKeys : k # key => fdBridge'[k] = fdBridge[k]
  BY <1>1, <1>2, <1>3
<1>6. FdTypes'
  BY <1>1, <1>4, <1>5 DEF FdInv, FdTypes
<1>7. FdOwn' /\ FdMeet'
  BY <1>1 DEF FdInv, FdOwn, FdMeet, FdInRegs, FdBusy
<1>8. FdQueued'
  <2> SUFFICES ASSUME NEW i \in DOMAIN fdQueue', FdLast(i)'
               PROVE  FdDone(fdQueue'[i]) = fdBridge'[fdQueue'[i].key]
    BY DEF FdQueued
  <2>1. CASE i = n + 1
    BY <1>2, <1>4, <1>5, <2>1
  <2>2. CASE i # n + 1
    <3>1. i \in DOMAIN fdQueue /\ n + 1 > i /\ n + 1 \in DOMAIN fdQueue' /\ fdQueue'[i] = fdQueue[i]
      BY <1>4, <2>2
    <3>2. fdQueue'[i].key # key
      BY <1>2, <1>4, <3>1 DEF FdLast
    <3>3. fdQueue[i].key \in SwKeys
      <4>1. fdQueue[i] \in FdRequests
        BY <1>3, <3>1, ElementIs
      <4>2. QED
        BY <4>1 DEF FdRequests
    <3>4. FdLast(i)
      BY <1>4, <3>1 DEF FdLast
    <3>5. FdDone(fdQueue[i]) = fdBridge[fdQueue[i].key]
      BY <3>1, <3>4 DEF FdInv, FdQueued
    <3>6. QED
      BY <1>5, <3>1, <3>2, <3>3, <3>5
  <2>3. QED
    BY <2>1, <2>2
<1>9. FdAgrees'
  <2> SUFFICES ASSUME NEW k \in SwKeys, FdNoneFor(k)'
               PROVE  /\ FdFor(k)' => fdBridge'[k] = FdDone(fdCall'["bridge"])
                      /\ ~FdFor(k)' /\ k \notin fdLost' => fdCam'[k] = fdBridge'[k]
    BY DEF FdAgrees
  <2>1. k # key
    <3>1. n + 1 \in DOMAIN fdQueue'
      BY <1>4
    <3>2. QED
      BY <1>2, <1>4, <3>1 DEF FdNoneFor
  <2>2. \A i \in DOMAIN fdQueue : i \in DOMAIN fdQueue'
    BY <1>4
  <2>3. FdNoneFor(k)
    BY <1>4, <2>2 DEF FdNoneFor
  <2>4. /\ FdFor(k) => fdBridge[k] = FdDone(fdCall["bridge"])
        /\ ~FdFor(k) /\ k \notin fdLost => fdCam[k] = fdBridge[k]
    BY <2>3 DEF FdInv, FdAgrees
  <2>5. FdFor(k)' <=> FdFor(k)
    BY <1>1 DEF FdFor, FdBusy
  <2>6. FdDone(fdCall'["bridge"]) = FdDone(fdCall["bridge"])
    BY <1>1 DEF FdDone
  <2>7. QED
    BY <1>1, <1>5, <2>1, <2>4, <2>5, <2>6
<1>10. QED
  BY <1>6, <1>7, <1>8, <1>9 DEF FdInv

\* The next access of a call
LEMMA FdNextPcKeeps ==
  ASSUME FdInv, NEW a \in SwCallers, FdBusy(a), NEW pc \in {"action", "command"},
         fdCall' = [fdCall EXCEPT ![a] = [fdCall[a] EXCEPT !.pc = pc]],
         fdRegs' = [key1 |-> fdRegs'.key1, key2 |-> fdRegs'.key2, ports |-> fdRegs'.ports],
         FdInRegs(fdCall'[a], fdRegs'), UNCHANGED <<fdCam, fdQueue, fdBridge, fdLost>>,
         \A b \in SwCallers \ {a} : FdBusy(b) => FdInRegs(fdCall[b], fdRegs')
  PROVE  FdInv'
<1>1. fdCall \in [SwCallers -> FdActive \cup {FdIdle}] /\ fdCall[a] \in FdActive
  BY DEF FdInv, FdTypes, FdBusy
<1> DEFINE n == [fdCall[a] EXCEPT !.pc = pc]
<1>2. /\ n \in FdActive /\ n.cmd = fdCall[a].cmd /\ n.key = fdCall[a].key /\ n.ports = fdCall[a].ports
      /\ n.met = fdCall[a].met
  BY <1>1 DEF FdActive
<1>3. n.alone <=> fdCall[a].alone
  BY <1>1 DEF FdActive
<1>4. fdCall' = [fdCall EXCEPT ![a] = n]
  OBVIOUS
<1> HIDE DEF n
<1>5. fdCall'[a] = n /\ (\A b \in SwCallers \ {a} : fdCall'[b] = fdCall[b]) /\ fdCall' \in [SwCallers -> FdActive \cup {FdIdle}]
  BY <1>1, <1>2, <1>4
<1>6. \A b \in SwCallers : FdBusy(b)' <=> FdBusy(b)
  BY <1>2, <1>5, FdIdleIs DEF FdBusy
<1>7. \A b \in SwCallers : fdCall'[b].key = fdCall[b].key /\ fdCall'[b].cmd = fdCall[b].cmd /\ fdCall'[b].ports = fdCall[b].ports
  BY <1>2, <1>5
<1>8. \A b \in SwCallers : fdCall'[b].met = fdCall[b].met /\ (fdCall'[b].alone <=> fdCall[b].alone)
  BY <1>2, <1>3, <1>5
<1>9. FdTypes'
  BY <1>5 DEF FdInv, FdTypes
<1>10. "bridge" \in SwCallers
  BY SwAssumption
<1>11. FdOwn'
  BY <1>6, <1>7, <1>10 DEF FdInv, FdOwn
<1>12. FdMeet'
  <2>1. \A b \in SwCallers : FdBusy(b) => FdInRegs(fdCall'[b], fdRegs')
    BY <1>5
  <2>2. QED
    BY <1>6, <1>7, <1>8, <2>1 DEF FdInv, FdMeet
<1>13. FdQueued' /\ \A k : FdNoneFor(k)' <=> FdNoneFor(k)
  BY FdQueueSame DEF FdInv
<1>14. FdDone(fdCall'["bridge"]) = FdDone(fdCall["bridge"]) /\ \A k : FdFor(k)' <=> FdFor(k)
  BY <1>6, <1>7, <1>10 DEF FdDone, FdFor
<1>15. FdAgrees'
  BY <1>13, <1>14 DEF FdInv, FdAgrees
<1>16. QED
  BY <1>9, <1>11, <1>12, <1>13, <1>15 DEF FdInv

LEMMA FdKey2Keeps == ASSUME FdInv, NEW a \in SwCallers, FdKey2(a) PROVE FdInv'
<1> DEFINE c == fdCall[a]
<1>1. PICK pc \in {"action", "command"} : pc = IF c.cmd = "read" THEN "command" ELSE "action"
  OBVIOUS
<1>2. /\ c.pc = "key2" /\ fdRegs' = [fdRegs EXCEPT !.key2 = c.key[2]] /\ UNCHANGED <<fdCam, fdQueue, fdBridge, fdLost>>
      /\ fdCall' = [fdCall EXCEPT ![a] = [c EXCEPT !.pc = pc]]
  BY <1>1 DEF FdKey2
<1>3. FdBusy(a) /\ c \in FdActive /\ fdCall'[a] = [c EXCEPT !.pc = pc] /\ FdInRegs(c, fdRegs)
  <2>1. FdBusy(a)
    BY <1>2, FdIdleIs DEF FdBusy
  <2>2. QED
    BY <1>2, <2>1 DEF FdInv, FdTypes, FdMeet, FdBusy
<1>4. \A b \in SwCallers \ {a} : FdBusy(b) => FdInRegs(fdCall[b], fdRegs) /\ c.key \in fdCall[b].met /\ ~fdCall[b].alone
  BY <1>3 DEF FdInv, FdMeet
<1>5. fdRegs'.key1 = fdRegs.key1 /\ fdRegs'.key2 = c.key[2] /\ fdRegs'.ports = fdRegs.ports
      /\ fdRegs' = [key1 |-> fdRegs'.key1, key2 |-> fdRegs'.key2, ports |-> fdRegs'.ports]
  BY <1>2 DEF FdInv, FdTypes
<1>6. FdInRegs(fdCall'[a], fdRegs')
  <2>1. PICK n : n = [c EXCEPT !.pc = pc]
    OBVIOUS
  <2>2. n.key = c.key /\ n.met = c.met /\ n.pc = pc /\ n.cmd = c.cmd /\ n.ports = c.ports
    BY <1>3, <2>1 DEF FdActive
  <2>3. n.alone <=> c.alone
    BY <1>3, <2>1 DEF FdActive
  <2> HIDE DEF c
  <2>4. FdInRegs(n, fdRegs')
    BY <1>1, <1>3, <1>5, <2>2, <2>3 DEF FdInRegs
  <2>5. QED
    BY <1>3, <2>1, <2>4
<1>7. ASSUME NEW b \in SwCallers \ {a}, FdBusy(b) PROVE FdInRegs(fdCall[b], fdRegs')
  BY <1>4, <1>5, <1>7 DEF FdInRegs
<1>8. QED
  BY <1>2, <1>3, <1>5, <1>6, <1>7, FdNextPcKeeps

LEMMA FdActionKeeps == ASSUME FdInv, NEW a \in SwCallers, FdAction(a) PROVE FdInv'
<1> DEFINE c == fdCall[a]
<1>1. /\ c.pc = "action" /\ fdRegs' = [fdRegs EXCEPT !.ports = c.ports] /\ UNCHANGED <<fdCam, fdQueue, fdBridge, fdLost>>
      /\ fdCall' = [fdCall EXCEPT ![a] = [c EXCEPT !.pc = "command"]]
  BY DEF FdAction
<1>2. FdBusy(a) /\ c \in FdActive /\ fdCall'[a] = [c EXCEPT !.pc = "command"] /\ FdInRegs(c, fdRegs)
  <2>1. FdBusy(a)
    BY <1>1, FdIdleIs DEF FdBusy
  <2>2. QED
    BY <1>1, <2>1 DEF FdInv, FdTypes, FdMeet, FdBusy
<1>3. \A b \in SwCallers \ {a} : FdBusy(b) => FdInRegs(fdCall[b], fdRegs) /\ ~fdCall[b].alone
  BY <1>2 DEF FdInv, FdMeet
<1>4. fdRegs'.key1 = fdRegs.key1 /\ fdRegs'.key2 = fdRegs.key2 /\ fdRegs'.ports = c.ports
      /\ fdRegs' = [key1 |-> fdRegs'.key1, key2 |-> fdRegs'.key2, ports |-> fdRegs'.ports]
  BY <1>1 DEF FdInv, FdTypes
<1>5. FdInRegs(fdCall'[a], fdRegs')
  <2>1. PICK n : n = [c EXCEPT !.pc = "command"]
    OBVIOUS
  <2>2. n.key = c.key /\ n.met = c.met /\ n.pc = "command" /\ n.cmd = c.cmd /\ n.ports = c.ports
    BY <1>2, <2>1 DEF FdActive
  <2>3. n.alone <=> c.alone
    BY <1>2, <2>1 DEF FdActive
  <2> HIDE DEF c
  <2>4. FdInRegs(n, fdRegs')
    BY <1>1, <1>2, <1>4, <2>2, <2>3 DEF FdInRegs
  <2>5. QED
    BY <1>2, <2>1, <2>4
<1>6. ASSUME NEW b \in SwCallers \ {a}, FdBusy(b) PROVE FdInRegs(fdCall[b], fdRegs')
  BY <1>3, <1>4, <1>6 DEF FdInRegs
<1>7. QED
  BY <1>1, <1>2, <1>4, <1>5, <1>6, FdNextPcKeeps

\* What a command does to the table
LEMMA FdCommandKeeps == ASSUME FdInv, NEW a \in SwCallers, FdCommand(a) PROVE FdInv'
<1> DEFINE c == fdCall[a]
           key == <<fdRegs.key1, fdRegs.key2>>
<1>1. /\ c.pc = "command" /\ fdCall' = [fdCall EXCEPT ![a] = FdIdle] /\ fdQueue' = fdQueue /\ fdBridge' = fdBridge
  BY DEF FdCommand
<1>2. FdBusy(a) /\ c \in FdActive /\ FdInRegs(c, fdRegs) /\ "bridge" \in SwCallers
  <2>1. FdBusy(a)
    BY <1>1, FdIdleIs DEF FdBusy
  <2>2. QED
    BY <1>1, <2>1, SwAssumption DEF FdInv, FdTypes, FdMeet, FdBusy
<1>3. c.cmd \in {"add", "delete", "read"} /\ c.key \in FdKeys /\ c.met \in SUBSET FdKeys
  BY <1>2 DEF FdActive
<1>4. /\ c.cmd = "add" => fdCam' = [fdCam EXCEPT ![key] = fdRegs.ports] /\ fdRegs' = fdRegs
      /\ c.cmd = "delete" => fdCam' = [fdCam EXCEPT ![key] = {}] /\ fdRegs' = fdRegs
      /\ c.cmd = "read" => fdCam' = fdCam /\ (fdRegs' = fdRegs \/ fdRegs' = [fdRegs EXCEPT !.ports = fdCam[key]]) /\ fdLost' = fdLost
  BY DEF FdCommand
<1>5. /\ c.cmd # "read" /\ ~c.alone => fdLost' = fdLost \cup FdMixes(c.met)
      /\ c.cmd # "read" /\ c.alone => fdLost' = IF a = "bridge" THEN fdLost \ {c.key} ELSE fdLost \cup {c.key}
  BY <1>2 DEF FdCommand, FdActive
<1>6. fdCam = [k \in FdAll |-> fdCam[k]] /\ fdCall \in [SwCallers -> FdActive \cup {FdIdle}]
      /\ fdRegs = [key1 |-> fdRegs.key1, key2 |-> fdRegs.key2, ports |-> fdRegs.ports]
  BY DEF FdInv, FdTypes
<1>7. key \in FdMixes(c.met) /\ (c.alone => key = c.key) /\ c.key \in FdMixes(c.met) /\ c.key \in FdAll
  <2>1. PICK m \in c.met : fdRegs.key1 = m[1]
    BY <1>2 DEF FdInRegs
  <2>2. PICK l \in c.met : fdRegs.key2 = l[2]
    BY <1>1, <1>2 DEF FdInRegs
  <2>3. key \in FdMixes(c.met)
    BY <2>1, <2>2 DEF FdMixes
  <2>4. c.key = <<c.key[1], c.key[2]>> /\ c.key \in FdAll
    BY <1>3, FdKeyIs
  <2>5. c.key \in c.met
    BY <1>2 DEF FdInRegs
  <2>6. <<c.key[1], c.key[2]>> \in FdMixes(c.met)
    BY <2>5 DEF FdMixes
  <2>7. c.alone => fdRegs.key1 = c.key[1] /\ fdRegs.key2 = c.key[2]
    BY <1>1, <1>2 DEF FdInRegs
  <2>8. QED
    BY <2>3, <2>4, <2>6, <2>7
<1>8. c.alone /\ c.cmd # "read" => fdRegs.ports = c.ports
  BY <1>1, <1>2 DEF FdInRegs
<1>9. FdOwn /\ FdMeet /\ FdQueued /\ FdAgrees
  BY DEF FdInv
<1>10. \A b \in SwCallers \ {a} : c.alone => ~FdBusy(b)
  BY <1>2, <1>9 DEF FdMeet
<1>11. FdFor(c.key) <=> a = "bridge" \/ (FdBusy("bridge") /\ fdCall["bridge"].key = c.key)
  BY <1>2 DEF FdFor
<1>12. a = "bridge" => \A k : FdFor(k) <=> k = c.key
  BY <1>2 DEF FdFor
<1>13. a = "bridge" => c.cmd \in {"add", "delete"}
  BY <1>2, <1>9 DEF FdOwn
<1> HIDE DEF c, key
<1>14. fdCam' = [k \in FdAll |-> fdCam'[k]]
  BY <1>3, <1>4, <1>6
<1>15. fdRegs'.key1 = fdRegs.key1 /\ fdRegs'.key2 = fdRegs.key2
       /\ fdRegs' = [key1 |-> fdRegs'.key1, key2 |-> fdRegs'.key2, ports |-> fdRegs'.ports]
       /\ (c.cmd # "read" => fdRegs' = fdRegs)
  BY <1>3, <1>4, <1>6
<1>16. fdCall' \in [SwCallers -> FdActive \cup {FdIdle}] /\ fdCall'[a] = FdIdle
       /\ \A b \in SwCallers \ {a} : fdCall'[b] = fdCall[b]
  BY <1>1, <1>6
<1>17. FdTypes'
  BY <1>1, <1>14, <1>15, <1>16 DEF FdInv, FdTypes
<1>18. ~FdBusy(a)' /\ \A b \in SwCallers \ {a} : FdBusy(b)' <=> FdBusy(b)
  BY <1>16 DEF FdBusy
<1>19. FdOwn'
  BY <1>2, <1>9, <1>16, <1>18 DEF FdOwn
<1>20. FdMeet'
  <2>1. ASSUME NEW b \in SwCallers \ {a}, FdBusy(b) PROVE FdInRegs(fdCall[b], fdRegs')
    <3>1. FdInRegs(fdCall[b], fdRegs) /\ ~fdCall[b].alone
      BY <1>2, <1>9, <2>1 DEF FdMeet
    <3>2. QED
      BY <1>15, <3>1 DEF FdInRegs
  <2>2. QED
    BY <1>9, <1>16, <1>18, <2>1 DEF FdMeet
<1>21. FdQueued' /\ \A k : FdNoneFor(k)' <=> FdNoneFor(k)
  BY <1>1, <1>9, FdQueueSame
<1>22. a # "bridge" => (\A k : FdFor(k)' <=> FdFor(k)) /\ fdCall'["bridge"] = fdCall["bridge"]
  BY <1>2, <1>16, <1>18 DEF FdFor
<1>23. a = "bridge" => \A k : ~FdFor(k)'
  BY <1>18 DEF FdFor
<1>24. \A k \in FdAll : k # key \/ c.cmd = "read" => fdCam'[k] = fdCam[k]
  BY <1>3, <1>4, <1>6
<1>25. FdAgrees'
  <2> SUFFICES ASSUME NEW k \in SwKeys, FdNoneFor(k)'
               PROVE  /\ FdFor(k)' => fdBridge'[k] = FdDone(fdCall'["bridge"])
                      /\ ~FdFor(k)' /\ k \notin fdLost' => fdCam'[k] = fdBridge'[k]
    BY DEF FdAgrees
  <2>1. /\ FdFor(k) => fdBridge[k] = FdDone(fdCall["bridge"])
        /\ ~FdFor(k) /\ k \notin fdLost => fdCam[k] = fdBridge[k]
    BY <1>9, <1>21 DEF FdAgrees
  <2>2. k \in FdAll
    BY FdKeyIs DEF FdKeys
  <2>3. FdFor(k)' => fdBridge'[k] = FdDone(fdCall'["bridge"])
    BY <1>1, <1>22, <1>23, <2>1
  <2>4. ASSUME ~FdFor(k)', k \notin fdLost' PROVE fdCam'[k] = fdBridge'[k]
    <3>1. CASE c.cmd = "read"
      BY <1>1, <1>4, <1>13, <1>22, <2>1, <2>4, <3>1
    <3>2. CASE c.cmd # "read" /\ ~c.alone
      <4>1. k \notin fdLost /\ k # key /\ k # c.key
        BY <1>5, <1>7, <2>4, <3>2
      <4>2. ~FdFor(k)
        BY <1>12, <1>22, <2>4, <4>1
      <4>3. QED
        BY <1>1, <1>24, <2>1, <2>2, <4>1, <4>2
    <3>3. CASE c.cmd # "read" /\ c.alone /\ a # "bridge"
      <4>1. k \notin fdLost /\ k # key
        BY <1>5, <1>7, <2>4, <3>3
      <4>2. ~FdFor(k)
        BY <1>22, <2>4, <3>3
      <4>3. QED
        BY <1>1, <1>24, <2>1, <2>2, <4>1, <4>2
    <3>4. CASE c.cmd # "read" /\ c.alone /\ a = "bridge" /\ k # c.key
      <4>1. k \notin fdLost /\ k # key /\ ~FdFor(k)
        BY <1>5, <1>7, <1>12, <2>4, <3>4
      <4>2. QED
        BY <1>1, <1>24, <2>1, <2>2, <4>1
    <3>5. CASE c.cmd # "read" /\ c.alone /\ a = "bridge" /\ k = c.key
      <4>1. fdBridge[k] = FdDone(c)
        BY <1>12, <2>1, <3>5 DEF c
      <4>2. fdCam'[k] = FdDone(c)
        BY <1>3, <1>4, <1>6, <1>7, <1>8, <2>2, <3>5 DEF FdDone
      <4>3. QED
        BY <1>1, <4>1, <4>2
    <3>6. QED
      BY <3>1, <3>2, <3>3, <3>4, <3>5
  <2>5. QED
    BY <2>3, <2>4
<1>26. QED
  BY <1>17, <1>19, <1>20, <1>21, <1>25 DEF FdInv

LEMMA FdStep == FdInv /\ [FdNext]_fdVars => FdInv'
<1> SUFFICES ASSUME FdInv, [FdNext]_fdVars PROVE FdInv'
  OBVIOUS
<1>1. ASSUME NEW a \in SwCallers \ {"bridge"}, NEW cmd \in {"add", "delete", "read"}, NEW key \in SwUserKeys,
             NEW ports \in {{"mac1"}, {"ep", "ex_only"}, {"ex_ep"}}, FdIoctl(a, cmd, key, ports)
      PROVE  FdInv'
  <2>1. ports \in FdPortSets
    BY DEF FdPortSets
  <2>2. QED
    BY <1>1, <2>1, FdIoctlKeeps
<1>2. ASSUME NEW cmd \in {"add", "delete"}, NEW key \in SwKeys, NEW p \in {"ep", "mac1"}, FdEvent(cmd, key, p) PROVE FdInv'
  BY <1>2, FdEventKeeps
<1>3. CASE UNCHANGED fdVars
  <2>1. fdQueue' = fdQueue /\ fdBridge' = fdBridge /\ fdCall' = fdCall /\ fdRegs' = fdRegs /\ fdCam' = fdCam /\ fdLost' = fdLost
    BY <1>3 DEF fdVars
  <2>2. FdQueued' /\ \A k : FdNoneFor(k)' <=> FdNoneFor(k)
    BY <2>1, FdQueueSame DEF FdInv
  <2>3. FdTypes' /\ FdOwn' /\ FdMeet'
    BY <2>1 DEF FdInv, FdTypes, FdOwn, FdMeet, FdInRegs, FdBusy
  <2>4. FdDone(fdCall'["bridge"]) = FdDone(fdCall["bridge"]) /\ \A k : FdFor(k)' <=> FdFor(k)
    BY <2>1 DEF FdDone, FdFor, FdBusy
  <2>5. FdAgrees'
    BY <2>1, <2>2, <2>4 DEF FdInv, FdAgrees
  <2>6. QED
    BY <2>2, <2>3, <2>5 DEF FdInv
<1>4. QED
  BY <1>1, <1>2, <1>3, FdWorkKeeps, FdWorkFailsKeeps, FdKey2Keeps, FdActionKeeps, FdCommandKeeps DEF FdNext

LEMMA FdInvMeans == FdInv => FdFollows
<1> SUFFICES ASSUME FdInv, fdQueue = << >>, fdCall["bridge"] = FdIdle, NEW k \in SwKeys \ fdLost
             PROVE  fdCam[k] = fdBridge[k]
  BY DEF FdFollows
<1>1. FdNoneFor(k) /\ ~FdFor(k)
  BY DEF FdNoneFor, FdFor, FdBusy
<1>2. QED
  BY <1>1 DEF FdInv, FdAgrees

----------------------------------------------------------------------------
(* The fields of the registers (TsnConf).                                   *)

TcHas(r, f, v) == {b - TcFields[f][2] : b \in r \cap TcBitsOf(f)} = v
TcWidthOk(f) ==
  TcFields[f][2] \in Nat /\ TcFields[f][3] \in Nat \ {0} /\ TcFields[f][2] + TcFields[f][3] <= 32
TcApart(f, g) ==
  TcFields[f][2] + TcFields[f][3] <= TcFields[g][2] \/ TcFields[g][2] + TcFields[g][3] <= TcFields[f][2]
TcFits(f, v) == v \in SUBSET Nat /\ TcMask(f, v) = v

\* Each register holds what its fields were given last.
TcInv ==
  /\ tcGroup \in DOMAIN TcGroups
  /\ \A f \in TcGroups[tcGroup] : TcFields[f][1] \in DOMAIN tcReg
  /\ DOMAIN tcWant = DOMAIN TcFields /\ tcSpoilt \in BOOLEAN
  /\ ~tcSpoilt => \A f \in TcGroups[tcGroup] : TcHas(tcReg[TcFields[f][1]], f, tcWant[f])

\* A value that fits is what is read back from its field ...
LEMMA TcFitsIs == ASSUME NEW f, TcWidthOk(f), NEW v, TcFits(f, v) PROVE v \subseteq 0..(TcFields[f][3] - 1)
<1>1. ASSUME NEW b \in v PROVE b \in 0..(TcFields[f][3] - 1)
  BY <1>1 DEF TcFits, TcMask, TcWidthOk
<1>2. QED
  BY <1>1

LEMMA TcShiftIs ==
  ASSUME NEW f, TcWidthOk(f), NEW v, TcFits(f, v)
  PROVE  TcShift(f, v) = {b + TcFields[f][2] : b \in v} /\ TcShift(f, v) \subseteq TcBitsOf(f)
<1> DEFINE s == TcFields[f][2]
           w == TcFields[f][3]
<1>1. s \in Nat /\ w \in Nat /\ s + w <= 32 /\ v \subseteq 0..(w - 1)
  BY TcFitsIs DEF TcWidthOk
<1>2. TcShift(f, v) = {b + s : b \in v} \cap 0..31 /\ TcBitsOf(f) = s..(s + w - 1)
  BY DEF TcShift, TcBitsOf
<1> HIDE DEF s, w
<1>3. \A b \in v : b + s \in 0..31 /\ b + s \in s..(s + w - 1)
  BY <1>1
<1>4. {b + s : b \in v} \subseteq 0..31 /\ {b + s : b \in v} \subseteq s..(s + w - 1)
  BY <1>3
<1>5. QED
  BY <1>2, <1>4 DEF s

LEMMA TcReadShift ==
  ASSUME NEW f, TcWidthOk(f), NEW v, TcFits(f, v), NEW r, r \cap TcBitsOf(f) = TcShift(f, v)
  PROVE  TcHas(r, f, v)
<1> DEFINE s == TcFields[f][2]
<1>1. s \in Nat /\ v \in SUBSET Nat
  BY DEF TcWidthOk, TcFits
<1>2. TcShift(f, v) = {b + s : b \in v}
  BY TcShiftIs
<1> HIDE DEF s
<1>3. {c - s : c \in {b + s : b \in v}} = v
  <2>1. \A b \in v : (b + s) - s = b
    BY <1>1
  <2>2. QED
    BY <2>1
<1>4. QED
  BY <1>2, <1>3 DEF TcHas, s

LEMMA TcPutIs == ASSUME NEW f, TcWidthOk(f), NEW v, TcFits(f, v), NEW r PROVE TcHas(TcPut(r, f, v), f, v)
<1>1. TcPut(r, f, v) \cap TcBitsOf(f) = TcShift(f, v)
  BY TcShiftIs DEF TcPut
<1>2. QED
  BY <1>1, TcReadShift

LEMMA TcApartBits ==
  ASSUME NEW f, NEW g, TcWidthOk(f), TcWidthOk(g), TcApart(f, g)
  PROVE  TcBitsOf(f) \cap TcBitsOf(g) = {}
BY DEF TcWidthOk, TcApart, TcBitsOf

\* ... and leaves the fields beside it as they were.
LEMMA TcPutKeeps ==
  ASSUME NEW f, NEW g, TcWidthOk(f), TcWidthOk(g), TcApart(f, g), NEW v, TcFits(f, v), NEW r, NEW x, TcHas(r, g, x)
  PROVE  TcHas(TcPut(r, f, v), g, x)
<1>1. TcPut(r, f, v) \cap TcBitsOf(g) = r \cap TcBitsOf(g)
  BY TcShiftIs, TcApartBits DEF TcPut
<1>2. QED
  BY <1>1 DEF TcHas

LEMMA TcShiftReads ==
  ASSUME NEW f, TcWidthOk(f), NEW v, TcFits(f, v)
  PROVE  TcHas(TcShift(f, v), f, v) /\ (TcFields[f][2] = 0 => TcHas(v, f, v))
<1>1. TcShift(f, v) \cap TcBitsOf(f) = TcShift(f, v)
  BY TcShiftIs
<1>2. ASSUME TcFields[f][2] = 0 PROVE TcHas(v, f, v)
  <2>1. TcShift(f, v) = v
    <3>1. TcShift(f, v) = {b + 0 : b \in v}
      BY <1>2, TcShiftIs
    <3>2. \A b \in v : b + 0 = b
      BY DEF TcFits
    <3>3. QED
      BY <3>1, <3>2
  <2>2. QED
    BY <1>1, <2>1, TcReadShift
<1>3. QED
  BY <1>1, <1>2, TcReadShift

LEMMA TcBothRead ==
  ASSUME NEW f, NEW g, TcWidthOk(f), TcWidthOk(g), TcApart(f, g), NEW v, TcFits(f, v), NEW x, TcFits(g, x)
  PROVE  TcHas(TcShift(f, v) \cup TcShift(g, x), f, v) /\ TcHas(TcShift(f, v) \cup TcShift(g, x), g, x)
<1>1. /\ (TcShift(f, v) \cup TcShift(g, x)) \cap TcBitsOf(f) = TcShift(f, v)
      /\ (TcShift(f, v) \cup TcShift(g, x)) \cap TcBitsOf(g) = TcShift(g, x)
  BY TcShiftIs, TcApartBits
<1>2. QED
  BY <1>1, TcReadShift

LEMMA TcValueTypes == ASSUME NEW f, TcWidthOk(f), NEW v \in TcValues(f) PROVE v \in SUBSET Nat
BY DEF TcValues, TcWidthOk

\* The bits 2, 1 and 0 of the override register belong to none of the fields.
LEMMA TcBitKeeps ==
  ASSUME NEW g, NEW b, b \notin TcBitsOf(g), NEW r, NEW x, TcHas(r, g, x)
  PROVE  TcHas(r \cup {b}, g, x) /\ TcHas(r \ {b}, g, x)
<1>1. (r \cup {b}) \cap TcBitsOf(g) = r \cap TcBitsOf(g) /\ (r \ {b}) \cap TcBitsOf(g) = r \cap TcBitsOf(g)
  OBVIOUS
<1>2. QED
  BY <1>1 DEF TcHas

LEMMA TcPreTable ==
  /\ TcFields["en"] = <<"preempt", 0, 1>> /\ TcFields["timer"] = <<"ctrl", 8, 7>>
  /\ TcFields["frag"] = <<"ctrl", 4, 2>> /\ TcFields["verify"] = <<"ctrl", 0, 1>>
  /\ TcGroups["pre"] = {"en", "timer", "frag", "verify"}
  /\ {"en", "timer", "frag", "verify"} \subseteq DOMAIN TcFields
BY DEF TcFields, TcGroups

LEMMA TcQbuTable ==
  /\ TcFields["window"] = <<"qbu", 31, 1>> /\ TcFields["guard"] = <<"qbu", 3, 1>>
  /\ TcFields["hold"] = <<"qbu", 16, 9>> /\ TcFields["rel"] = <<"qbu", 8, 6>>
  /\ TcGroups["qbu"] = {"window", "guard", "hold", "rel"} /\ TcGroups["qbu"] \subseteq DOMAIN TcFields
BY DEF TcFields, TcGroups

LEMMA TcFilterTable ==
  /\ TcFields["pid"] = <<"filter", 14, 2>> /\ TcFields["size"] = <<"filter", 0, 12>>
  /\ TcGroups["filter"] = {"pid", "size"} /\ TcGroups["filter"] \subseteq DOMAIN TcFields
BY DEF TcFields, TcGroups

LEMMA TcMeterTable ==
  /\ TcFields["cir"] = <<"cir", 0, 32>> /\ TcFields["eir"] = <<"eir", 0, 32>>
  /\ TcFields["cbr"] = <<"cbr", 0, 24>> /\ TcFields["ebr"] = <<"ebr", 0, 24>>
  /\ TcFields["mode"] = <<"ebr", 28, 4>>
  /\ TcGroups["meter"] = {"cir", "eir", "cbr", "ebr", "mode"} /\ TcGroups["meter"] \subseteq DOMAIN TcFields
BY DEF TcFields, TcGroups

LEMMA TcCbTable ==
  /\ TcFields["port"] = <<"ingress", 24, 2>> /\ TcFields["seq"] = <<"ingress", 0, 16>>
  /\ TcFields["hist"] = <<"frer1", 16, 8>> /\ TcFields["egport"] = <<"frer1", 12, 2>>
  /\ TcFields["vlan"] = <<"frer1", 0, 12>> /\ TcFields["ticks"] = <<"frer2", 0, 16>>
  /\ TcGroups["cb"] = {"port", "seq", "hist", "egport", "vlan", "ticks"} /\ TcGroups["cb"] \subseteq DOMAIN TcFields
BY DEF TcFields, TcGroups

LEMMA TcLearnTable ==
  /\ TcFields["agetime"] = <<"learn", 8, 20>> /\ TcFields["aging"] = <<"learn", 2, 1>>
  /\ TcFields["untag"] = <<"learn", 1, 1>> /\ TcFields["learning"] = <<"learn", 0, 1>>
  /\ TcGroups["learn"] = {"agetime", "aging", "untag", "learning"} /\ TcGroups["learn"] \subseteq DOMAIN TcFields
BY DEF TcFields, TcGroups

LEMMA TcRegsTable ==
  /\ TcFields["t1"] = <<"fifo", 16, 16>> /\ TcFields["t2"] = <<"fifo", 0, 16>> /\ TcFields["max"] = <<"max", 0, 16>>
  /\ TcFields["type1"] = <<"type", 16, 16>> /\ TcFields["type2"] = <<"type", 0, 16>>
  /\ TcGroups["regs"] = {"t1", "t2", "max", "type1", "type2"} /\ TcGroups["regs"] \subseteq DOMAIN TcFields
BY DEF TcFields, TcGroups

LEMMA TcNativeTable ==
  /\ TcFields["pvid1"] = <<"native", 0, 12>> /\ TcFields["pcp1"] = <<"native", 13, 3>>
  /\ TcFields["pvid2"] = <<"native", 16, 12>> /\ TcFields["pcp2"] = <<"native", 29, 3>>
  /\ TcGroups["native"] = {"pvid1", "pcp1", "pvid2", "pcp2"} /\ TcGroups["native"] \subseteq DOMAIN TcFields
BY DEF TcFields, TcGroups

\* The fields of a register have room in it, side by side.
TcLaidOut(F) == \A f \in F : TcWidthOk(f) /\ \A g \in F \ {f} : TcApart(f, g)

LEMMA TcLayout ==
  /\ TcLaidOut({"en"}) /\ TcLaidOut({"timer", "frag", "verify"}) /\ TcLaidOut({"window", "guard", "hold", "rel"})
  /\ TcLaidOut({"pid", "size"}) /\ TcLaidOut({"cir"}) /\ TcLaidOut({"eir"}) /\ TcLaidOut({"cbr"})
  /\ TcLaidOut({"ebr", "mode"}) /\ TcLaidOut({"port", "seq"}) /\ TcLaidOut({"hist", "egport", "vlan"})
  /\ TcLaidOut({"ticks"}) /\ TcLaidOut({"agetime", "aging", "untag", "learning"}) /\ TcLaidOut({"t1", "t2"})
  /\ TcLaidOut({"max"}) /\ TcLaidOut({"type1", "type2"}) /\ TcLaidOut({"pvid1", "pcp1", "pvid2", "pcp2"})
<1>1. TcLaidOut({"en"}) /\ TcLaidOut({"timer", "frag", "verify"})
  BY TcPreTable DEF TcLaidOut, TcWidthOk, TcApart
<1>2. TcLaidOut({"window", "guard", "hold", "rel"})
  BY TcQbuTable DEF TcLaidOut, TcWidthOk, TcApart
<1>3. TcLaidOut({"pid", "size"})
  BY TcFilterTable DEF TcLaidOut, TcWidthOk, TcApart
<1>4. TcLaidOut({"cir"}) /\ TcLaidOut({"eir"}) /\ TcLaidOut({"cbr"}) /\ TcLaidOut({"ebr", "mode"})
  BY TcMeterTable DEF TcLaidOut, TcWidthOk, TcApart
<1>5. TcLaidOut({"port", "seq"}) /\ TcLaidOut({"hist", "egport", "vlan"}) /\ TcLaidOut({"ticks"})
  BY TcCbTable DEF TcLaidOut, TcWidthOk, TcApart
<1>6. TcLaidOut({"agetime", "aging", "untag", "learning"})
  BY TcLearnTable DEF TcLaidOut, TcWidthOk, TcApart
<1>7. TcLaidOut({"t1", "t2"}) /\ TcLaidOut({"max"}) /\ TcLaidOut({"type1", "type2"})
  BY TcRegsTable DEF TcLaidOut, TcWidthOk, TcApart
<1>8. TcLaidOut({"pvid1", "pcp1", "pvid2", "pcp2"})
  BY TcNativeTable DEF TcLaidOut, TcWidthOk, TcApart
<1>9. QED
  BY <1>1, <1>2, <1>3, <1>4, <1>5, <1>6, <1>7, <1>8

LEMMA TcGroupNames ==
  DOMAIN TcGroups = {"pre", "qbu", "meter", "filter", "cb", "learn", "regs", "native"}
BY DEF TcGroups

LEMMA TcGroupOk ==
  ASSUME NEW group \in DOMAIN TcGroups, NEW f \in TcGroups[group]
  PROVE  TcWidthOk(f) /\ f \in DOMAIN TcFields
<1>1. CASE group = "pre"
  BY <1>1, TcPreTable, TcLayout DEF TcLaidOut
<1>2. CASE group = "qbu"
  BY <1>2, TcQbuTable, TcLayout DEF TcLaidOut
<1>3. CASE group = "meter"
  BY <1>3, TcMeterTable, TcLayout DEF TcLaidOut
<1>4. CASE group = "filter"
  BY <1>4, TcFilterTable, TcLayout DEF TcLaidOut
<1>5. CASE group = "cb"
  BY <1>5, TcCbTable, TcLayout DEF TcLaidOut
<1>6. CASE group = "learn"
  BY <1>6, TcLearnTable, TcLayout DEF TcLaidOut
<1>7. CASE group = "regs"
  BY <1>7, TcRegsTable, TcLayout DEF TcLaidOut
<1>8. CASE group = "native"
  BY <1>8, TcNativeTable, TcLayout DEF TcLaidOut
<1>9. QED
  BY <1>1, <1>2, <1>3, <1>4, <1>5, <1>6, <1>7, <1>8, TcGroupNames

LEMMA TcStarts == TcInit => TcInv
<1> SUFFICES ASSUME TcInit PROVE TcInv
  OBVIOUS
<1>1. /\ tcGroup \in DOMAIN TcGroups /\ tcReg = [r \in {TcFields[f][1] : f \in DOMAIN TcFields} |-> {}]
      /\ tcWant = [f \in DOMAIN TcFields |-> {}] /\ tcSpoilt = FALSE
  BY DEF TcInit
<1>3. ASSUME NEW f \in TcGroups[tcGroup]
      PROVE  TcFields[f][1] \in DOMAIN tcReg /\ TcHas(tcReg[TcFields[f][1]], f, tcWant[f])
  <2>1. f \in DOMAIN TcFields
    BY <1>1, <1>3, TcGroupOk
  <2>2. TcFields[f][1] \in DOMAIN tcReg /\ tcReg[TcFields[f][1]] = {} /\ tcWant[f] = {}
    BY <1>1, <2>1
  <2>3. QED
    BY <2>2 DEF TcHas
<1>4. QED
  BY <1>1, <1>3 DEF TcInv

\* Putting a value into one of the fields F
LEMMA TcPutGives ==
  ASSUME NEW F, TcLaidOut(F), NEW f \in F, NEW g \in F, NEW v, TcFits(f, v), NEW r, NEW x,
         IF g = f THEN x = v ELSE TcHas(r, g, x)
  PROVE  TcHas(TcPut(r, f, v), g, x)
<1>1. TcWidthOk(f) /\ TcWidthOk(g) /\ (g # f => TcApart(f, g))
  BY DEF TcLaidOut
<1>2. CASE g = f
  BY <1>1, <1>2, TcPutIs
<1>3. CASE g # f
  BY <1>1, <1>3, TcPutKeeps
<1>4. QED
  BY <1>2, <1>3

\* What a call asks for
TcAskedMeans(new, fs) ==
  /\ tcGroup' = tcGroup /\ tcSpoilt' \in BOOLEAN /\ DOMAIN tcWant' = DOMAIN TcFields
  /\ ~tcSpoilt' =>
       /\ \A f \in TcGroups[tcGroup] : TcHas(tcReg[TcFields[f][1]], f, tcWant[f])
       /\ \A f \in fs : new[f] = tcWant'[f] /\ TcMask(f, new[f]) = new[f] /\ TcFits(f, tcWant'[f])
       /\ \A f \in TcGroups[tcGroup] \ fs : tcWant'[f] = tcWant[f]

LEMMA TcAskedIs ==
  ASSUME TcInv, NEW new \in TcNews, NEW fs \in SUBSET TcGroups[tcGroup], TcAsked(fs, new)
  PROVE  TcAskedMeans(new, fs)
<1>1. /\ tcWant' = [f \in DOMAIN tcWant |-> IF f \in fs THEN TcMask(f, new[f]) ELSE tcWant[f]]
      /\ tcSpoilt' = (tcSpoilt \/ \E f \in fs : TcMask(f, new[f]) # new[f])
      /\ tcGroup' = tcGroup /\ tcSpoilt \in BOOLEAN /\ DOMAIN tcWant = DOMAIN TcFields /\ tcGroup \in DOMAIN TcGroups
  BY DEF TcAsked, TcInv
<1>2. ASSUME NEW f \in fs PROVE new[f] \in SUBSET Nat
  <2>1. new[f] \in TcValues(f)
    BY DEF TcNews
  <2>2. TcWidthOk(f)
    BY <1>1, TcGroupOk
  <2>3. QED
    BY <2>1, <2>2, TcValueTypes
<1>3. \A f \in TcGroups[tcGroup] : f \in DOMAIN TcFields
  BY <1>1, TcGroupOk
<1>4. tcSpoilt' \in BOOLEAN
  BY <1>1
<1>5. ASSUME ~tcSpoilt' PROVE ~tcSpoilt /\ \A f \in fs : TcMask(f, new[f]) = new[f]
  BY <1>1, <1>5
<1>6. ASSUME ~tcSpoilt', NEW f \in fs
      PROVE  new[f] = tcWant'[f] /\ TcMask(f, new[f]) = new[f] /\ TcFits(f, tcWant'[f])
  BY <1>1, <1>2, <1>3, <1>5, <1>6 DEF TcFits
<1>7. \A f \in TcGroups[tcGroup] \ fs : tcWant'[f] = tcWant[f]
  BY <1>1, <1>3
<1>8. ~tcSpoilt' => \A f \in TcGroups[tcGroup] : TcHas(tcReg[TcFields[f][1]], f, tcWant[f])
  BY <1>5 DEF TcInv
<1>9. DOMAIN tcWant' = DOMAIN TcFields
  BY <1>1
<1>10. QED
  BY <1>1, <1>4, <1>6, <1>7, <1>8, <1>9 DEF TcAskedMeans

LEMMA TcFinish ==
  ASSUME TcInv, NEW new, NEW fs, TcAskedMeans(new, fs), DOMAIN tcReg' = DOMAIN tcReg,
         ~tcSpoilt' => \A f \in TcGroups[tcGroup] : TcHas(tcReg'[TcFields[f][1]], f, tcWant'[f])
  PROVE  TcInv'
BY DEF TcInv, TcAskedMeans

LEMMA TcPreemptionKeeps == ASSUME TcInv, tcGroup = "pre", NEW new \in TcNews, TcPreemption(new) PROVE TcInv'
<1>1. TcAskedMeans(new, {"en"})
  BY TcPreTable, TcAskedIs DEF TcPreemption
<1>2. /\ tcReg' = [tcReg EXCEPT !["preempt"] = TcMask("en", new["en"])]
      /\ "preempt" \in DOMAIN tcReg
  BY TcPreTable DEF TcPreemption, TcInv
<1>3. /\ tcReg'["preempt"] = TcMask("en", new["en"]) /\ tcReg'["ctrl"] = tcReg["ctrl"]
      /\ DOMAIN tcReg' = DOMAIN tcReg
  BY <1>2
<1>4. ASSUME ~tcSpoilt', NEW f \in TcGroups["pre"] PROVE TcHas(tcReg'[TcFields[f][1]], f, tcWant'[f])
  <2>1. CASE f = "en"
    <3>1. tcReg'["preempt"] = tcWant'["en"] /\ TcFits("en", tcWant'["en"])
      BY <1>1, <1>3, <1>4 DEF TcAskedMeans
    <3>2. TcWidthOk("en") /\ TcFields["en"][2] = 0 /\ TcFields["en"][1] = "preempt"
      BY TcLayout, TcPreTable DEF TcLaidOut
    <3>3. QED
      BY <2>1, <3>1, <3>2, TcShiftReads
  <2>2. CASE f # "en"
    <3>1. tcWant'[f] = tcWant[f] /\ TcHas(tcReg[TcFields[f][1]], f, tcWant[f])
      BY <1>1, <1>4, <2>2 DEF TcAskedMeans
    <3>2. TcFields[f][1] = "ctrl"
      BY <1>4, <2>2, TcPreTable
    <3>3. QED
      BY <1>3, <3>1, <3>2
  <2>3. QED
    BY <2>1, <2>2
<1>5. QED
  BY <1>1, <1>3, <1>4, TcFinish

LEMMA TcPreemptionCtrlKeeps == ASSUME TcInv, tcGroup = "pre", NEW new \in TcNews, TcPreemptionCtrl(new) PROVE TcInv'
<1> DEFINE F == {"timer", "frag", "verify"}
           r1 == TcPut(tcReg["ctrl"], "timer", new["timer"])
           r2 == TcPut(r1, "frag", new["frag"])
           r3 == TcPut(r2, "verify", new["verify"])
<1>1. TcAskedMeans(new, F)
  BY TcPreTable, TcAskedIs DEF TcPreemptionCtrl
<1>2. /\ tcReg' = [tcReg EXCEPT !["ctrl"] = r3]
      /\ "ctrl" \in DOMAIN tcReg
  BY TcPreTable DEF TcPreemptionCtrl, TcInv
<1>3. /\ tcReg'["ctrl"] = r3 /\ tcReg'["preempt"] = tcReg["preempt"]
      /\ DOMAIN tcReg' = DOMAIN tcReg
  <2> HIDE DEF r3
  <2>1. QED
    BY <1>2
<1>4. ASSUME ~tcSpoilt' PROVE \A f \in F : TcHas(r3, f, tcWant'[f])
  <2>1. \A f \in F : new[f] = tcWant'[f] /\ TcFits(f, tcWant'[f])
    BY <1>1, <1>4 DEF TcAskedMeans
  <2>2. TcLaidOut(F)
    BY TcLayout
  <2>3. TcHas(r1, "timer", tcWant'["timer"])
    BY <2>1, <2>2, TcPutGives
  <2>4. TcHas(r2, "timer", tcWant'["timer"]) /\ TcHas(r2, "frag", tcWant'["frag"])
    <3> HIDE DEF r1
    <3>1. QED
      BY <2>1, <2>2, <2>3, TcPutGives
  <2>5. /\ TcHas(r3, "timer", tcWant'["timer"]) /\ TcHas(r3, "frag", tcWant'["frag"])
        /\ TcHas(r3, "verify", tcWant'["verify"])
    <3> HIDE DEF r2
    <3>1. QED
      BY <2>1, <2>2, <2>4, TcPutGives
  <2> HIDE DEF r3
  <2>6. QED
    BY <2>5
<1> HIDE DEF r3
<1>5. ASSUME ~tcSpoilt', NEW f \in TcGroups["pre"] PROVE TcHas(tcReg'[TcFields[f][1]], f, tcWant'[f])
  <2>1. CASE f \in F
    BY <1>3, <1>4, <1>5, <2>1, TcPreTable
  <2>2. CASE f \notin F
    <3>1. tcWant'[f] = tcWant[f] /\ TcHas(tcReg[TcFields[f][1]], f, tcWant[f])
      BY <1>1, <1>5, <2>2 DEF TcAskedMeans
    <3>2. TcFields[f][1] = "preempt"
      BY <1>5, <2>2, TcPreTable
    <3>3. QED
      BY <1>3, <3>1, <3>2
  <2>3. QED
    BY <2>1, <2>2
<1>6. QED
  BY <1>1, <1>3, <1>5, TcFinish

\* A field and the bit that tells whether it is overridden
LEMMA TcOverrideGives ==
  ASSUME NEW F, TcLaidOut(F), NEW f \in F, NEW g \in F, NEW v, TcFits(f, v), NEW r, NEW x,
         IF g = f THEN x = v ELSE TcHas(r, g, x), NEW bit, bit \notin TcBitsOf(g)
  PROVE  TcHas(TcOverride(r, bit, f, v), g, x)
<1> DEFINE marked == IF v # {} THEN r \cup {bit} ELSE r \ {bit}
<1>1. g # f => TcHas(marked, g, x)
  BY TcBitKeeps
<1>2. TcOverride(r, bit, f, v) = TcPut(marked, f, v)
  BY DEF TcOverride
<1> HIDE DEF marked
<1>3. IF g = f THEN x = v ELSE TcHas(marked, g, x)
  BY <1>1
<1>4. QED
  BY <1>2, <1>3, TcPutGives

LEMMA TcQbuOverrideKeeps ==
  ASSUME TcInv, tcGroup = "qbu", NEW new \in TcNews, NEW set \in SUBSET TcGroups["qbu"], TcQbuOverride(set, new)
  PROVE  TcInv'
<1> DEFINE F == {"window", "guard", "hold", "rel"}
           r0 == tcReg["qbu"]
           r1 == IF "window" \in set THEN TcOverride(r0, 2, "window", new["window"]) ELSE r0
           r2 == IF "guard" \in set THEN TcPut(r1, "guard", new["guard"]) ELSE r1
           r3 == IF "hold" \in set THEN TcOverride(r2, 1, "hold", new["hold"]) ELSE r2
           r4 == IF "rel" \in set THEN TcOverride(r3, 0, "rel", new["rel"]) ELSE r3
<1>1. TcAskedMeans(new, set)
  BY TcAskedIs DEF TcQbuOverride
<1>2. tcReg' = [tcReg EXCEPT !["qbu"] = r4] /\ "qbu" \in DOMAIN tcReg
  BY TcQbuTable DEF TcQbuOverride, TcInv
<1>3. tcReg'["qbu"] = r4 /\ DOMAIN tcReg' = DOMAIN tcReg
  <2> HIDE DEF r4
  <2>1. QED
    BY <1>2
<1>4. ASSUME ~tcSpoilt' PROVE \A f \in F : TcHas(r4, f, tcWant'[f])
  <2>1. \A f \in set : new[f] = tcWant'[f] /\ TcFits(f, tcWant'[f])
    BY <1>1, <1>4 DEF TcAskedMeans
  <2>2. \A f \in F \ set : TcHas(r0, f, tcWant'[f])
    <3>1. \A f \in F : f \in TcGroups[tcGroup] /\ TcFields[f][1] = "qbu"
      BY TcQbuTable
    <3>2. QED
      BY <1>1, <1>4, <3>1 DEF TcAskedMeans
  <2>3. TcLaidOut(F)
    BY TcLayout
  <2>4. \A f \in F : 0 \notin TcBitsOf(f) /\ 1 \notin TcBitsOf(f) /\ 2 \notin TcBitsOf(f)
    BY TcQbuTable DEF TcBitsOf
  <2> HIDE DEF r0
  <2>5. /\ "guard" \notin set => TcHas(r1, "guard", tcWant'["guard"])
        /\ "hold" \notin set => TcHas(r1, "hold", tcWant'["hold"])
        /\ "rel" \notin set => TcHas(r1, "rel", tcWant'["rel"])
        /\ TcHas(r1, "window", tcWant'["window"])
    <3>1. CASE "window" \in set
      <4>1. r1 = TcOverride(r0, 2, "window", tcWant'["window"]) /\ TcFits("window", tcWant'["window"])
        BY <2>1, <3>1
      <4> HIDE DEF r1
      <4>2. \A g \in F : g = "window" \/ g \notin set => TcHas(r1, g, tcWant'[g])
        BY <2>2, <2>3, <2>4, <4>1, TcOverrideGives
      <4>3. QED
        BY <4>2
    <3>2. CASE "window" \notin set
      BY <2>2, <3>2
    <3>3. QED
      BY <3>1, <3>2
  <2>6. /\ "hold" \notin set => TcHas(r2, "hold", tcWant'["hold"])
        /\ "rel" \notin set => TcHas(r2, "rel", tcWant'["rel"])
        /\ TcHas(r2, "window", tcWant'["window"]) /\ TcHas(r2, "guard", tcWant'["guard"])
    <3> HIDE DEF r1
    <3>1. QED
      BY <2>1, <2>3, <2>5, TcPutGives
  <2>7. /\ "rel" \notin set => TcHas(r3, "rel", tcWant'["rel"])
        /\ TcHas(r3, "window", tcWant'["window"]) /\ TcHas(r3, "guard", tcWant'["guard"])
        /\ TcHas(r3, "hold", tcWant'["hold"])
    <3> HIDE DEF r2
    <3>1. CASE "hold" \in set
      <4>1. r3 = TcOverride(r2, 1, "hold", tcWant'["hold"]) /\ TcFits("hold", tcWant'["hold"])
        BY <2>1, <3>1
      <4> HIDE DEF r3
      <4>2. \A g \in F : g # "rel" \/ "rel" \notin set => TcHas(r3, g, tcWant'[g])
        BY <2>6, <2>3, <2>4, <4>1, TcOverrideGives
      <4>3. QED
        BY <4>2
    <3>2. CASE "hold" \notin set
      BY <2>6, <3>2
    <3>3. QED
      BY <3>1, <3>2
  <2>8. /\ TcHas(r4, "window", tcWant'["window"]) /\ TcHas(r4, "guard", tcWant'["guard"])
        /\ TcHas(r4, "hold", tcWant'["hold"]) /\ TcHas(r4, "rel", tcWant'["rel"])
    <3> HIDE DEF r3
    <3>1. CASE "rel" \in set
      <4>1. r4 = TcOverride(r3, 0, "rel", tcWant'["rel"]) /\ TcFits("rel", tcWant'["rel"])
        BY <2>1, <3>1
      <4> HIDE DEF r4
      <4>2. \A g \in F : TcHas(r4, g, tcWant'[g])
        BY <2>7, <2>3, <2>4, <4>1, TcOverrideGives
      <4>3. QED
        BY <4>2
    <3>2. CASE "rel" \notin set
      BY <2>7, <3>2
    <3>3. QED
      BY <3>1, <3>2
  <2> HIDE DEF r4
  <2>9. QED
    BY <2>8
<1> HIDE DEF r4
<1>5. ASSUME ~tcSpoilt', NEW f \in TcGroups["qbu"] PROVE TcHas(tcReg'[TcFields[f][1]], f, tcWant'[f])
  BY <1>3, <1>4, <1>5, TcQbuTable
<1>6. QED
  BY <1>1, <1>3, <1>5, TcFinish

LEMMA TcStreamFilterKeeps == ASSUME TcInv, tcGroup = "filter", NEW new \in TcNews, TcStreamFilter(new) PROVE TcInv'
<1> DEFINE F == {"pid", "size"}
           r1 == TcPut({}, "pid", TcMask("pid", new["pid"]))
           r2 == TcPut(r1, "size", TcMask("size", new["size"]))
<1>1. TcAskedMeans(new, F)
  BY TcFilterTable, TcAskedIs DEF TcStreamFilter
<1>2. tcReg' = [tcReg EXCEPT !["filter"] = r2] /\ "filter" \in DOMAIN tcReg
  BY TcFilterTable DEF TcStreamFilter, TcInv
<1>3. tcReg'["filter"] = r2 /\ DOMAIN tcReg' = DOMAIN tcReg
  <2> HIDE DEF r2
  <2>1. QED
    BY <1>2
<1>4. ASSUME ~tcSpoilt' PROVE TcHas(r2, "pid", tcWant'["pid"]) /\ TcHas(r2, "size", tcWant'["size"])
  <2>1. \A f \in F : TcMask(f, new[f]) = tcWant'[f] /\ TcFits(f, tcWant'[f])
    BY <1>1, <1>4 DEF TcAskedMeans
  <2>2. TcLaidOut(F)
    BY TcLayout
  <2>3. TcHas(r1, "pid", tcWant'["pid"])
    BY <2>1, <2>2, TcPutGives
  <2> HIDE DEF r1
  <2>4. QED
    BY <2>1, <2>2, <2>3, TcPutGives
<1> HIDE DEF r2
<1>5. ASSUME ~tcSpoilt', NEW f \in TcGroups["filter"] PROVE TcHas(tcReg'[TcFields[f][1]], f, tcWant'[f])
  BY <1>3, <1>4, <1>5, TcFilterTable
<1>6. QED
  BY <1>1, <1>3, <1>5, TcFinish

LEMMA TcMeterKeeps == ASSUME TcInv, tcGroup = "meter", NEW new \in TcNews, TcMeter(new) PROVE TcInv'
<1> DEFINE F == {"cir", "eir", "cbr", "ebr", "mode"}
           r1 == TcPut({}, "ebr", TcMask("ebr", new["ebr"]))
           r2 == TcPut(r1, "mode", new["mode"])
<1>1. TcAskedMeans(new, F)
  BY TcMeterTable, TcAskedIs DEF TcMeter
<1>2. /\ tcReg' = [tcReg EXCEPT !["cir"] = TcShift("cir", new["cir"]), !["eir"] = TcShift("eir", new["eir"]),
                                !["cbr"] = TcMask("cbr", new["cbr"]), !["ebr"] = r2]
      /\ {"cir", "eir", "cbr", "ebr"} \subseteq DOMAIN tcReg
  BY TcMeterTable DEF TcMeter, TcInv
<1>3. /\ tcReg'["cir"] = TcShift("cir", new["cir"]) /\ tcReg'["eir"] = TcShift("eir", new["eir"])
      /\ tcReg'["cbr"] = TcMask("cbr", new["cbr"]) /\ tcReg'["ebr"] = r2 /\ DOMAIN tcReg' = DOMAIN tcReg
  <2> HIDE DEF r2
  <2>1. QED
    BY <1>2
<1>4. ASSUME ~tcSpoilt' PROVE \A f \in F : TcHas(tcReg'[TcFields[f][1]], f, tcWant'[f])
  <2>1. \A f \in F : TcMask(f, new[f]) = tcWant'[f] /\ new[f] = tcWant'[f] /\ TcFits(f, tcWant'[f])
    BY <1>1, <1>4 DEF TcAskedMeans
  <2>2. TcLaidOut({"ebr", "mode"}) /\ TcWidthOk("cir") /\ TcWidthOk("eir") /\ TcWidthOk("cbr")
    BY TcLayout DEF TcLaidOut
  <2>3. TcHas(r1, "ebr", tcWant'["ebr"])
    BY <2>1, <2>2, TcPutGives
  <2>4. TcHas(r2, "ebr", tcWant'["ebr"]) /\ TcHas(r2, "mode", tcWant'["mode"])
    <3> HIDE DEF r1
    <3>1. QED
      BY <2>1, <2>2, <2>3, TcPutGives
  <2>5. /\ TcHas(TcShift("cir", new["cir"]), "cir", tcWant'["cir"])
        /\ TcHas(TcShift("eir", new["eir"]), "eir", tcWant'["eir"])
    BY <2>1, <2>2, TcShiftReads
  <2>6. TcHas(TcMask("cbr", new["cbr"]), "cbr", tcWant'["cbr"])
    BY <2>1, <2>2, TcShiftReads, TcMeterTable
  <2> HIDE DEF r2
  <2>7. QED
    BY <1>3, <2>4, <2>5, <2>6, TcMeterTable
<1>5. QED
  BY <1>1, <1>3, <1>4, TcFinish, TcMeterTable

LEMMA TcIngressFilterKeeps == ASSUME TcInv, tcGroup = "cb", NEW new \in TcNews, TcIngressFilter(new) PROVE TcInv'
<1> DEFINE fs == {"port", "hist", "ticks"}
           ri == TcPut(tcReg["ingress"], "port", TcMask("port", new["port"]))
           r1 == TcPut(tcReg["frer1"], "hist", TcMask("hist", new["hist"]))
           r2 == TcPut(tcReg["frer2"], "ticks", new["ticks"])
<1>1. TcAskedMeans(new, fs)
  BY TcCbTable, TcAskedIs DEF TcIngressFilter
<1>2. /\ tcReg' = [tcReg EXCEPT !["ingress"] = ri, !["frer1"] = r1, !["frer2"] = r2]
      /\ {"ingress", "frer1", "frer2"} \subseteq DOMAIN tcReg
  BY TcCbTable DEF TcIngressFilter, TcInv
<1>3. tcReg'["ingress"] = ri /\ tcReg'["frer1"] = r1 /\ tcReg'["frer2"] = r2 /\ DOMAIN tcReg' = DOMAIN tcReg
  <2> HIDE DEF ri, r1, r2
  <2>1. QED
    BY <1>2
<1>4. ASSUME ~tcSpoilt' PROVE \A f \in TcGroups["cb"] : TcHas(tcReg'[TcFields[f][1]], f, tcWant'[f])
  <2>1. \A f \in fs : TcMask(f, new[f]) = tcWant'[f] /\ new[f] = tcWant'[f] /\ TcFits(f, tcWant'[f])
    BY <1>1, <1>4 DEF TcAskedMeans
  <2>2. \A f \in TcGroups["cb"] \ fs : tcWant'[f] = tcWant[f] /\ TcHas(tcReg[TcFields[f][1]], f, tcWant[f])
    BY <1>1, <1>4 DEF TcAskedMeans
  <2>3. TcLaidOut({"port", "seq"}) /\ TcLaidOut({"hist", "egport", "vlan"}) /\ TcLaidOut({"ticks"})
    BY TcLayout
  <2>4. /\ TcHas(tcReg["ingress"], "seq", tcWant'["seq"]) /\ TcHas(tcReg["frer1"], "egport", tcWant'["egport"])
        /\ TcHas(tcReg["frer1"], "vlan", tcWant'["vlan"])
    BY <2>2, TcCbTable
  <2>5. TcHas(ri, "port", tcWant'["port"]) /\ TcHas(ri, "seq", tcWant'["seq"])
    BY <2>1, <2>3, <2>4, TcPutGives
  <2>6. /\ TcHas(r1, "hist", tcWant'["hist"]) /\ TcHas(r1, "egport", tcWant'["egport"])
        /\ TcHas(r1, "vlan", tcWant'["vlan"])
    BY <2>1, <2>3, <2>4, TcPutGives
  <2>7. TcHas(r2, "ticks", tcWant'["ticks"])
    BY <2>1, <2>3, TcPutGives
  <2> HIDE DEF ri, r1, r2
  <2>8. QED
    BY <1>3, <2>5, <2>6, <2>7, TcCbTable
<1>5. QED
  BY <1>1, <1>3, <1>4, TcFinish

LEMMA TcMemberKeeps == ASSUME TcInv, tcGroup = "cb", NEW new \in TcNews, TcMember(new) PROVE TcInv'
<1> DEFINE fs == {"egport", "vlan", "ticks", "seq"}
           r0 == TcPut(tcReg["frer1"], "egport", TcMask("egport", new["egport"]))
           r1 == TcPut(r0, "vlan", TcMask("vlan", new["vlan"]))
           ri == TcPut(tcReg["ingress"], "seq", TcMask("seq", new["seq"]))
<1>1. TcAskedMeans(new, fs)
  BY TcCbTable, TcAskedIs DEF TcMember
<1>2. /\ tcReg' = [tcReg EXCEPT !["frer1"] = r1, !["frer2"] = new["ticks"], !["ingress"] = ri]
      /\ {"ingress", "frer1", "frer2"} \subseteq DOMAIN tcReg
  BY TcCbTable DEF TcMember, TcInv
<1>3. tcReg'["ingress"] = ri /\ tcReg'["frer1"] = r1 /\ tcReg'["frer2"] = new["ticks"] /\ DOMAIN tcReg' = DOMAIN tcReg
  <2> HIDE DEF ri, r1
  <2>1. QED
    BY <1>2
<1>4. ASSUME ~tcSpoilt' PROVE \A f \in TcGroups["cb"] : TcHas(tcReg'[TcFields[f][1]], f, tcWant'[f])
  <2>1. \A f \in fs : TcMask(f, new[f]) = tcWant'[f] /\ new[f] = tcWant'[f] /\ TcFits(f, tcWant'[f])
    BY <1>1, <1>4 DEF TcAskedMeans
  <2>2. \A f \in TcGroups["cb"] \ fs : tcWant'[f] = tcWant[f] /\ TcHas(tcReg[TcFields[f][1]], f, tcWant[f])
    BY <1>1, <1>4 DEF TcAskedMeans
  <2>3. TcLaidOut({"port", "seq"}) /\ TcLaidOut({"hist", "egport", "vlan"}) /\ TcWidthOk("ticks")
    BY TcLayout DEF TcLaidOut
  <2>4. /\ TcHas(tcReg["ingress"], "port", tcWant'["port"]) /\ TcHas(tcReg["frer1"], "hist", tcWant'["hist"])
    BY <2>2, TcCbTable
  <2>5. TcHas(ri, "port", tcWant'["port"]) /\ TcHas(ri, "seq", tcWant'["seq"])
    BY <2>1, <2>3, <2>4, TcPutGives
  <2>6. TcHas(r0, "hist", tcWant'["hist"]) /\ TcHas(r0, "egport", tcWant'["egport"])
    BY <2>1, <2>3, <2>4, TcPutGives
  <2>7. /\ TcHas(r1, "hist", tcWant'["hist"]) /\ TcHas(r1, "egport", tcWant'["egport"])
        /\ TcHas(r1, "vlan", tcWant'["vlan"])
    <3> HIDE DEF r0
    <3>1. QED
      BY <2>1, <2>3, <2>6, TcPutGives
  <2>8. TcHas(new["ticks"], "ticks", tcWant'["ticks"])
    BY <2>1, <2>3, TcShiftReads, TcCbTable
  <2> HIDE DEF ri, r1
  <2>9. QED
    BY <1>3, <2>5, <2>7, <2>8, TcCbTable
<1>5. QED
  BY <1>1, <1>3, <1>4, TcFinish

\* The bits of aging and learning are values of their fields.
LEMMA TcBitsAreNews ==
  ASSUME tcGroup = "learn", NEW new \in TcNews
  PROVE  /\ [f \in DOMAIN new |-> IF f \in TcSwitches THEN TcOff(new[f]) ELSE new[f]] \in TcNews
         /\ DOMAIN new = TcGroups["learn"]
<1> DEFINE fs == TcGroups["learn"]
           bits == [f \in DOMAIN new |-> IF f \in TcSwitches THEN TcOff(new[f]) ELSE new[f]]
<1>1. new \in [fs -> UNION {TcValues(f) : f \in fs}] /\ \A f \in fs : new[f] \in TcValues(f)
  BY DEF TcNews
<1>2. ASSUME NEW f \in TcSwitches, NEW v PROVE TcOff(v) \in TcValues(f)
  <2>1. TcFields[f][3] = 1
    BY TcLearnTable DEF TcSwitches
  <2>2. {} \in TcValues(f) /\ {0} \in TcValues(f)
    <3>1. {0, TcFields[f][3] - 1} = {0}
      BY <2>1
    <3>2. QED
      BY <3>1 DEF TcValues
  <2>3. TcOff(v) = {} \/ TcOff(v) = {0}
    BY DEF TcOff
  <2>4. QED
    BY <2>2, <2>3
<1>3. DOMAIN new = fs
  BY <1>1
<1>4. \A f \in fs : bits[f] \in TcValues(f)
  BY <1>1, <1>2, <1>3
<1>5. bits = [f \in fs |-> bits[f]]
  BY <1>3
<1> HIDE DEF bits
<1>6. bits \in [fs -> UNION {TcValues(f) : f \in fs}]
  BY <1>4, <1>5
<1>7. bits \in TcNews
  BY <1>4, <1>6 DEF TcNews
<1>8. QED
  BY <1>3, <1>7 DEF bits

LEMMA TcSetLearnKeeps ==
  ASSUME TcInv, tcGroup = "learn", NEW new \in TcNews, NEW set \in SUBSET TcGroups["learn"], TcSetLearn(set, new)
  PROVE  TcInv'
<1> DEFINE F == {"agetime", "aging", "untag", "learning"}
           marked == {f \in set : f = "agetime" => new[f] # {}}
           bits == [f \in DOMAIN new |-> IF f \in TcSwitches THEN TcOff(new[f]) ELSE new[f]]
           r0 == tcReg["learn"]
           r1 == IF "agetime" \in marked THEN TcPut(r0, "agetime", bits["agetime"]) ELSE r0
           r2 == IF "aging" \in marked THEN TcPut(r1, "aging", bits["aging"]) ELSE r1
           r3 == IF "learning" \in marked THEN TcPut(r2, "learning", bits["learning"]) ELSE r2
           r4 == IF "untag" \in marked THEN TcPut(r3, "untag", bits["untag"]) ELSE r3
<1>0. bits \in TcNews
  BY TcBitsAreNews
<1>1. TcAskedMeans(bits, marked)
  <2>1. TcAsked(marked, bits)
    BY DEF TcSetLearn
  <2>2. marked \in SUBSET TcGroups[tcGroup]
    OBVIOUS
  <2> HIDE DEF marked, bits
  <2>3. QED
    BY <1>0, <2>1, <2>2, TcAskedIs
<1>2. tcReg' = [tcReg EXCEPT !["learn"] = r4] /\ "learn" \in DOMAIN tcReg
  BY TcLearnTable DEF TcSetLearn, TcInv
<1>3. tcReg'["learn"] = r4 /\ DOMAIN tcReg' = DOMAIN tcReg
  <2> HIDE DEF r4
  <2>1. QED
    BY <1>2
<1> HIDE DEF marked, bits
<1>4. ASSUME ~tcSpoilt' PROVE \A f \in F : TcHas(r4, f, tcWant'[f])
  <2>1. \A f \in marked : bits[f] = tcWant'[f] /\ TcFits(f, tcWant'[f])
    BY <1>1, <1>4 DEF TcAskedMeans
  <2>2. \A f \in F \ marked : TcHas(r0, f, tcWant'[f])
    <3>1. \A f \in F : f \in TcGroups[tcGroup] /\ TcFields[f][1] = "learn"
      BY TcLearnTable
    <3>2. QED
      BY <1>1, <1>4, <3>1 DEF TcAskedMeans
  <2>3. TcLaidOut(F)
    BY TcLayout
  <2> HIDE DEF r0
  <2>4. /\ "aging" \notin marked => TcHas(r1, "aging", tcWant'["aging"])
        /\ "learning" \notin marked => TcHas(r1, "learning", tcWant'["learning"])
        /\ "untag" \notin marked => TcHas(r1, "untag", tcWant'["untag"])
        /\ TcHas(r1, "agetime", tcWant'["agetime"])
    BY <2>1, <2>2, <2>3, TcPutGives
  <2>5. /\ "learning" \notin marked => TcHas(r2, "learning", tcWant'["learning"])
        /\ "untag" \notin marked => TcHas(r2, "untag", tcWant'["untag"])
        /\ TcHas(r2, "agetime", tcWant'["agetime"]) /\ TcHas(r2, "aging", tcWant'["aging"])
    <3> HIDE DEF r1
    <3>1. QED
      BY <2>1, <2>3, <2>4, TcPutGives
  <2>6. /\ "untag" \notin marked => TcHas(r3, "untag", tcWant'["untag"])
        /\ TcHas(r3, "agetime", tcWant'["agetime"]) /\ TcHas(r3, "aging", tcWant'["aging"])
        /\ TcHas(r3, "learning", tcWant'["learning"])
    <3> HIDE DEF r2
    <3>1. QED
      BY <2>1, <2>3, <2>5, TcPutGives
  <2>7. /\ TcHas(r4, "agetime", tcWant'["agetime"]) /\ TcHas(r4, "aging", tcWant'["aging"])
        /\ TcHas(r4, "learning", tcWant'["learning"]) /\ TcHas(r4, "untag", tcWant'["untag"])
    <3> HIDE DEF r3
    <3>1. QED
      BY <2>1, <2>3, <2>6, TcPutGives
  <2> HIDE DEF r4
  <2>8. QED
    BY <2>7
<1> HIDE DEF r4
<1>5. ASSUME ~tcSpoilt', NEW f \in TcGroups["learn"] PROVE TcHas(tcReg'[TcFields[f][1]], f, tcWant'[f])
  BY <1>3, <1>4, <1>5, TcLearnTable
<1>6. QED
  BY <1>1, <1>3, <1>5, TcFinish

LEMMA TcSwitchRegsKeeps == ASSUME TcInv, tcGroup = "regs", NEW new \in TcNews, TcSwitchRegs(new) PROVE TcInv'
<1> DEFINE fs == {"t1", "t2", "max"}
           rf == TcShift("t1", new["t1"]) \cup TcShift("t2", new["t2"])
<1>1. TcAskedMeans(new, fs)
  BY TcRegsTable, TcAskedIs DEF TcSwitchRegs
<1>2. /\ tcReg' = [tcReg EXCEPT !["fifo"] = rf, !["max"] = TcShift("max", new["max"])]
      /\ {"fifo", "max", "type"} \subseteq DOMAIN tcReg
  BY TcRegsTable DEF TcSwitchRegs, TcInv
<1>3. /\ tcReg'["fifo"] = rf /\ tcReg'["max"] = TcShift("max", new["max"]) /\ tcReg'["type"] = tcReg["type"]
      /\ DOMAIN tcReg' = DOMAIN tcReg
  <2> HIDE DEF rf
  <2>1. QED
    BY <1>2
<1>4. ASSUME ~tcSpoilt' PROVE \A f \in TcGroups["regs"] : TcHas(tcReg'[TcFields[f][1]], f, tcWant'[f])
  <2>1. \A f \in fs : new[f] = tcWant'[f] /\ TcFits(f, tcWant'[f])
    BY <1>1, <1>4 DEF TcAskedMeans
  <2>2. \A f \in TcGroups["regs"] \ fs : tcWant'[f] = tcWant[f] /\ TcHas(tcReg[TcFields[f][1]], f, tcWant[f])
    BY <1>1, <1>4 DEF TcAskedMeans
  <2>3. TcWidthOk("t1") /\ TcWidthOk("t2") /\ TcApart("t1", "t2") /\ TcWidthOk("max")
    BY TcLayout DEF TcLaidOut
  <2>4. TcHas(rf, "t1", tcWant'["t1"]) /\ TcHas(rf, "t2", tcWant'["t2"])
    BY <2>1, <2>3, TcBothRead
  <2>5. TcHas(TcShift("max", new["max"]), "max", tcWant'["max"])
    BY <2>1, <2>3, TcShiftReads
  <2> HIDE DEF rf
  <2>6. QED
    BY <1>3, <2>2, <2>4, <2>5, TcRegsTable
<1>5. QED
  BY <1>1, <1>3, <1>4, TcFinish

LEMMA TcFrameFilterKeeps == ASSUME TcInv, tcGroup = "regs", NEW new \in TcNews, TcFrameFilter(new) PROVE TcInv'
<1> DEFINE set == {f \in {"type1", "type2"} : new[f] # {}}
           r0 == tcReg["type"]
           r1 == IF "type1" \in set THEN TcPut(r0, "type1", new["type1"]) ELSE r0
           r2 == IF "type2" \in set THEN TcPut(r1, "type2", new["type2"]) ELSE r1
<1>1. TcAskedMeans(new, set)
  <2>1. TcAsked(set, new)
    BY DEF TcFrameFilter
  <2>2. set \in SUBSET TcGroups[tcGroup]
    BY TcRegsTable
  <2> HIDE DEF set
  <2>3. QED
    BY <2>1, <2>2, TcAskedIs
<1>2. /\ tcReg' = [tcReg EXCEPT !["type"] = r2] /\ {"fifo", "max", "type"} \subseteq DOMAIN tcReg
  BY TcRegsTable DEF TcFrameFilter, TcInv
<1>3. /\ tcReg'["type"] = r2 /\ tcReg'["fifo"] = tcReg["fifo"] /\ tcReg'["max"] = tcReg["max"]
      /\ DOMAIN tcReg' = DOMAIN tcReg
  <2> HIDE DEF r2
  <2>1. QED
    BY <1>2
<1>4. set \subseteq {"type1", "type2"}
  OBVIOUS
<1> HIDE DEF set
<1>5. ASSUME ~tcSpoilt' PROVE \A f \in TcGroups["regs"] : TcHas(tcReg'[TcFields[f][1]], f, tcWant'[f])
  <2>1. \A f \in set : new[f] = tcWant'[f] /\ TcFits(f, tcWant'[f])
    BY <1>1, <1>5 DEF TcAskedMeans
  <2>2. \A f \in TcGroups["regs"] \ set : tcWant'[f] = tcWant[f] /\ TcHas(tcReg[TcFields[f][1]], f, tcWant[f])
    BY <1>1, <1>5 DEF TcAskedMeans
  <2>3. TcLaidOut({"type1", "type2"})
    BY TcLayout
  <2>4. \A f \in {"type1", "type2"} \ set : TcHas(r0, f, tcWant'[f])
    BY <2>2, TcRegsTable
  <2> HIDE DEF r0
  <2>5. TcHas(r1, "type1", tcWant'["type1"]) /\ ("type2" \notin set => TcHas(r1, "type2", tcWant'["type2"]))
    BY <2>1, <2>3, <2>4, TcPutGives
  <2>6. TcHas(r2, "type1", tcWant'["type1"]) /\ TcHas(r2, "type2", tcWant'["type2"])
    <3> HIDE DEF r1
    <3>1. QED
      BY <2>1, <2>3, <2>5, TcPutGives
  <2> HIDE DEF r2
  <2>7. QED
    BY <1>3, <1>4, <2>2, <2>6, TcRegsTable
<1>6. QED
  BY <1>1, <1>3, <1>5, TcFinish

LEMMA TcNativeKeeps ==
  ASSUME TcInv, tcGroup = "native", NEW new \in TcNews, NEW ipv \in BOOLEAN,
         NEW vlan \in {"pvid1", "pvid2"}, NEW pcp \in {"pcp1", "pcp2"}, TcNative(vlan, pcp, ipv, new)
  PROVE  TcInv'
<1> DEFINE F == {"pvid1", "pcp1", "pvid2", "pcp2"}
           set == {vlan} \cup (IF ipv THEN {pcp} ELSE {})
           r0 == tcReg["native"]
           r1 == TcPut(r0, vlan, new[vlan])
           r2 == IF ipv THEN TcPut(r1, pcp, new[pcp]) ELSE r1
<1>1. TcAskedMeans(new, set)
  <2>1. TcAsked(set, new)
    BY DEF TcNative
  <2>2. set \in SUBSET TcGroups[tcGroup]
    BY TcNativeTable
  <2> HIDE DEF set
  <2>3. QED
    BY <2>1, <2>2, TcAskedIs
<1>2. tcReg' = [tcReg EXCEPT !["native"] = r2] /\ "native" \in DOMAIN tcReg
  BY TcNativeTable DEF TcNative, TcInv
<1>3. tcReg'["native"] = r2 /\ DOMAIN tcReg' = DOMAIN tcReg
  <2> HIDE DEF r2
  <2>1. QED
    BY <1>2
<1>4. ASSUME ~tcSpoilt', NEW f \in F PROVE TcHas(r2, f, tcWant'[f])
  <2>1. \A g \in set : new[g] = tcWant'[g] /\ TcFits(g, tcWant'[g])
    BY <1>1, <1>4 DEF TcAskedMeans
  <2>2. f \notin set => TcHas(r0, f, tcWant'[f])
    <3>1. f \in TcGroups[tcGroup] /\ TcFields[f][1] = "native"
      BY TcNativeTable
    <3>2. QED
      BY <1>1, <1>4, <3>1 DEF TcAskedMeans
  <2>3. TcLaidOut(F) /\ vlan \in F /\ pcp \in F /\ vlan # pcp
    BY TcLayout
  <2>4. ~(ipv /\ f = pcp) => TcHas(r1, f, tcWant'[f])
    <3> HIDE DEF r0, F
    <3>1. QED
      BY <1>4, <2>1, <2>2, <2>3, TcPutGives
  <2>5. CASE ipv
    <3> HIDE DEF r1, F
    <3>1. QED
      BY <1>4, <2>1, <2>3, <2>4, <2>5, TcPutGives
  <2>6. CASE ~ipv
    BY <2>4, <2>6
  <2>7. QED
    BY <2>5, <2>6
<1> HIDE DEF r2
<1>5. ASSUME ~tcSpoilt', NEW f \in TcGroups["native"] PROVE TcHas(tcReg'[TcFields[f][1]], f, tcWant'[f])
  BY <1>3, <1>4, <1>5, TcNativeTable
<1>6. QED
  BY <1>1, <1>3, <1>5, TcFinish

LEMMA TcStep == TcInv /\ [TcNext]_tcVars => TcInv'
<1> SUFFICES ASSUME TcInv, [TcNext]_tcVars PROVE TcInv'
  OBVIOUS
<1>1. ASSUME NEW new \in TcNews, tcGroup = "pre", TcPreemption(new) \/ TcPreemptionCtrl(new) PROVE TcInv'
  BY <1>1, TcPreemptionKeeps, TcPreemptionCtrlKeeps
<1>2. ASSUME NEW new \in TcNews, tcGroup = "qbu", NEW set \in SUBSET TcGroups.qbu, TcQbuOverride(set, new) PROVE TcInv'
  BY <1>2, TcQbuOverrideKeeps
<1>3. ASSUME NEW new \in TcNews, tcGroup = "filter", TcStreamFilter(new) PROVE TcInv'
  BY <1>3, TcStreamFilterKeeps
<1>4. ASSUME NEW new \in TcNews, tcGroup = "meter", TcMeter(new) PROVE TcInv'
  BY <1>4, TcMeterKeeps
<1>5. ASSUME NEW new \in TcNews, tcGroup = "learn", NEW set \in SUBSET TcGroups.learn, TcSetLearn(set, new) PROVE TcInv'
  BY <1>5, TcSetLearnKeeps
<1>6. ASSUME NEW new \in TcNews, tcGroup = "regs", TcSwitchRegs(new) \/ TcFrameFilter(new) PROVE TcInv'
  BY <1>6, TcSwitchRegsKeeps, TcFrameFilterKeeps
<1>7. ASSUME NEW new \in TcNews, tcGroup = "native", NEW ipv \in BOOLEAN,
             TcNative("pvid1", "pcp1", ipv, new) \/ TcNative("pvid2", "pcp2", ipv, new)
      PROVE  TcInv'
  BY <1>7, TcNativeKeeps
<1>8. ASSUME NEW new \in TcNews, tcGroup = "cb", TcIngressFilter(new) \/ TcMember(new) PROVE TcInv'
  BY <1>8, TcIngressFilterKeeps, TcMemberKeeps
<1>9. CASE UNCHANGED tcVars
  BY <1>9 DEF tcVars, TcInv
<1>10. QED
  BY <1>1, <1>2, <1>3, <1>4, <1>5, <1>6, <1>7, <1>8, <1>9 DEF TcNext

\* The bits of aging and learning are the opposite of what the user set.
TcUserInv == tcGroup = "learn" => \A f \in TcSwitches : tcWant[f] = TcOff(tcUser[f])

LEMMA TcUserStarts == TcInit => TcUserInv
<1> SUFFICES ASSUME TcInit, NEW f \in TcSwitches PROVE tcWant[f] = TcOff(tcUser[f])
  BY DEF TcUserInv
<1>1. f \in DOMAIN TcFields
  BY TcLearnTable DEF TcSwitches
<1>2. tcWant[f] = {} /\ tcUser[f] = {0}
  BY <1>1 DEF TcInit
<1>3. QED
  BY <1>2 DEF TcOff

LEMMA TcUserStep == TcInv /\ TcUserInv /\ [TcNext]_tcVars => TcUserInv'
<1> SUFFICES ASSUME TcInv, TcUserInv, [TcNext]_tcVars, tcGroup' = "learn", NEW f \in TcSwitches
             PROVE  tcWant'[f] = TcOff(tcUser'[f])
  BY DEF TcUserInv
<1>1. f \in DOMAIN tcWant /\ TcFields[f][3] = 1 /\ f \in TcGroups["learn"] /\ f # "agetime"
  BY TcLearnTable DEF TcSwitches, TcInv
<1>2. CASE UNCHANGED tcVars
  BY <1>2 DEF tcVars, TcUserInv
<1>3. ASSUME NEW new \in TcNews, tcGroup = "learn", NEW set \in SUBSET TcGroups.learn, TcSetLearn(set, new)
      PROVE  tcWant'[f] = TcOff(tcUser'[f])
  <2> DEFINE marked == {g \in set : g = "agetime" => new[g] # {}}
             bits == [g \in DOMAIN new |-> IF g \in TcSwitches THEN TcOff(new[g]) ELSE new[g]]
  <2>1. TcAsked(marked, bits) /\ tcUser' = [g \in TcSwitches |-> IF g \in marked THEN new[g] ELSE tcUser[g]]
    BY <1>3 DEF TcSetLearn
  <2>2. bits[f] = TcOff(new[f])
    BY <1>1, <1>3, TcBitsAreNews
  <2> HIDE DEF marked, bits
  <2>3. tcWant'[f] = IF f \in marked THEN TcMask(f, bits[f]) ELSE tcWant[f]
    BY <1>1, <2>1 DEF TcAsked
  <2>4. TcMask(f, TcOff(new[f])) = TcOff(new[f])
    BY <1>1 DEF TcMask, TcOff
  <2>5. QED
    BY <1>3, <2>1, <2>2, <2>3, <2>4 DEF TcUserInv
<1>4. CASE tcGroup # "learn" /\ TcNext
  <2>1. tcGroup' = tcGroup
    BY <1>4 DEF TcNext, TcPreemption, TcPreemptionCtrl, TcQbuOverride, TcStreamFilter, TcMeter, TcSwitchRegs,
                TcFrameFilter, TcNative, TcIngressFilter, TcMember, TcAsked
  <2>2. QED
    BY <1>4, <2>1
<1>5. CASE tcGroup = "learn" /\ TcNext
  BY <1>3, <1>5 DEF TcNext
<1>6. QED
  BY <1>2, <1>4, <1>5

\* What is read is what the fields hold.
LEMMA TcInvMeans == TcInv /\ TcUserInv => TcReadBack
<1> SUFFICES ASSUME TcInv, TcUserInv, ~tcSpoilt PROVE TcReadBack
  BY DEF TcReadBack
<1>1. \A f \in TcGroups[tcGroup] : TcGet(f) = tcWant[f]
  BY DEF TcInv, TcHas, TcGet
<1>2. CASE tcGroup = "pre"
  BY <1>1, <1>2, TcPreTable DEF TcReadBack, TcPreemptionSts, TcRead
<1>3. CASE tcGroup = "qbu"
  BY <1>1, <1>3, TcQbuTable DEF TcReadBack, TcQbuSts, TcRead
<1>4. CASE tcGroup = "filter"
  BY <1>1, <1>4, TcFilterTable DEF TcReadBack, TcGetStreamFilter, TcRead
<1>5. CASE tcGroup = "meter"
  BY <1>1, <1>5, TcMeterTable DEF TcReadBack, TcGetMeter, TcRead
<1>6. CASE tcGroup = "cb"
  BY <1>1, <1>6, TcCbTable DEF TcReadBack, TcGetIngressFilter, TcGetMember, TcRead
<1>7. CASE tcGroup = "learn"
  <2>1. \A f \in TcGroups["learn"] : TcGetLearn[f] = tcWant[f]
    BY <1>1, <1>7, TcLearnTable DEF TcGetLearn, TcRead
  <2>2. DOMAIN TcGetLearn = TcGroups["learn"] /\ TcSwitches \subseteq TcGroups["learn"]
    BY TcLearnTable DEF TcGetLearn, TcRead, TcSwitches
  <2>3. \A f \in TcSwitches : tcWant[f] = TcOff(tcUser[f])
    BY <1>7 DEF TcUserInv
  <2>4. QED
    BY <1>7, <2>1, <2>2, <2>3 DEF TcReadBack
<1>8. CASE tcGroup = "regs"
  BY <1>1, <1>8, TcRegsTable DEF TcReadBack, TcGetSwitchRegs, TcRead
<1>9. CASE tcGroup = "native"
  BY <1>1, <1>9, TcNativeTable DEF TcReadBack, TcGetNative, TcRead
<1>10. QED
  BY <1>2, <1>3, <1>4, <1>5, <1>6, <1>7, <1>8, <1>9, TcGroupNames DEF TcInv

----------------------------------------------------------------------------
(* All drivers together (MCDrivers).                                        *)

RingsInv == AxInv /\ ArInv /\ EmTxInv /\ EmRxInv /\ LtInv /\ LrInv /\ LlInv

\* A step of the drivers is a step of one of them and leaves the others alone.
LEMMA OneMoves ==
  [Next]_vars =>
    /\ [AxNext]_axVars /\ [ArNext]_arVars /\ [EmNext]_emVars
    /\ [LtNext]_ltVars /\ [LrNext]_lrVars /\ [LlNext]_llVars
    /\ [EpNext]_epVars /\ [AmNext]_amVars
    /\ [QbNext]_qbVars /\ [TcNext]_tcVars /\ [SwNext]_swVars /\ [FdNext]_fdVars
<1> SUFFICES ASSUME [Next]_vars
             PROVE  /\ [AxNext]_axVars /\ [ArNext]_arVars /\ [EmNext]_emVars
                    /\ [LtNext]_ltVars /\ [LrNext]_lrVars /\ [LlNext]_llVars
                    /\ [EpNext]_epVars /\ [AmNext]_amVars
                    /\ [QbNext]_qbVars /\ [TcNext]_tcVars /\ [SwNext]_swVars /\ [FdNext]_fdVars
  OBVIOUS
<1>1. CASE Dma
  BY <1>1 DEF Dma, temacVars, confVars, switchVars
<1>2. CASE EndPoint
  BY <1>2 DEF EndPoint, dmaVars, temacVars, confVars, switchVars
<1>3. CASE Mac
  BY <1>3 DEF Mac, dmaVars, temacVars, confVars, switchVars
<1>4. CASE Ptp
  BY <1>4 DEF Ptp, dmaVars, temacVars, confVars, switchVars
<1>5. CASE Conf
  BY <1>5 DEF Conf, dmaVars, temacVars, switchVars
<1>6. CASE Switch
  BY <1>6 DEF Switch, dmaVars, temacVars, confVars
<1>7. CASE Lite
  BY <1>7 DEF Lite, dmaVars, temacVars, confVars, switchVars
<1>8. CASE Temac
  BY <1>8 DEF Temac, dmaVars, confVars, switchVars
<1>9. CASE UNCHANGED vars
  BY <1>9 DEF vars, dmaVars, temacVars, confVars, switchVars
<1>10. QED
  BY <1>1, <1>2, <1>3, <1>4, <1>5, <1>6, <1>7, <1>8, <1>9 DEF Next

LEMMA RingsStart == Init => RingsInv
BY AxStarts, ArStarts, EmTxStarts, EmRxStarts, LtStarts, LrStarts, LlStarts DEF Init, RingsInv

LEMMA RingsStep == RingsInv /\ [Next]_vars => RingsInv'
BY OneMoves, AxStep, ArStep, EmTxStep, EmRxStep, LtStep, LrStep, LlStep DEF RingsInv

LEMMA RingsInvMeans == RingsInv => RingsSound
BY AxInvMeans, ArInvMeans, EmTxInvMeans, EmRxInvMeans, LtInvMeans, LrInvMeans, LlInvMeans DEF RingsInv, RingsSound

\* For rings of any size, any number of frames and any ping-pong arrangement: a descriptor's skb and
\* its time stamp are freed once and not before the device is done with them, no wake-up is lost,
\* frames are received in the order in which they came, and no buffer is used by two frames
\* (xilinx_axienet_dma.c and _main.c, xilinx_emaclite.c, ll_temac_main.c).
THEOREM RingsAlwaysSound == Spec => []RingsSound
<1>1. Init => RingsInv
  BY RingsStart
<1>2. RingsInv /\ [Next]_vars => RingsInv'
  BY RingsStep
<1>3. RingsInv => RingsSound
  BY RingsInvMeans
<1>4. QED
  BY <1>1, <1>2, <1>3, PTL DEF Spec

\* With or without a switch, for any channels, ports and failures: interrupts and NAPI are balanced
\* until an opening fails, no frame in the ring of a running channel is forgotten, a frame reaches
\* only the device it is for or that of the frame before it, and UDP frames alone are sent by the
\* scheduled DMA (xilinx_tsn_ep.c, _ep_ex.c, _ip.c, axienet_mcdma_rx_irq, axienet_queue_xmit).
THEOREM EndPointAlwaysSound == Spec => []EpSound
<1>1. Init => EpInv
  BY EpStarts DEF Init
<1>2. EpInv /\ [Next]_vars => EpInv'
  BY OneMoves, EpStep
<1>3. EpInv => EpSound
  BY EpInvMeans
<1>4. QED
  BY <1>1, <1>2, <1>3, PTL DEF Spec

\* For any multicast groups and any size of the MAC's table: an open device hears every group of its
\* list until an error resets the MAC, the MAC takes large frames exactly when the receive buffers
\* are large, and the clocks balance unless probing failed where the code does not clean up
\* (axienet_probe, axienet_open, axienet_set_multicast_list, axienet_device_reset).
THEOREM MacAlwaysSound == Spec => []AmSound
<1>1. Init => AmInv
  BY AmStarts DEF Init
<1>2. AmInv /\ [Next]_vars => AmInv'
  BY OneMoves, AmStep
<1>3. AmInv => AmSound
  BY DEF AmInv
<1>4. QED
  BY <1>1, <1>2, <1>3, PTL DEF Spec

TsnInv == QbInv /\ TcInv /\ TcUserInv /\ SwInv /\ FdInv

\* For any gate lists, values of the registers' fields, VLANs, ports, addresses and callers: once a
\* change of the schedule is over, the gates open the queues that the user's list opens, for its times
\* but for the part of a tick, and the list is read back as __axienet_get_schedule translates it;
\* every field that a value fits is read back whichever call wrote the rest of its register; a VLAN
\* has the ports asked for unless it was written by a call that met another one in the registers or
\* found another VLAN's entry there; and the address table follows the bridge but for addresses whose
\* last request failed, that an ioctl named since, or that are made of the halves of those of calls
\* that met (xilinx_tsn_shaper.c, _preemption.c, _qci.c, _cb.c, _switch.c, _switchdev.c).
THEOREM TsnAlwaysSound == Spec => []TsnSound
<1>1. Init => TsnInv
  BY QbStarts, TcStarts, TcUserStarts, SwStarts, FdStarts DEF Init, TsnInv
<1>2. TsnInv /\ [Next]_vars => TsnInv'
  BY OneMoves, QbStep, TcStep, TcUserStep, SwStep, FdStep DEF TsnInv
<1>3. TsnInv => TsnSound
  BY QbInvMeans, TcInvMeans, SwInvMeans, FdInvMeans DEF TsnInv, TsnSound
<1>4. QED
  BY <1>1, <1>2, <1>3, PTL DEF Spec

=============================================================================
