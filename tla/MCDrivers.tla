----------------------------- MODULE MCDrivers -----------------------------
(***************************************************************************)
(* The network drivers: the DMA rings, the end point and its queues, the   *)
(* MAC, PTP frames and the PTP clock, the configuration registers and the  *)
(* switch, and the two older MACs.  One run explores them all, one at a    *)
(* time: "which" is the part that moves, and the others stay in an initial *)
(* state.                                                                  *)
(***************************************************************************)
EXTENDS AxiDma, TsnEndpoint, AxiMac, PtpDrv, TsnConf, TsnSwitch, Emaclite, LlTemac

VARIABLE which

dmaVars == <<axVars, arVars>>
ptpVars == <<pxVars, prVars, pcVars>>
confVars == <<qbVars, tcVars>>
switchVars == <<swVars, fdVars>>
temacVars == <<ltVars, lrVars, llVars>>
vars == <<which, dmaVars, epVars, amVars, ptpVars, confVars, switchVars, emVars, temacVars>>

----------------------------------------------------------------------------
\* TsnEndpoint: the channel of each of the five receive queues
Channels == <<4, 2, 3, 1, 5>>

\* TsnConf: gate lists with times that are no multiple of the tick or too long, with two gates open, with a gate
\* that does not exist, too long, and empty
Entry(gates, time) == [state |-> gates, time |-> time]
GateLists ==
  {<< >>, <<Entry({"ST"}, 17)>>, <<Entry({"BE"}, 8), Entry({"ST"}, 16)>>, <<Entry({"BE", "ST"}, 8)>>,
   <<Entry({"RE", "BE"}, 40)>>, <<Entry({"BE"}, 8), Entry({"ST"}, 16), Entry({"RE"}, 8)>>,
   <<Entry({}, 8), Entry({"BE"}, 8), Entry({"ST"}, 16), Entry({"RE"}, 8)>>}

\* TsnSwitch: two addresses of the bridge that differ in both halves, and one of an ioctl that it knows
BridgeKeys == {<<"a", "b">>, <<"c", "d">>}
UserKeys == {<<"c", "d">>}

----------------------------------------------------------------------------
Init ==
  /\ which \in {"ax", "ar", "ep", "am", "px", "pr", "pc", "qb", "tc", "sw", "fd", "em", "lt", "lr", "ll"}
  /\ AxInit /\ ArInit
  /\ EpInit /\ (which # "ep" => epOnly)
  /\ AmInit
  /\ PxInit /\ PrInit /\ (which # "px" => pxOneStep)
  /\ PcInit /\ (which # "pc" => pcRaw = 0 /\ pcWant = PcBase)
  /\ QbInit /\ TcInit /\ (which # "tc" => tcGroup = "pre")
  /\ SwInit /\ FdInit /\ (which # "sw" => swCtrl = 1)
  /\ EmInit /\ (which # "em" => emHwRx = 0)
  /\ LtInit /\ LrInit /\ LlInit

Dma ==
  /\ UNCHANGED <<epVars, amVars, ptpVars, confVars, switchVars, emVars, temacVars>>
  /\ \/ which = "ax" /\ UNCHANGED arVars /\ AxNext
     \/ which = "ar" /\ UNCHANGED axVars /\ ArNext

EndPoint ==
  /\ UNCHANGED <<dmaVars, amVars, ptpVars, confVars, switchVars, emVars, temacVars>>
  /\ which = "ep" /\ EpNext

Mac ==
  /\ UNCHANGED <<dmaVars, epVars, ptpVars, confVars, switchVars, emVars, temacVars>>
  /\ which = "am" /\ AmNext

Ptp ==
  /\ UNCHANGED <<dmaVars, epVars, amVars, confVars, switchVars, emVars, temacVars>>
  /\ \/ which = "px" /\ UNCHANGED <<prVars, pcVars>> /\ PxNext
     \/ which = "pr" /\ UNCHANGED <<pxVars, pcVars>> /\ PrNext
     \/ which = "pc" /\ UNCHANGED <<pxVars, prVars>> /\ PcNext

Conf ==
  /\ UNCHANGED <<dmaVars, epVars, amVars, ptpVars, switchVars, emVars, temacVars>>
  /\ \/ which = "qb" /\ UNCHANGED tcVars /\ QbNext
     \/ which = "tc" /\ UNCHANGED qbVars /\ TcNext

Switch ==
  /\ UNCHANGED <<dmaVars, epVars, amVars, ptpVars, confVars, emVars, temacVars>>
  /\ \/ which = "sw" /\ UNCHANGED fdVars /\ SwNext
     \/ which = "fd" /\ UNCHANGED swVars /\ FdNext

Lite ==
  /\ UNCHANGED <<dmaVars, epVars, amVars, ptpVars, confVars, switchVars, temacVars>>
  /\ which = "em" /\ EmNext

Temac ==
  /\ UNCHANGED <<dmaVars, epVars, amVars, ptpVars, confVars, switchVars, emVars>>
  /\ \/ which = "lt" /\ UNCHANGED <<lrVars, llVars>> /\ LtNext
     \/ which = "lr" /\ UNCHANGED <<ltVars, llVars>> /\ LrNext
     \/ which = "ll" /\ UNCHANGED <<ltVars, lrVars>> /\ LlNext

Next == UNCHANGED which /\ (Dma \/ EndPoint \/ Mac \/ Ptp \/ Conf \/ Switch \/ Lite \/ Temac)

Spec == Init /\ [][Next]_vars

\* The descriptor rings and buffers of the three drivers: no buffer is used after it was freed or by
\* two frames, no wake-up is lost and frames keep their order (xilinx_axienet_dma.c and _main.c,
\* xilinx_emaclite.c, ll_temac_main.c).
RingsSound ==
  /\ AxHeld /\ AxWoken /\ ArServed /\ ArInOrder
  /\ EmNotStuck /\ EmReceived /\ EmSentInOrder
  /\ LtKept /\ LrServed /\ LlHeld

\* What was configured is in force and is read back, and the switch's tables hold what was asked for
\* by the callers that share its registers (xilinx_tsn_shaper.c, _preemption.c, _qci.c, _cb.c,
\* _switch.c).
TsnSound == QbServes /\ QbReads /\ TcReadBack /\ SwMembers /\ FdFollows
=============================================================================
