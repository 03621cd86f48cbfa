----------------------------- MODULE MCPtpPort -----------------------------
(***************************************************************************)
(* linuxptp, what a port does: its state and the choice of a master, time  *)
(* stamp processing and servo, unicast negotiation, peer delay.  One run   *)
(* explores them all, one at a time: "which" is the component that moves,  *)
(* and the others stay in an initial state.                                *)
(***************************************************************************)
EXTENDS PtpBmc, PtpSync, PtpUnicast, PtpPeer

VARIABLE which

vars == <<which, ptVars, syVars, ucVars, ppVars>>

----------------------------------------------------------------------------
\* PtpBmc: a clock of two ports, as a clock of any quality or as a good one; announcements of a better
\* grandmaster on both ports, and of a worse one
Own(quality) == [priority1 |-> 2, quality |-> quality, priority2 |-> 2]
OwnClocks == {Own(200), Own(100)}
Announce(port, sender, gm, priority1, steps) ==
  [port |-> port, sender |-> <<sender, 1>>, gm |-> gm, priority1 |-> priority1,
   quality |-> 200, priority2 |-> 2, steps |-> steps]
Announces == {Announce(1, 3, 3, 1, 0), Announce(2, 4, 3, 1, 1), Announce(1, 3, 3, 3, 0)}

\* PtpSync: the grandmaster of each master, and the time of each grandmaster
GrandMasters == <<1, 1, 2>>
GrandMasterTimes == <<0, 10>>

----------------------------------------------------------------------------
Init ==
  /\ which \in {"pt", "sy", "uc", "pp"}
  /\ PtInit /\ (which # "pt" => ptKind = "ptp" /\ ptOwn = Own(200) /\ \A p \in Pts : ptPort[p].state = "LISTENING")
  /\ SyInit /\ (which # "sy" => syParent = 1)
  /\ UcInit /\ (which # "uc" => ~ucP2p)
  /\ PpInit /\ (which # "pp" => ppKind = "as")

\* A servo that was given the times of two grandmasters is not followed any further.
Next ==
  /\ UNCHANGED which
  /\ \/ which = "pt" /\ UNCHANGED <<syVars, ucVars, ppVars>> /\ PtNext
     \/ which = "sy" /\ ~syCrossed /\ UNCHANGED <<ptVars, ucVars, ppVars>> /\ SyNext
     \/ which = "uc" /\ UNCHANGED <<ptVars, syVars, ppVars>> /\ UcNext
     \/ which = "pp" /\ UNCHANGED <<ptVars, syVars, ucVars>> /\ PpNext

Spec == Init /\ [][Next]_vars
=============================================================================
