--------------------------- MODULE MCPtpServices ---------------------------
(***************************************************************************)
(* linuxptp, what surrounds the ports: transparent clocks, phc2sys,        *)
(* messages and management.  One run explores them all, one at a time:     *)
(* "which" is the component that moves, and the others stay in an initial  *)
(* state.                                                                  *)
(***************************************************************************)
EXTENDS PtpTransparent, Phc2sys, PtpMsg, PtpMgmt

VARIABLE which

vars == <<which, xcVars, phVars, msVars, mgVars>>

----------------------------------------------------------------------------
\* Phc2sys: three interfaces, two of which share a PHC
Interfaces == <<"a", "b", "c">>
InterfaceOf == <<"a", "b", "c">>
PhcOf == ("a" :> 0) @@ ("b" :> 0) @@ ("c" :> 1)

\* PtpMsg: TLVs of every kind alone and two in a row, and messages from elsewhere, one with a bad TLV
TlvKinds == MsOther \cup
  {"CLOCK_DESCRIPTION", "DEFAULT_DATA_SET", "CURRENT_DATA_SET", "PARENT_DATA_SET",
   "TIME_PROPERTIES_DATA_SET", "PORT_DATA_SET", "TIME_STATUS_NP", "GRANDMASTER_SETTINGS_NP",
   "PORT_DATA_SET_NP", "SUBSCRIBE_EVENTS_NP", "PORT_PROPERTIES_NP", "PORT_STATS_NP", "PRIORITY1"}
Tlv(kind, len) == <<[kind |-> kind, len |-> len]>>
TlvsBuilt == {<< >>, Tlv("CLOCK_DESCRIPTION", "none"), Tlv("PATH_TRACE", "full") \o Tlv("ORGANIZATION", "full")}
               \cup {Tlv(k, "full") : k \in TlvKinds}
TlvsArriving == {Tlv("CLOCK_DESCRIPTION", "full"),
                 Tlv("ERROR_STATUS", "full") \o Tlv("PORT_DATA_SET", "bad")}

\* PtpMgmt: requests to one clock, to all, to a port, to a port that does not exist, with and without
\* enough hops, that can and cannot be carried out
Ask(act, id, clock, port, hops, len, val) ==
  [act |-> act, id |-> id, clock |-> clock, port |-> port, hops |-> hops, len |-> len, val |-> val]
Requests ==
  {Ask("GET", "PRIORITY1", 0, 0, 2, "full", 0), Ask("SET", "PRIORITY1", 0, 0, 1, "full", 7),
   Ask("SET", "PRIORITY1", 1, 0, 1, "none", 7), Ask("GET", "PORT_DATA_SET", 0, 0, 1, "full", 0),
   Ask("GET", "PORT_DATA_SET", 2, 9, 1, "full", 0),
   Ask("SET", "PORT_DATA_SET_NP", 1, 1, 0, "full", 5), Ask("GET", "PORT_PROPERTIES_NP", 0, 1, 2, "none", 0),
   Ask("SET", "SUBSCRIBE_EVENTS_NP", 1, 0, 0, "full", 1), Ask("GET", "SUBSCRIBE_EVENTS_NP", 2, 0, 3, "none", 0),
   Ask("SET", "SYNCHRONIZATION_UNCERTAIN_NP", 1, 0, 1, "full", 9), Ask("COMMAND", "ENABLE_PORT", 0, 1, 1, "none", 0),
   Ask("GET", "NO_SUCH", 2, 0, 1, "full", 0)}

----------------------------------------------------------------------------
Init ==
  /\ which \in {"xc", "ph", "ms", "mg"}
  /\ XcInit /\ (which # "xc" => xcMode = "E2E" /\ xcTree)
  /\ PhInit /\ (which # "ph" => phRt = "both" /\ \A p \in PhPorts : phReal[p] = "MASTER")
  /\ MsInit
  /\ MgInit /\ (which # "mg" => mgFwd = MgPort)

Next ==
  /\ UNCHANGED which
  /\ \/ which = "xc" /\ UNCHANGED <<phVars, msVars, mgVars>> /\ XcNext
     \/ which = "ph" /\ UNCHANGED <<xcVars, msVars, mgVars>> /\ PhNext
     \/ which = "ms" /\ UNCHANGED <<xcVars, phVars, mgVars>> /\ MsNext
     \/ which = "mg" /\ UNCHANGED <<xcVars, phVars, msVars>> /\ MgNext

Spec == Init /\ [][Next]_vars
=============================================================================
