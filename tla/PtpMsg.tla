------------------------------- MODULE PtpMsg --------------------------------
(***************************************************************************)
(* PTP messages in memory (msg.c) and their TLVs (tlv.c): the pools of      *)
(* messages and of TLV descriptors, the reference counts, and the byte      *)
(* order of every field, which msg_pre_send and msg_post_recv swap in       *)
(* place.                                                                   *)
(*                                                                         *)
(* A field is the name of its place in the message and is in "host" or in   *)
(* "net" order; its value is left out.  A TLV is its kind, the management   *)
(* id being the kind of a management TLV, and its length: "full", "none"    *)
(* (a management TLV without data) or "bad" (odd, past the end of the       *)
(* message, or not the length of its kind).                                 *)
(***************************************************************************)
EXTENDS Integers, Sequences, FiniteSetsExt

CONSTANTS MsTypes,   \* message types that occur
          MsBuilt,   \* lists of TLVs that messages are built with
          MsArrive,  \* lists of TLVs in messages of other programs
          MsMsgs,    \* messages there is memory for
          MsOps      \* operations (bound)

VARIABLES msBuf,     \* the messages: contents c, reference count refs, TLVs that have a descriptor
          msPool,    \* number of descriptors in tlv_pool
          msTotal,   \* number of descriptors that were allocated
          msWire,    \* the message on the network, or MsNothing
          msHeld,    \* the form a message is held in: "built", "parsed", "net" (sent), "raw" (a
                     \* transparent clock forwards it unparsed), "no" (in msg_pool)
          msOps      \* operations so far

msVars == <<msBuf, msPool, msTotal, msWire, msHeld, msOps>>

Swap(o) == IF o = "host" THEN "net" ELSE "host"
Flip(ord, fields) == [f \in DOMAIN ord |-> IF f \in fields THEN Swap(ord[f]) ELSE ord[f]]

(***************************************************************************)
(* Fields                                                                  *)
(***************************************************************************)
MsHeader == {"messageLength", "correction", "sourcePort", "sequenceId"}
\* The fields of more than one byte in a message's body that carry a value.  The time stamps of
\* SYNC, DELAY_REQ and ANNOUNCE are zero or filled in by the hardware.
MsBody(type) ==
  CASE type \in {"PDELAY_RESP", "DELAY_RESP", "PDELAY_RESP_FOLLOW_UP"} -> {"timestamp", "requestingPort"}
    [] type = "FOLLOW_UP" -> {"timestamp"}
    [] type = "ANNOUNCE" -> {"utcOffset", "variance", "stepsRemoved"}
    [] type \in {"SIGNALING", "MANAGEMENT"} -> {"targetPort"}
    [] OTHER -> {}
\* msg_suffix: the types that may carry TLVs
MsSuffix(type) == type \notin {"SYNC", "PDELAY_REQ", "PDELAY_RESP"}

\* mgt_pre_send
MsMgtPre(k) ==
  CASE k = "CLOCK_DESCRIPTION" -> {"clockType", "physicalLength", "networkProtocol", "addressLength"}
    [] k = "DEFAULT_DATA_SET" -> {"numberPorts", "variance"}
    [] k = "CURRENT_DATA_SET" -> {"stepsRemoved", "offsetFromMaster", "meanPathDelay"}
    [] k = "PARENT_DATA_SET" -> {"parentPort", "observedVariance", "phaseChangeRate", "gmVariance"}
    [] k = "TIME_PROPERTIES_DATA_SET" -> {"utcOffset"}
    [] k = "PORT_DATA_SET" -> {"portNumber", "peerMeanPathDelay"}
    [] k = "TIME_STATUS_NP" -> {"masterOffset", "ingressTime", "rateOffset", "scaledPhaseChange",
                                "timeBase", "phaseChange", "gmPresent"}
    [] k = "GRANDMASTER_SETTINGS_NP" -> {"variance", "utcOffset"}
    [] k = "PORT_DATA_SET_NP" -> {"delayThresh", "asCapable"}
    [] k = "SUBSCRIBE_EVENTS_NP" -> {"duration"}
    [] k \in {"PORT_PROPERTIES_NP", "PORT_STATS_NP"} -> {"portNumber"}
    [] OTHER -> {}
\* mgt_post_recv, once the length is right
MsMgtPost(k) ==
  CASE k = "CLOCK_DESCRIPTION" -> {"clockType", "physicalLength", "networkProtocol", "addressLength"}
    [] k = "DEFAULT_DATA_SET" -> {"numberPorts", "variance"}
    [] k = "CURRENT_DATA_SET" -> {"stepsRemoved", "offsetFromMaster", "meanPathDelay"}
    [] k = "PARENT_DATA_SET" -> {"parentPort", "observedVariance", "phaseChangeRate", "gmVariance"}
    [] k = "TIME_PROPERTIES_DATA_SET" -> {"utcOffset"}
    [] k = "PORT_DATA_SET" -> {"portNumber", "peerMeanPathDelay"}
    [] k = "TIME_STATUS_NP" -> {"masterOffset", "ingressTime", "rateOffset", "scaledPhaseChange",
                                "timeBase", "phaseChange", "gmPresent"}
    [] k = "GRANDMASTER_SETTINGS_NP" -> {"variance", "utcOffset"}
    [] k = "PORT_DATA_SET_NP" -> {"delayThresh", "asCapable"}
    [] k = "SUBSCRIBE_EVENTS_NP" -> {"duration"}
    [] k = "PORT_PROPERTIES_NP" -> {"portNumber"}
    [] k = "PORT_STATS_NP" -> {"portNumber"}
    [] OTHER -> {}
\* nsm_resp_pre_send and nsm_resp_post_recv
MsNsmPre == {"networkProtocol", "addressLength", "parentPort", "observedVariance", "phaseChangeRate", "gmVariance",
             "stepsRemoved", "offsetFromMaster", "meanPathDelay", "utcOffset", "lastSync"}
MsNsmPost == {"networkProtocol", "addressLength"}
             \cup {"parentPort", "observedVariance", "phaseChangeRate", "gmVariance"}
             \cup {"stepsRemoved", "offsetFromMaster", "meanPathDelay"} \cup {"utcOffset"} \cup {"lastSync"}
\* org_pre_send and org_post_recv, for the 802.1AS follow-up information
MsOrgPre == {"rateOffset", "timeBase", "phaseChange", "scaledPhaseChange"}
MsOrgPost == {"rateOffset", "timeBase", "phaseChange", "scaledPhaseChange"}
\* The records of the slave's timing data
MsSlaveDelayPre == {"sourcePort", "sequenceId", "originTimestamp", "totalCorrection", "responseTimestamp"}
MsSlaveDelayPost == {"sourcePort", "sequenceId", "originTimestamp", "totalCorrection", "responseTimestamp"}
MsSlaveRxPre == {"sourcePort", "sequenceId", "originTimestamp", "totalCorrection", "rateOffset", "ingressTimestamp"}
MsSlaveRxPost == {"sourcePort", "sequenceId", "originTimestamp", "totalCorrection", "rateOffset", "ingressTimestamp"}
\* unicast_negotiation_pre_send and unicast_negotiation_post_recv
MsUnicastPre(k) == IF k \in {"REQUEST_UNICAST", "GRANT_UNICAST"} THEN {"duration"} ELSE {}
MsUnicastPost(k) == CASE k = "REQUEST_UNICAST" -> {"duration"} [] k = "GRANT_UNICAST" -> {"duration"} [] OTHER -> {}
MsUnicast == {"REQUEST_UNICAST", "GRANT_UNICAST", "CANCEL_UNICAST", "ACKNOWLEDGE_CANCEL_UNICAST"}
MsOther == {"ERROR_STATUS", "ORGANIZATION", "PATH_TRACE", "PTPMON_REQ", "PTPMON_RESP", "SLAVE_RX_SYNC", "SLAVE_DELAY"} \cup MsUnicast
\* tlv_pre_send
MsTlvPre(t) ==
  CASE t.kind = "ERROR_STATUS" -> {"error", "id"}
    [] t.kind = "ORGANIZATION" -> MsOrgPre
    [] t.kind \in MsUnicast -> MsUnicastPre(t.kind)
    [] t.kind = "PTPMON_RESP" -> MsNsmPre
    [] t.kind = "SLAVE_RX_SYNC" -> MsSlaveRxPre
    [] t.kind = "SLAVE_DELAY" -> MsSlaveDelayPre
    [] t.kind \in MsOther -> {}
    [] OTHER -> {"id"} \cup (IF t.len # "none" THEN MsMgtPre(t.kind) ELSE {})
\* tlv_post_recv
MsTlvPost(t) ==
  CASE t.kind = "ERROR_STATUS" -> {"error", "id"}
    [] t.kind = "ORGANIZATION" -> MsOrgPost
    [] t.kind \in MsUnicast -> MsUnicastPost(t.kind)
    [] t.kind = "PTPMON_RESP" -> MsNsmPost
    [] t.kind = "SLAVE_RX_SYNC" -> MsSlaveRxPost
    [] t.kind = "SLAVE_DELAY" -> MsSlaveDelayPost
    [] t.kind \in MsOther -> {}
    [] OTHER -> {"id"} \cup (IF t.len # "none" THEN MsMgtPost(t.kind) ELSE {})

(***************************************************************************)
(* Contents: the type, the order of the fields, the TLVs in memory          *)
(***************************************************************************)
MsTlv(k, len) ==
  LET full == [kind |-> k, len |-> "full"] IN
  [kind |-> k, len |-> len, ord |-> [f \in {"type", "length"} \cup MsTlvPre(full) \cup MsTlvPost(full) |-> "host"]]
MsNothing == [type |-> "none", ord |-> << >>, tlvs |-> << >>]
MsFresh(type, tlvs) == [type |-> type, ord |-> [f \in MsHeader \cup MsBody(type) |-> "host"], tlvs |-> tlvs]
\* msg_pre_send flips the header, the body, and those TLVs that have a descriptor (suffix_pre_send)
MsPre(type) ==
  CASE type \in {"SYNC", "DELAY_REQ", "PDELAY_REQ"} -> {}
    [] type = "PDELAY_RESP" -> {"timestamp", "requestingPort"}
    [] type = "FOLLOW_UP" -> {"timestamp"}
    [] type = "DELAY_RESP" -> {"timestamp", "requestingPort"}
    [] type = "PDELAY_RESP_FOLLOW_UP" -> {"timestamp", "requestingPort"}
    [] type = "ANNOUNCE" -> {"utcOffset", "variance", "stepsRemoved"}
    [] type \in {"SIGNALING", "MANAGEMENT"} -> {"targetPort"}
MsPreSend(c, described) ==
  [c EXCEPT !.ord = Flip(Flip(@, MsHeader), MsPre(c.type)),
            !.tlvs = [i \in DOMAIN @ |-> IF i \in described
                                         THEN [@[i] EXCEPT !.ord = Flip(@, MsTlvPre(c.tlvs[i]) \cup {"type", "length"})]
                                         ELSE @[i]]]
\* msg_post_recv flips the header and the body, the time stamp being copied in the right order, not
\* flipped; then, one TLV after the other, it is refused when its length is wrong
MsPost(type) ==
  CASE type \in {"SYNC", "DELAY_REQ", "PDELAY_REQ", "FOLLOW_UP"} -> {}
    [] type \in {"PDELAY_RESP", "DELAY_RESP", "PDELAY_RESP_FOLLOW_UP"} -> {"requestingPort"}
    [] type = "ANNOUNCE" -> {"utcOffset", "variance", "stepsRemoved"}
    [] type \in {"SIGNALING", "MANAGEMENT"} -> {"targetPort"}
MsFirstBad(c) == CHOOSE i \in 1 .. Len(c.tlvs) + 1 :
                   /\ i = Len(c.tlvs) + 1 \/ c.tlvs[i].len = "bad"
                   /\ \A j \in 1 .. i - 1 : c.tlvs[j].len # "bad"
MsPostRecv(c) ==
  [c EXCEPT !.ord = Flip(Flip(@, MsHeader), MsPost(c.type)),
            !.tlvs = [i \in DOMAIN @ |-> IF i < MsFirstBad(c)
                                         THEN [@[i] EXCEPT !.ord = Flip(@, MsTlvPost(c.tlvs[i]) \cup {"type", "length"})]
                                         ELSE @[i]]]
\* What a handler reads is in host order; a time stamp has been copied from the network's order
MsInHost(c) ==
  /\ \A f \in DOMAIN c.ord \ {"timestamp"} : c.ord[f] = "host"
  /\ \A i \in DOMAIN c.tlvs : \A f \in DOMAIN c.tlvs[i].ord :
       (f \in {"type", "length", "id", "error"} \/ c.tlvs[i].len # "none") => c.tlvs[i].ord[f] = "host"
MsInNet(c) ==
  /\ \A f \in DOMAIN c.ord : c.ord[f] = "net"
  /\ \A i \in DOMAIN c.tlvs : \A f \in DOMAIN c.tlvs[i].ord :
       (f \in {"type", "length", "id", "error"} \/ c.tlvs[i].len # "none") => c.tlvs[i].ord[f] = "net"

(***************************************************************************)
(* Pools.  Which descriptor a TLV gets does not matter: they are counted.   *)
(***************************************************************************)
MsMemory == 1 .. MsMsgs
\* msg_allocate: one that is in the pool, or new memory
MsFree == {m \in MsMemory : msBuf[m].refs = 0}
\* tlv_extra_alloc n times, of which back are recycled at once
MsTake(n, back) ==
  LET fresh == IF n > msPool THEN n - msPool ELSE 0 IN
  msTotal' = msTotal + fresh /\ msPool' = msPool + fresh - n + back
MsCount == msOps < MsOps /\ msOps' = msOps + 1

(***************************************************************************)
(* Operations                                                              *)
(***************************************************************************)
MsWithTlvs(type, list) == MsFresh(type, [i \in DOMAIN list |-> MsTlv(list[i].kind, list[i].len)])
\* A message is built with its TLVs (msg_tlv_append); one that has no suffix takes none
MsBuild(type, list) ==
  /\ MsCount /\ (~MsSuffix(type) => list = << >>)
  /\ \E m \in MsFree :
       /\ msBuf' = [msBuf EXCEPT ![m] = [c |-> MsWithTlvs(type, list), refs |-> 1, extras |-> Len(list)]]
       /\ msHeld' = [msHeld EXCEPT ![m] = "built"]
  /\ MsTake(Len(list), 0)
  /\ UNCHANGED msWire
\* msg_put
MsPut(m) ==
  /\ msHeld[m] # "no" /\ MsCount
  /\ \/ /\ msBuf[m].refs > 1
        /\ msBuf' = [msBuf EXCEPT ![m].refs = @ - 1] /\ UNCHANGED <<msPool, msHeld>>
     \/ /\ msBuf[m].refs = 1
        /\ msBuf' = [msBuf EXCEPT ![m] = [@ EXCEPT !.refs = 0, !.extras = 0]]
        /\ msPool' = msPool + msBuf[m].extras
        /\ msHeld' = [msHeld EXCEPT ![m] = "no"]
  /\ UNCHANGED <<msTotal, msWire>>
\* msg_get, as by the port's queues or by tc.c
MsGet(m) ==
  /\ msHeld[m] # "no" /\ MsCount /\ msBuf[m].refs < 2
  /\ msBuf' = [msBuf EXCEPT ![m].refs = @ + 1]
  /\ UNCHANGED <<msPool, msTotal, msWire, msHeld>>
\* msg_pre_send and the transport: the descriptors are recycled
MsSend(m) ==
  /\ msHeld[m] = "built" /\ MsCount
  /\ LET sent == MsPreSend(msBuf[m].c, 1 .. msBuf[m].extras) IN
     msBuf' = [msBuf EXCEPT ![m] = [@ EXCEPT !.c = sent, !.extras = 0]] /\ msWire' = sent
  /\ msPool' = msPool + msBuf[m].extras
  /\ msHeld' = [msHeld EXCEPT ![m] = "net"]
  /\ UNCHANGED msTotal
\* The same message to another port or subscriber (port_forward): it is not prepared again
MsSendAgain(m) ==
  /\ msHeld[m] \in {"net", "raw"} /\ MsCount
  /\ msWire' = msBuf[m].c
  /\ UNCHANGED <<msBuf, msPool, msTotal, msHeld>>
\* A message of another program, perhaps with bad lengths
MsForeign(type, list) ==
  /\ MsCount /\ MsSuffix(type)
  /\ LET c == MsWithTlvs(type, list) IN msWire' = MsPreSend(c, DOMAIN c.tlvs)
  /\ UNCHANGED <<msBuf, msPool, msTotal, msHeld>>
\* suffix_post_recv: descriptors for the TLVs up to the first bad one, whose descriptor is given back
MsParsed(c) == MsFirstBad(c) - 1
MsGood(c) == MsParsed(c) = Len(c.tlvs)
\* A message that does not parse is put, with the TLVs it got so far
MsRefused(c) == MsTake(MsParsed(c) + 1, MsParsed(c) + 1)
\* port_event, pmc_recv: a message is received
MsRecv ==
  /\ msWire.type # "none" /\ MsCount /\ MsFree # {}
  /\ msWire' = MsNothing
  /\ \/ /\ MsGood(msWire)
        /\ \E m \in MsFree :
             /\ msBuf' = [msBuf EXCEPT ![m] = [c |-> MsPostRecv(msWire), refs |-> 1, extras |-> Len(msWire.tlvs)]]
             /\ msHeld' = [msHeld EXCEPT ![m] = "parsed"]
        /\ MsTake(Len(msWire.tlvs), 0)
     \/ /\ ~MsGood(msWire)
        /\ MsRefused(msWire) /\ UNCHANGED <<msBuf, msHeld>>
\* A transparent clock keeps the message as it came and parses a copy of it (msg_duplicate)
MsDuplicate ==
  /\ msWire.type # "none" /\ MsCount
  /\ msWire' = MsNothing
  /\ \E m, d \in MsFree :
       /\ m # d
       /\ \/ /\ MsGood(msWire)
             /\ msBuf' = [msBuf EXCEPT ![m] = [c |-> msWire, refs |-> 1, extras |-> 0],
                                       ![d] = [c |-> MsPostRecv(msWire), refs |-> 1, extras |-> Len(msWire.tlvs)]]
             /\ msHeld' = [msHeld EXCEPT ![m] = "raw", ![d] = "parsed"]
             /\ MsTake(Len(msWire.tlvs), 0)
          \/ /\ ~MsGood(msWire)
             /\ MsRefused(msWire) /\ UNCHANGED <<msBuf, msHeld>>
\* Mutant: the message is prepared for every port.
MsForwardedEach(c, ports, described) ==
  IF ports = 0 THEN c
  ELSE MsPostRecv(IF ports = 1 THEN MsPreSend(c, described) ELSE MsPreSend(MsPreSend(c, described), {}))
\* clock_forward_mgmt_msg: it is prepared for the first port that takes it, and parsed again at the end
MsForwarded(c, ports, described) ==
  IF ports = 0 THEN c ELSE MsPostRecv(MsPreSend(c, described))
MsForward(m, ports) ==
  /\ msHeld[m] = "parsed" /\ msBuf[m].c.type = "MANAGEMENT" /\ MsCount
  /\ msBuf' = [msBuf EXCEPT ![m].c = MsForwarded(@, ports, 1 .. msBuf[m].extras)]
  /\ msWire' = IF ports = 0 THEN msWire ELSE MsPreSend(msBuf[m].c, 1 .. msBuf[m].extras)
  /\ UNCHANGED <<msPool, msTotal, msHeld>>

MsEmpty == [c |-> MsNothing, refs |-> 0, extras |-> 0]
MsInit == /\ msBuf = [m \in MsMemory |-> MsEmpty] /\ msPool = 0 /\ msTotal = 0 /\ msWire = MsNothing
          /\ msHeld = [m \in MsMemory |-> "no"] /\ msOps = 0
MsNext ==
  \/ \E type \in MsTypes : \E list \in MsBuilt : MsBuild(type, list)
  \/ \E type \in MsTypes : \E list \in MsArrive : MsForeign(type, list)
  \/ \E m \in MsMemory : MsPut(m) \/ MsGet(m) \/ MsSend(m) \/ MsSendAgain(m)
  \/ \E m \in MsMemory, ports \in 0 .. 2 : MsForward(m, ports)
  \/ MsRecv \/ MsDuplicate

(***************************************************************************)
(* Properties                                                              *)
(***************************************************************************)
\* Whatever a message has been through, what its handlers read is in host order and what is on the
\* network is in network order, every field of every TLV included: msg_pre_send and msg_post_recv
\* undo each other also when a management message is forwarded to several ports and then handled
\* here, or one message is sent to several receivers.
MsReadable ==
  /\ \A m \in MsMemory : msHeld[m] = "parsed" => MsInHost(msBuf[m].c)
  /\ msWire.type # "none" => MsInNet(msWire)
\* No TLV descriptor is lost: each one is in tlv_pool or belongs to a message that is in use, also
\* after messages that were refused half-way (suffix_post_recv, msg_put, suffix_pre_send).
MsNoLeak == msTotal = msPool + MapThenSumSet(LAMBDA m : msBuf[m].extras, MsMemory)

\* A message is read and sent in the right byte order, and costs no memory (msg_post_recv,
\* msg_pre_send, msg_put).
MsSound == MsReadable /\ MsNoLeak
==============================================================================
