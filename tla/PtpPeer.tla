------------------------------- MODULE PtpPeer -------------------------------
(***************************************************************************)
(* A port of linuxptp that measures the delay to its neighbour (peer delay  *)
(* mechanism, port.c), decides whether the link may carry time of 802.1AS   *)
(* (port_capable) and sends Sync and Announce messages only if so.  The     *)
(* answers come from several responders, which run process_pdelay_req; any  *)
(* message that was ever sent may arrive at any time and more than once.    *)
(*                                                                         *)
(* A time stamp is the exchange it was taken in and, for the port's own     *)
(* stamps, how often the local clock had been stepped before.               *)
(***************************************************************************)
EXTENDS Integers, Sequences, FiniteSets

CONSTANTS PpResponders, \* ports that answer
          PpFar,        \* those beyond neighborPropDelayThresh
          PpOneStep,    \* those that may answer in one step
          PpAllowed,    \* ALLOWED_LOST_RESPONSES
          PpMax,        \* nrate.max_count
          PpRequests,   \* requests sent (bound)
          PpSteps,      \* steps of the local clock (bound)
          PpSyncs,      \* Sync messages sent (bound)
          PpKinds,      \* subset of {"as", "always", "plain"}
          PpMechanisms  \* subset of {"P2P", "E2E", "AUTO"}

ASSUME PpAssumption ==
  PpOneStep \subseteq PpResponders /\ PpAllowed \in Nat /\ PpMax \in Nat

VARIABLES ppKind,       \* port_is_ieee8021as: "as"; else asCapable = true, or no follow_up_info
          ppMech,       \* delayMechanism
          ppUp,         \* the port is not FAULTY
          ppPort,       \* struct port, as far as the peer delay goes
          ppN,          \* seqnum.delayreq
          ppSent,       \* responses and follow-ups sent so far
          ppEpoch,      \* steps of the local clock
          ppForeign,    \* history: the clock was stepped for another port while a request waited
          ppSeq,        \* seqnum.sync
          ppLast,       \* history: sequence number of the last multicast Sync
          ppSkipped     \* history: a multicast Sync did not have the number after its predecessor's

ppVars == <<ppKind, ppMech, ppUp, ppPort, ppN, ppSent, ppEpoch, ppForeign, ppSeq, ppLast, ppSkipped>>
ppSyncVars == <<ppSeq, ppLast, ppSkipped>>
ppEnvVars == <<ppKind, ppEpoch, ppForeign>>

PpNil == << >>

(***************************************************************************)
(* Is the neighbour fit for 802.1AS?                                       *)
(***************************************************************************)
\* port_nrate_initialize
PpNrateInitialize(p) ==
  [p EXCEPT !.missing = PpAllowed + 1, !.peer = "none", !.first = FALSE, !.count = 0, !.valid = FALSE]
\* port_is_ieee8021as
PpIs8021as == ppKind = "as"
\* The verdict of port_capable
PpFit(p) ==
  \/ ~PpIs8021as
  \/ /\ p.delay # "far"
     /\ p.missing <= PpAllowed
     /\ p.several = 0 /\ p.peer # "none" /\ p.valid
\* port_capable with its effect: a port that loses its neighbour starts its measurements again
PpCapable(p) ==
  IF PpFit(p) THEN [p EXCEPT !.cap = TRUE]
  ELSE [(IF p.cap THEN PpNrateInitialize(p) ELSE p) EXCEPT !.cap = FALSE]
\* incapable_ignore looks at the port for every message received
PpReceives == PpCapable(ppPort)

(***************************************************************************)
(* The exchange                                                            *)
(***************************************************************************)
\* port_nrate_calculate; the port sees the neighbour's rate after max_count more responses
PpNrate(p) ==
  LET q == [p EXCEPT !.missing = 0] IN
  IF ~p.first THEN [q EXCEPT !.first = TRUE]
  ELSE IF p.count + 1 < PpMax THEN [q EXCEPT !.count = @ + 1]
  ELSE [q EXCEPT !.count = 0, !.valid = TRUE]
\* Mutant: the Follow_Up need not come from the port that sent the response.
PpPairAny(p) ==
  /\ p.req # PpNil /\ p.resp # PpNil
  /\ p.resp[1].to = "me" /\ p.resp[1].seq = p.req[1].seq
  /\ \/ p.resp[1].one
     \/ p.fup # PpNil /\ p.fup[1].to = "me" /\ p.fup[1].seq = p.resp[1].seq
\* The conditions of port_peer_delay
PpPair(p) ==
  /\ p.req # PpNil /\ p.resp # PpNil
  /\ p.resp[1].to = "me" /\ p.resp[1].seq = p.req[1].seq
  /\ \/ p.resp[1].one
     \/ p.fup # PpNil /\ p.fup[1].to = "me" /\ p.fup[1].seq = p.resp[1].seq /\ p.fup[1].src = p.resp[1].src
\* What tsproc_update_delay makes of the four stamps: the delay to the responder, unless they belong
\* to two exchanges or to two settings of the local clock
PpMeasured(p) ==
  IF \/ p.resp[1].seq # p.req[1].seq \/ p.resp[1].epoch # p.req[1].epoch
     \/ ~p.resp[1].one /\ (p.fup[1].src # p.resp[1].src \/ p.fup[1].seq # p.resp[1].seq)
  THEN "wrong" ELSE IF p.resp[1].src \in PpFar THEN "far" ELSE "near"
\* port_peer_delay: the rate and the delay; the request is done
PpPeerDelay(p) ==
  IF ~PpPair(p) THEN p
  ELSE [(IF ppKind = "plain" THEN p ELSE PpNrate(p)) EXCEPT !.delay = PpMeasured(p), !.req = PpNil]
\* The start of port_delay_request: the last response and its follow-up are dropped
PpForget(p) == [p EXCEPT !.resp = PpNil, !.fup = PpNil]
\* The tail of port_pdelay_request: the request before it was not answered
PpCounted(p) ==
  IF p.req = PpNil THEN p
  ELSE LET q == PpCapable(p) IN IF q.cap THEN [q EXCEPT !.missing = @ + 1] ELSE q
\* flush_peer_delay, at a fault (port_disable)
PpFlush(p) == [p EXCEPT !.req = PpNil, !.resp = PpNil, !.fup = PpNil]

\* The delay timer: port_delay_request and port_pdelay_request.  The message may not be sent, or its
\* time stamp may be missing, which is a fault.
PpRequest(sent) ==
  /\ ppUp /\ ppMech = "P2P" /\ ppN < PpRequests
  /\ ppN' = ppN + 1
  /\ LET a == PpForget(ppPort)
         b == [a EXCEPT !.several = IF a.multiple THEN @ ELSE 0, !.multiple = FALSE] IN
     \/ /\ sent
        /\ ppPort' = [PpCounted(b) EXCEPT !.req = <<[seq |-> ppN, epoch |-> ppEpoch]>>]
        /\ UNCHANGED ppUp
     \/ /\ ~sent
        /\ ppPort' = PpFlush(b) /\ ppUp' = FALSE
  /\ UNCHANGED <<ppMech, ppSent, ppEnvVars, ppSyncVars>>

\* process_pdelay_req at a responder: a two-step answer is a response and a follow-up, a one-step
\* answer (TS_P2P1STEP) the response alone
PpAnswer(r, one) ==
  /\ ppPort.req # PpNil /\ (one => r \in PpOneStep)
  /\ LET n == ppPort.req[1].seq IN
     /\ \A m \in ppSent : ~(m.to = "me" /\ m.seq = n /\ m.src = r)
     /\ ppSent' = ppSent \cup {[k |-> "resp", seq |-> n, to |-> "me", src |-> r, one |-> one]}
                         \cup (IF one THEN {} ELSE {[k |-> "fup", seq |-> n, to |-> "me", src |-> r, one |-> one]})
  /\ UNCHANGED <<ppMech, ppUp, ppPort, ppN, ppEnvVars, ppSyncVars>>

\* process_pdelay_req at this port, asked by a neighbour: who the neighbour is
PpPeerSeen(p, src) ==
  IF p.peer = "none" THEN [p EXCEPT !.peer = src]
  ELSE IF p.peer # src THEN PpCapable([p EXCEPT !.peer = "none"]) ELSE p
PpAsked(src) ==
  /\ ppUp /\ ppMech # "E2E"
  /\ ppMech' = "P2P"
  /\ ppPort' = PpPeerSeen(PpReceives, src)
  /\ UNCHANGED <<ppUp, ppN, ppSent, ppEnvVars, ppSyncVars>>

\* The head of process_pdelay_resp: a response from a second port
PpSeveral(p, m) ==
  IF p.resp # PpNil /\ p.resp[1].src # m.src /\ ~p.multiple
  THEN [p EXCEPT !.multiple = TRUE, !.several = @ + 1] ELSE p
PpCrowd(p, m) == p.resp # PpNil /\ p.resp[1].src # m.src /\ p.several >= 3
\* process_pdelay_resp, after incapable_ignore has looked at the port: three intervals with two
\* responders, or a response that nobody waits for, are a fault
PpResp(m) ==
  /\ ppUp /\ m \in ppSent /\ m.k = "resp"
  /\ LET a == PpSeveral(PpReceives, m)
         b == PpPeerDelay([PpPeerSeen(a, m.src) EXCEPT
                !.resp = <<[seq |-> m.seq, to |-> m.to, src |-> m.src, one |-> m.one, epoch |-> ppEpoch]>>]) IN
     \/ /\ PpCrowd(a, m) \/ a.req = PpNil
        /\ ppPort' = PpFlush(a) /\ ppUp' = FALSE
     \/ /\ ~PpCrowd(a, m) /\ a.req # PpNil
        /\ ppPort' = b
        /\ UNCHANGED ppUp
  /\ UNCHANGED <<ppMech, ppN, ppSent, ppEnvVars, ppSyncVars>>
\* process_pdelay_resp_fup
PpRespFup(m) ==
  /\ ppUp /\ m \in ppSent /\ m.k = "fup"
  /\ LET a == PpReceives
     IN ppPort' = IF a.req = PpNil THEN a
                  ELSE PpPeerDelay([a EXCEPT !.fup = <<[seq |-> m.seq, to |-> m.to, src |-> m.src]>>])
  /\ UNCHANGED <<ppMech, ppUp, ppN, ppSent, ppEnvVars, ppSyncVars>>

\* The servo steps the clock (SERVO_JUMP): the port that is synchronized drops its request; the
\* other ports of the clock do not
PpJump(mine) ==
  /\ ppEpoch < PpSteps /\ ppEpoch' = ppEpoch + 1
  /\ ppPort' = IF mine THEN [ppPort EXCEPT !.req = PpNil] ELSE ppPort
  /\ ppForeign' = (ppForeign \/ (~mine /\ ppPort.req # PpNil))
  /\ UNCHANGED <<ppKind, ppMech, ppUp, ppN, ppSent, ppSyncVars>>
\* A fault is cleared: port_initialize
PpInitialize(p) ==
  PpNrateInitialize([p EXCEPT !.several = 0, !.multiple = FALSE, !.cap = (ppKind = "always")])
PpRestart ==
  /\ ~ppUp /\ ppUp' = TRUE
  /\ ppPort' = PpInitialize(ppPort)
  /\ UNCHANGED <<ppMech, ppN, ppSent, ppEnvVars, ppSyncVars>>

(***************************************************************************)
(* The master side: Sync and Announce                                      *)
(***************************************************************************)
\* port_sync_incapable: the clock is its own grandmaster and must not be one
PpSyncIncapable(own) == PpIs8021as /\ own
\* port_tx_sync, multicast: with a Follow_Up of the same number.  A link that is not capable
\* sends nothing.
PpTxSync(own, sent) ==
  /\ ppUp /\ ppSeq < PpSyncs
  /\ LET p == PpCapable(ppPort) IN
     /\ ppPort' = IF sent \/ ~p.cap THEN p ELSE PpFlush(p)
     /\ \/ /\ p.cap /\ ~PpSyncIncapable(own)
           /\ ppSkipped' = (ppSkipped \/ ppSeq # ppLast + 1)
           /\ ppLast' = ppSeq /\ ppSeq' = ppSeq + 1
           /\ ppUp' = sent
        \/ /\ ~p.cap \/ PpSyncIncapable(own)
           /\ sent
           /\ UNCHANGED <<ppSyncVars, ppUp>>
  /\ UNCHANGED <<ppMech, ppN, ppSent, ppEnvVars>>
\* port_tx_announce: likewise only on a capable link
PpTxAnnounce(sent) ==
  /\ ppUp
  /\ LET p == PpCapable(ppPort) IN
     /\ ppPort' = IF sent \/ ~p.cap THEN p ELSE PpFlush(p)
     /\ ppUp' = (sent \/ ~p.cap)
  /\ UNCHANGED <<ppMech, ppN, ppSent, ppEnvVars, ppSyncVars>>
\* seqnum.sync after the Sync for a monitor
PpRestored(saved, seq, sync) == saved
\* process_delay_req of a monitor of the network (port_nsm_reply): after the Delay_Resp with the
\* clock's data sets (net_sync_resp_append) a Sync with the number of the request
PpMonitor(seq) ==
  /\ ppUp /\ ppMech # "P2P"
  /\ LET p == PpCapable(PpReceives) IN
     /\ ppPort' = p
     /\ ppSeq' = PpRestored(ppSeq, seq, p.cap)
  /\ UNCHANGED <<ppMech, ppUp, ppN, ppSent, ppLast, ppSkipped, ppEnvVars>>

\* Those that answer in one step also answer another port, whose request had the number 1.
PpOthers == {[k |-> "resp", seq |-> 1, to |-> "other", src |-> r, one |-> TRUE] : r \in PpOneStep}
PpInit ==
  /\ ppKind \in PpKinds /\ ppMech \in PpMechanisms /\ ppUp = TRUE
  /\ ppPort = [req |-> PpNil, resp |-> PpNil, fup |-> PpNil, delay |-> "near", missing |-> PpAllowed + 1,
               several |-> 0, multiple |-> FALSE, peer |-> "none", first |-> FALSE, count |-> 0, valid |-> FALSE,
               cap |-> (ppKind = "always")]
  /\ ppN = 0 /\ ppSent = PpOthers /\ ppEpoch = 0 /\ ppForeign = FALSE
  /\ ppSeq = 0 /\ ppLast = -1 /\ ppSkipped = FALSE
PpNext ==
  \/ \E sent \in BOOLEAN : PpRequest(sent)
  \/ \E r \in PpResponders, one \in BOOLEAN : PpAnswer(r, one)
  \/ \E r \in PpResponders : PpAsked(r)
  \/ \E m \in ppSent : PpResp(m) \/ PpRespFup(m)
  \/ \E mine \in BOOLEAN : PpJump(mine)
  \/ PpRestart
  \/ \E own, sent \in BOOLEAN : PpTxSync(own, sent)
  \/ PpMonitor(0)
  \/ \E sent \in BOOLEAN : PpTxAnnounce(sent)
PpSpec == PpInit /\ [][PpNext]_ppVars

(***************************************************************************)
(* Properties                                                              *)
(***************************************************************************)
\* The fields of struct port and the messages on their way; an exchange holds at most one of each.
PpPeers == PpResponders \cup {"none"}
PpReqs == {PpNil} \cup {<<r>> : r \in [seq : Nat, epoch : Nat]}
PpResps ==
  {PpNil} \cup {<<r>> : r \in [seq : Nat, to : {"me", "other"}, src : PpResponders, one : BOOLEAN, epoch : Nat]}
PpFups == {PpNil} \cup {<<r>> : r \in [seq : Nat, to : {"me", "other"}, src : PpResponders]}
PpPorts ==
  [req : PpReqs, resp : PpResps, fup : PpFups, delay : {"near", "far", "wrong"}, missing : Nat, several : Nat,
   multiple : BOOLEAN, peer : PpPeers, first : BOOLEAN, count : Nat, valid : BOOLEAN, cap : BOOLEAN]
PpMessages == [k : {"resp", "fup"}, seq : Nat, to : {"me", "other"}, src : PpResponders, one : BOOLEAN]
PpTypeOK ==
  /\ ppKind \in PpKinds /\ ppMech \in PpMechanisms \cup {"P2P"} /\ ppUp \in BOOLEAN /\ ppPort \in PpPorts
  /\ ppN \in Nat /\ ppSent \subseteq PpMessages /\ ppEpoch \in Nat /\ ppForeign \in BOOLEAN
  /\ ppSeq \in Nat /\ ppLast \in Int /\ ppSkipped \in BOOLEAN

\* No delay is computed from the stamps of two exchanges, of two responders or from before and
\* after a step of the clock, in whatever order and however often the answers arrive
\* (port_peer_delay).  When the clock is stepped for another port the request is not dropped
\* (port_synchronize), and the port's next delay is wrong by the step.
PpDelaySound == ppPort.delay = "wrong" => ppForeign

\* The multicast Sync messages are numbered without a gap, though a monitor's request borrows the
\* counter for its answer (process_delay_req).
PpNumbered == ~ppSkipped

\* What the port measures, and what it numbers, is of one exchange (port_peer_delay,
\* process_delay_req).
PpSound == PpDelaySound /\ PpNumbered
==============================================================================
