------------------------------ MODULE PtpUnicast ------------------------------
(***************************************************************************)
(* Unicast negotiation of linuxptp: a client port with one master in its    *)
(* table (unicast_client.c, unicast_fsm.c), the service of that master      *)
(* (unicast_service.c, pqueue.c) and the Signaling messages between them    *)
(* (port_signaling.c).  A second client of the service is not linuxptp and  *)
(* asks and cancels as it likes.                                            *)
(*                                                                         *)
(* Time passes in seconds, the client's query interval.  A message arrives  *)
(* or is lost within the second it is sent in, in any order.                *)
(***************************************************************************)
EXTENDS Integers, Sequences, FiniteSets, SequencesExt, FiniteSetsExt

CONSTANTS UcDuration,  \* unicast_req_duration
          UcPeriods,   \* logarithms of the message intervals that are asked for
          UcEnd,       \* seconds the model runs (bound)
          UcLosses,    \* messages lost (bound)
          UcOther,     \* requests of the other client, cancellations by the master, allocations that fail, changes
                       \* of the service's port state and of the client's rate (bound)
          UcMechanisms \* subset of {"E2E", "P2P"}

\* What is granted outlives its renewal by more seconds than messages are lost.
ASSUME UcAssumption ==
  /\ UcDuration \in Nat /\ UcDuration >= 2 /\ UcPeriods \subseteq Nat /\ UcPeriods # {}
  /\ UcLosses \in Nat /\ UcLosses <= UcDuration - (3 * UcDuration) \div 4

VARIABLES ucNow,       \* CLOCK_MONOTONIC
          ucDue,       \* FD_UNICAST_REQ_TIMER has expired
          ucP2p,       \* delayMechanism = DM_P2P
          ucMaster,    \* struct unicast_master_address: state, granted, renewal_tmo
          ucPeer,      \* renewal_tmo of peer_addr
          ucSync,      \* logSyncInterval of the client
          ucNet,       \* Signaling messages under way
          ucLost,      \* history: messages lost
          usIval,      \* intervals of the service: tmo and clients; << >> if there is none
          usTimer,     \* FD_UNICAST_SRV_TIMER: << >> when disarmed
          usMaster,    \* the service's port is in MASTER or GRAND_MASTER
          usDenied,    \* history: a request was denied
          usOps        \* how many of them there were

ucVars == <<ucNow, ucDue, ucP2p, ucMaster, ucPeer, ucSync, ucNet, ucLost, usIval, usTimer, usMaster, usDenied, usOps>>
ucClientVars == <<ucMaster, ucPeer, ucSync>>
usVars == <<usIval, usTimer, usMaster, usDenied, usOps>>

UcClients == {"c", "d"}
UcTypes == {"ANNOUNCE", "SYNC", "DELAY_RESP", "PDELAY_RESP"}
\* E2E_SYDY_MASK, P2P_SYDY_MASK
UcMask == {"ANNOUNCE", "SYNC"} \cup (IF ucP2p THEN {} ELSE {"DELAY_RESP"})

(***************************************************************************)
(* unicast_fsm.c                                                           *)
(***************************************************************************)
UcFsm(s, ev) ==
  CASE s = "WAIT" /\ ev = "GRANT_ANN" -> "HAVE_ANN"
    [] s = "HAVE_ANN" /\ ev = "SELECTED" -> "NEED_SYDY"
    [] s = "NEED_SYDY" /\ ev = "GRANT_SYDY" -> "HAVE_SYDY"
    [] s \in {"NEED_SYDY", "HAVE_SYDY"} /\ ev = "UNSELECTED" -> "HAVE_ANN"
    [] s # "WAIT" /\ ev = "CANCEL" -> "WAIT"
    [] OTHER -> s

(***************************************************************************)
(* unicast_client.c                                                        *)
(***************************************************************************)
\* attach_request: the interval of Announce and Delay_Resp never changes
UcTlv(type) == [type |-> type, per |-> IF type = "SYNC" THEN ucSync ELSE Min(UcPeriods)]
\* port_signaling_uc_construct and port_prepare_and_send
UcRequest(types) == [k |-> "req", tlvs |-> [i \in DOMAIN types |-> UcTlv(types[i])]]
UcDelayTypes == IF ucP2p THEN << >> ELSE <<"DELAY_RESP">>
\* unicast_client_announce, unicast_client_sydy
UcAnnounce == {UcRequest(<<"ANNOUNCE">>)}
UcSydy == {UcRequest(<<"SYNC">> \o UcDelayTypes)}
\* Is the renewal due?  It is asked for every second until a grant sets the time again.
UcRenewDue(tmo) == ucNow >= tmo
\* unicast_client_renew
UcRenew(m) ==
  IF UcRenewDue(m.tmo)
  THEN {UcRequest(<<"ANNOUNCE">> \o (IF m.state = "HAVE_SYDY" THEN <<"SYNC">> \o UcDelayTypes ELSE << >>))} ELSE {}
\* unicast_client_peer_renew
UcPeerRenew == IF ucP2p /\ UcRenewDue(ucPeer) THEN {UcRequest(<<"PDELAY_RESP">>)} ELSE {}
\* unicast_client_set_renewal
UcSetRenewal(tmo, duration) ==
  LET new == ucNow + (3 * duration) \div 4 IN IF tmo = 0 \/ new < tmo THEN new ELSE tmo

\* unicast_client_timer, unicast_client_set_tmo
UcTimer ==
  /\ ucDue /\ ucDue' = FALSE
  /\ ucNet' = ucNet \cup UcPeerRenew \cup (CASE ucMaster.state = "WAIT" -> UcAnnounce
                                              [] ucMaster.state = "NEED_SYDY" -> UcSydy
                                              [] OTHER -> UcRenew(ucMaster))
  /\ ucMaster' = [ucMaster EXCEPT !.tmo = IF ucMaster.state \in {"HAVE_ANN", "HAVE_SYDY"} /\ UcRenewDue(@) THEN 0 ELSE @]
  /\ ucPeer' = IF ucP2p /\ UcRenewDue(ucPeer) THEN 0 ELSE ucPeer
  /\ UNCHANGED <<ucNow, ucP2p, ucSync, ucLost, usVars>>

\* The tail of unicast_client_grant: a grant that is not for the peer delay, with a duration
UcGranted(m, type, duration) ==
  LET g == [m EXCEPT !.granted = @ \cup {type}]
      full == UcMask \subseteq g.granted IN
  CASE m.state = "WAIT" /\ type = "ANNOUNCE" ->
         [g EXCEPT !.state = UcFsm(@, "GRANT_ANN"), !.tmo = UcSetRenewal(@, duration)]
    [] m.state = "NEED_SYDY" /\ type \in {"DELAY_RESP", "SYNC"} ->
         [g EXCEPT !.state = IF full THEN UcFsm(@, "GRANT_SYDY") ELSE @, !.tmo = UcSetRenewal(@, duration)]
    [] m.state = "HAVE_SYDY" /\ type \in {"ANNOUNCE", "DELAY_RESP", "SYNC"} ->
         [g EXCEPT !.tmo = UcSetRenewal(@, duration)]
    [] OTHER -> g
\* unicast_client_grant
UcGrant(g) ==
  /\ g \in ucNet /\ g.k = "grant"
  /\ ucNet' = ucNet \ {g}
  /\ \/ /\ g.dur = 0 \* denied
        /\ ucMaster' = [ucMaster EXCEPT !.state = IF g.type = "PDELAY_RESP" THEN @ ELSE "WAIT"]
        /\ UNCHANGED <<ucPeer, ucSync>>
     \/ /\ g.dur > 0 /\ ucP2p /\ g.type = "DELAY_RESP"
        /\ UNCHANGED <<ucMaster, ucPeer, ucSync>>
     \/ /\ g.dur > 0 /\ ucP2p /\ g.type = "PDELAY_RESP"
        /\ ucPeer' = UcSetRenewal(ucPeer, g.dur)
        /\ UNCHANGED <<ucMaster, ucSync>>
     \/ /\ g.dur > 0 /\ ~(ucP2p /\ g.type \in {"DELAY_RESP", "PDELAY_RESP"})
        /\ ucMaster' = UcGranted(ucMaster, g.type, g.dur)
        \* clock_sync_interval
        /\ ucSync' = IF ucMaster.state = "NEED_SYDY" /\ g.type = "SYNC" THEN g.per ELSE ucSync
        /\ UNCHANGED ucPeer
  /\ UNCHANGED <<ucNow, ucDue, ucP2p, ucLost, usVars>>
\* unicast_client_cancel and attach_ack: the master takes back a grant.  linuxptp's own service never does.
UcCancel(type) ==
  /\ usOps < UcOther /\ usOps' = usOps + 1
  /\ type # "PDELAY_RESP"
  /\ ucMaster' = [ucMaster EXCEPT !.state = UcFsm(@, "CANCEL"), !.granted = @ \ {type}]
  /\ UNCHANGED <<ucNow, ucDue, ucP2p, ucPeer, ucSync, ucNet, ucLost, usIval, usTimer, usMaster, usDenied>>
\* unicast_client_state_changed: the port changed its state, and the master is its parent or not
UcStateChanged(selected) ==
  /\ ucMaster' = [ucMaster EXCEPT !.state = UcFsm(@, IF selected THEN "SELECTED" ELSE "UNSELECTED")]
  /\ UNCHANGED <<ucNow, ucDue, ucP2p, ucPeer, ucSync, ucNet, ucLost, usVars>>
\* process_interval_request with set_interval, at the client: another logSyncInterval
UcInterval(per) ==
  /\ usOps < UcOther /\ usOps' = usOps + 1
  /\ ucSync' = per
  /\ UNCHANGED <<ucNow, ucDue, ucP2p, ucMaster, ucPeer, ucNet, ucLost, usIval, usTimer, usMaster, usDenied>>

(***************************************************************************)
(* unicast_service.c.  The service s is a pair of the intervals and of the  *)
(* armed timer.  An interval has the types and the grant_tmo of each        *)
(* client; a client without a type is not in its list.                      *)
(***************************************************************************)
\* interval_increment with log_to_timespec, periods of a second and more
UcSeconds(per) == 2 ^ per
UcEmpty == [tmo |-> ucNow, types |-> [c \in UcClients |-> {}], till |-> [c \in UcClients |-> 0]]
\* unicast_service_rearm_timer with pqueue_peek: the earliest interval (timespec_compare)
UsRearm(iv) == LET tmos == {iv[p].tmo : p \in {q \in UcPeriods : iv[q] # << >>}} IN
               IF tmos = {} THEN << >> ELSE <<Min(tmos)>>
\* unicast_service_extend
UsExtend(i, c) == [i EXCEPT !.till[c] = Max({@, ucNow + UcDuration})]
UsDrop(i, c, type) ==
  LET left == i.types[c] \ {type} IN
  [i EXCEPT !.types[c] = left, !.till[c] = IF left = {} THEN 0 ELSE @]
\* Mutant: the interval that served the client until now keeps it.
UsMigrateKeep(iv, c, type, per) == iv
\* The client asks for another interval: the others serve it no longer
UsMigrate(iv, c, type, per) ==
  [p \in UcPeriods |-> IF p = per \/ iv[p] = << >> THEN iv[p] ELSE UsDrop(iv[p], c, type)]
\* unicast_service_add: the intervals, the timer and the answer.  Memory may not suffice for a new
\* client ("client") nor for a new interval or its place in the queue ("interval").
UsAdd(s, c, type, per, fail) ==
  LET old == s.iv[per]
      others == UsMigrate(s.iv, c, type, per)
      put(i) == [others EXCEPT ![per] = UsExtend([i EXCEPT !.types[c] = @ \cup {type}], c)]
      granted(iv) == [s EXCEPT !.iv = iv, !.ok = TRUE]
      denied == [s EXCEPT !.iv = others, !.ok = FALSE] IN
  CASE type \in {"DELAY_RESP", "PDELAY_RESP"} -> [s EXCEPT !.ok = TRUE]
    [] type \notin {"DELAY_RESP", "PDELAY_RESP"} /\ old # << >> /\ type \in old.types[c] ->
         granted([s.iv EXCEPT ![per] = UsExtend(old, c)])
    [] type \notin {"DELAY_RESP", "PDELAY_RESP"} /\ old # << >> /\ type \notin old.types[c] ->
         IF old.types[c] = {} /\ fail = "client" THEN denied ELSE granted(put(old))
    [] OTHER -> \* initialize_interval, pqueue_insert
         IF fail # "none" THEN denied ELSE [granted(put(UcEmpty)) EXCEPT !.timer = UsRearm(put(UcEmpty))]
\* unicast_service_grant, unicast_service_deny, unicast_service_reply with attach_grant
UsReply(c, tlv, ok) ==
  IF c # "c" THEN {} ELSE {[k |-> "grant", type |-> tlv.type, per |-> tlv.per, dur |-> IF ok THEN UcDuration ELSE 0]}
\* process_signaling: each request of the message in turn
UsStep(c, fail, s, tlv) ==
  LET n == UsAdd(s, c, tlv.type, tlv.per, fail) IN
  [n EXCEPT !.out = @ \cup UsReply(c, tlv, n.ok), !.denied = @ \/ ~n.ok]
UsServed(c, tlvs, fail) ==
  FoldLeft(LAMBDA s, tlv : UsStep(c, fail, s, tlv),
           [iv |-> usIval, timer |-> usTimer, ok |-> TRUE, out |-> {}, denied |-> FALSE], tlvs)
UsProcess(c, tlvs, fail) ==
  LET s == UsServed(c, tlvs, fail) IN
  /\ usIval' = s.iv /\ usTimer' = s.timer
  /\ usDenied' = (usDenied \/ (c = "c" /\ s.denied))
  /\ ucNet' = s.out \cup {m \in ucNet : m.k # "req" \/ c # "c" \/ m.tlvs # tlvs}
UsSignal(m, fail) ==
  /\ m \in ucNet /\ m.k = "req"
  /\ fail # "none" => usOps < UcOther
  /\ usOps' = usOps + (IF fail = "none" THEN 0 ELSE 1)
  /\ UsProcess("c", m.tlvs, fail)
  /\ UNCHANGED <<ucNow, ucDue, ucP2p, ucClientVars, ucLost, usMaster>>
\* A request of the other client
UsOtherAsks(type, per) ==
  /\ usOps < UcOther /\ usOps' = usOps + 1
  /\ UsProcess("d", <<[type |-> type, per |-> per]>>, "none")
  /\ UNCHANGED <<ucNow, ucDue, ucP2p, ucClientVars, ucLost, usMaster>>
\* unicast_service_remove: the other client cancels
UsRemove(type) ==
  /\ type \in {"ANNOUNCE", "SYNC"}
  /\ \E p \in UcPeriods :
       /\ usIval[p] # << >> /\ type \in usIval[p].types["d"]
       /\ usIval' = [usIval EXCEPT ![p] = UsDrop(@, "d", type)]
  /\ UNCHANGED <<ucNow, ucDue, ucP2p, ucClientVars, ucNet, ucLost, usTimer, usMaster, usDenied, usOps>>

\* unicast_service_clients: the grants that have run out
UsClients(i) == [i EXCEPT !.types = [c \in UcClients |-> IF ucNow > i.till[c] THEN {} ELSE i.types[c]],
                          !.till = [c \in UcClients |-> IF ucNow > i.till[c] THEN 0 ELSE i.till[c]]]
\* The loop of unicast_service_timer for one interval: only a master looks at the clients, but an interval
\* that has none goes in either case (pqueue_extract); else it turns until it is no longer due (pqueue_insert).
UsNext(tmo, per) == Min({t \in {tmo + n * UcSeconds(per) : n \in 1 .. UcEnd} : t > ucNow})
UsTurn(i, per) ==
  LET j == IF usMaster THEN UsClients(i) ELSE i IN
  IF i = << >> \/ i.tmo > ucNow THEN i
  ELSE IF \A c \in UcClients : j.types[c] = {} THEN << >> ELSE [j EXCEPT !.tmo = UsNext(@, per)]
UsDue == usTimer # << >> /\ usTimer[1] <= ucNow
\* unicast_service_timer
UsTimer ==
  /\ UsDue
  /\ usIval' = [p \in UcPeriods |-> UsTurn(usIval[p], p)]
  /\ usTimer' = UsRearm(usIval')
  /\ UNCHANGED <<ucNow, ucDue, ucP2p, ucClientVars, ucNet, ucLost, usMaster, usDenied, usOps>>
\* The port of the service becomes a master or ceases to be one
UsPortState ==
  /\ usOps < UcOther /\ usOps' = usOps + 1
  /\ usMaster' = ~usMaster
  /\ UNCHANGED <<ucNow, ucDue, ucP2p, ucClientVars, ucNet, ucLost, usIval, usTimer, usDenied>>

UcLose(m) ==
  /\ m \in ucNet /\ ucLost < UcLosses
  /\ ucNet' = ucNet \ {m} /\ ucLost' = ucLost + 1
  /\ UNCHANGED <<ucNow, ucDue, ucP2p, ucClientVars, usVars>>
\* The next second: what was due in this one has happened.
UcTick ==
  /\ ucNow < UcEnd /\ ~ucDue /\ ucNet = {} /\ ~UsDue
  /\ ucNow' = ucNow + 1 /\ ucDue' = TRUE
  /\ UNCHANGED <<ucP2p, ucClientVars, ucNet, ucLost, usVars>>

\* unicast_client_initialize with clone_master_table, unicast_service_initialize with pqueue_create
UcInit ==
  /\ ucNow = 1 /\ ucDue = TRUE /\ ucP2p \in {m = "P2P" : m \in UcMechanisms}
  /\ ucMaster = [state |-> "WAIT", granted |-> {}, tmo |-> 0]
  /\ ucPeer = 0 /\ ucSync = Min(UcPeriods) /\ ucNet = {} /\ ucLost = 0
  /\ usIval = [p \in UcPeriods |-> << >>] /\ usTimer = << >> /\ usMaster = TRUE /\ usDenied = FALSE /\ usOps = 0
UcNext ==
  \/ UcTimer \/ UcTick \/ UsTimer \/ UsPortState
  \/ \E g \in ucNet : UcGrant(g) \/ UcLose(g)
  \/ \E m \in ucNet, fail \in {"none", "client", "interval"} : UsSignal(m, fail)
  \/ \E type \in UcTypes : UcCancel(type) \/ UsRemove(type)
  \/ \E type \in {"ANNOUNCE", "SYNC"}, per \in UcPeriods : UsOtherAsks(type, per)
  \/ \E selected \in BOOLEAN : UcStateChanged(selected)
  \/ \E per \in UcPeriods : UcInterval(per)

UcSpec == UcInit /\ [][UcNext]_ucVars

(***************************************************************************)
(* Properties                                                              *)
(***************************************************************************)
\* A client gets a type of message from one interval of the service only, however often it asks
\* for another rate (unicast_service_add).
UsOnce ==
  \A c \in UcClients, type \in {"ANNOUNCE", "SYNC"} :
    Cardinality({p \in UcPeriods : usIval[p] # << >> /\ type \in usIval[p].types[c]}) <= 1

\* A client that has its Sync messages keeps them: as long as it takes them for granted the
\* service serves them, though one request or answer is lost, the rate is changed and the
\* service's port leaves the master state for a while (unicast_client_set_renewal renews at three
\* quarters of the time and then each second).  After a denial this need not hold: the service
\* has taken the client out of its old interval, and a stale bit of "granted" hides it.
UcNoGap ==
  ucMaster.state = "HAVE_SYDY" /\ ~usDenied =>
    \E p \in UcPeriods : usIval[p] # << >> /\ "SYNC" \in usIval[p].types["c"] /\ ucNow <= usIval[p].till["c"]

\* A negotiated service is neither interrupted nor doubled (unicast_client_timer,
\* unicast_service_add).
UcSound == UcNoGap /\ UsOnce
==============================================================================
