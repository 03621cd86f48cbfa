------------------------------- MODULE PtpMgmt -------------------------------
(***************************************************************************)
(* PTP management: clock_manage and port_manage, which forward a management *)
(* message to the other ports, answer it and send event notifications       *)
(* (clock.c, port.c), and the client pmc (pmc_common.c, uds.c).             *)
(*                                                                         *)
(* The clocks stand in a row: port 2 of clock i and port 1 of clock i + 1   *)
(* are the ends of one link.  The clients talk to clock 1 through its local *)
(* socket, port 0.  The ids are one or two of each class that the handlers  *)
(* tell apart.                                                              *)
(***************************************************************************)
EXTENDS Integers, Sequences, FiniteSets

CONSTANTS MgClocks,    \* number of clocks
          MgClients,   \* programs that use the local socket of clock 1
          MgAsks,      \* what they may ask: records of act, id, clock, port, hops, len, val
          MgRequests,  \* requests in all (bound)
          MgEvents,    \* port state changes, losses, seconds (bound)
          MgLife       \* duration of a subscription in seconds

VARIABLES mgUds,    \* datagrams of the clients to clock 1
          mgAddr,   \* uds->address of clock 1: the client that was read last
          mgNet,    \* messages on the links, at the port where they will arrive
          mgFwd,    \* ports whose state is one of forwarding()
          mgPrio,   \* priority1 of the clocks
          mgThresh, \* neighborPropDelayThresh of the ports
          mgSubs,   \* subscribers of clock 1
          mgGot,    \* history: answers and notifications the clients have received
          mgAsked,  \* history: the requests
          mgCut,    \* history: a port changed its state or a message was lost
          mgSeq,    \* sequence_id of the next request
          mgNow, mgEvents

mgVars == <<mgUds, mgAddr, mgNet, mgFwd, mgPrio, mgThresh, mgSubs, mgGot, mgAsked, mgCut, mgSeq, mgNow, mgEvents>>
mgHistVars == <<mgAsked, mgCut, mgSeq, mgNow, mgEvents>>

MgClock == 1 .. MgClocks
\* All clocks, or all ports, and the target of an answer: the client, which is no clock
MgAll == 0
MgNobody == 99
MgPort == {<<c, p>> : c \in MgClock, p \in {1, 2}}
\* The other end of a port's link
MgPeer(c, p) == IF p = 2 THEN <<c + 1, 1>> ELSE <<c - 1, 2>>

\* Ids that the clock answers to GET (clock_management_fill_response), takes from SET, and all it deals with
MgClockGet == {"PRIORITY1", "TIME_STATUS_NP", "SUBSCRIBE_EVENTS_NP", "SYNCHRONIZATION_UNCERTAIN_NP"}
MgClockSet == {"PRIORITY1", "SUBSCRIBE_EVENTS_NP", "SYNCHRONIZATION_UNCERTAIN_NP"}
MgClockIds == MgClockGet \cup {"TIME", "FAULT_LOG"}
\* Ids of the ports
MgPortGet == {"NULL_MANAGEMENT", "PORT_DATA_SET", "PORT_DATA_SET_NP", "PORT_PROPERTIES_NP"}
MgPortIds == {"NULL_MANAGEMENT", "PORT_DATA_SET", "ENABLE_PORT"}

(***************************************************************************)
(* pmc                                                                     *)
(***************************************************************************)
\* idtab: what a command may send; other programs send the rest
MgPmcSends(act, id) ==
  \/ act = "GET" /\ id \notin {"TIME", "FAULT_LOG", "ENABLE_PORT", "NO_SUCH"}
  \/ act = "SET" /\ id \in MgClockSet \cup {"PORT_DATA_SET_NP"}
\* pmc_send_get_action, pmc_send_set_action: pmc_tlv_datalen knows the length of a GET; the messages of other
\* programs may have others
MgLength(act, id) ==
  IF act = "GET" /\ id \in {"SUBSCRIBE_EVENTS_NP", "SYNCHRONIZATION_UNCERTAIN_NP", "NULL_MANAGEMENT", "PORT_PROPERTIES_NP"}
  THEN "none" ELSE "full"
\* pmc_message
MgMessage(x, a, seq) ==
  [act |-> a.act, id |-> a.id, clock |-> a.clock, port |-> a.port, len |-> a.len, val |-> a.val,
   hops |-> a.hops, start |-> a.hops, client |-> x, seq |-> seq, from |-> <<0, 0>>, err |-> "none"]
MgSend(x, a) ==
  /\ mgSeq < MgRequests /\ mgSeq' = mgSeq + 1
  /\ mgUds' = Append(mgUds, MgMessage(x, a, mgSeq))
  /\ mgAsked' = mgAsked \cup {MgMessage(x, a, mgSeq)}
  /\ UNCHANGED <<mgAddr, mgNet, mgFwd, mgPrio, mgThresh, mgSubs, mgGot, mgCut, mgNow, mgEvents>>
MgCommand(x) ==
  \E a \in MgAsks : MgPmcSends(a.act, a.id) /\ a.len = MgLength(a.act, a.id) /\ MgSend(x, a)
MgOtherProgram(x) ==
  \E a \in MgAsks : ~(MgPmcSends(a.act, a.id) /\ a.len = MgLength(a.act, a.id)) /\ MgSend(x, a)

(***************************************************************************)
(* clock_manage.  out is what it sends: for the links, and for the socket   *)
(***************************************************************************)
MgIsRequest(m) == m.act \in {"GET", "SET", "COMMAND"}
\* forwarding: the local port is never faulty
MgForwarding(c, p) == p = 0 \/ <<c, p>> \in mgFwd
\* clock_do_forward_mgmt: requests do not go to the local socket
MgOutPorts(c, in) ==
  {p \in {1, 2} : p # in /\ <<c, p>> \in mgFwd /\ MgPeer(c, p)[1] \in MgClock}
MgForwards(c, in, m) == MgForwarding(c, in) /\ m.hops > 0
MgForwarded(c, in, m) ==
  IF MgForwards(c, in, m)
  THEN [net |-> {[at |-> MgPeer(c, p), m |-> [m EXCEPT !.hops = @ - 1]] : p \in MgOutPorts(c, in)},
        uds |-> IF in # 0 /\ c = 1 /\ ~MgIsRequest(m) THEN {[m EXCEPT !.hops = @ - 1]} ELSE {}]
  ELSE [net |-> {}, uds |-> {}]
\* The port transmits on its link also when nobody is there: then too the message is parsed again
MgPrepared(c, in, m) ==
  \/ \E p \in {1, 2} : p # in /\ <<c, p>> \in mgFwd
  \/ in # 0 /\ ~MgIsRequest(m)
\* boundaryHops when the message is handled: it is given back only if something was prepared
MgHopsLeft(c, in, m) ==
  IF MgForwards(c, in, m) /\ ~MgPrepared(c, in, m) THEN m.hops - 1 ELSE m.hops

\* Mutant: the answer gets the hops that are left.
MgReplyHopsLeft(m, left) == left
\* port_management_reply: as many hops as the request has come
MgReplyHops(m, left) == m.start - left
MgReply(c, in, m, from, val, err) ==
  [act |-> IF m.act = "COMMAND" THEN "ACKNOWLEDGE" ELSE "RESPONSE", id |-> m.id, clock |-> MgNobody, port |-> MgAll,
   len |-> "full", val |-> val, hops |-> MgReplyHops(m, MgHopsLeft(c, in, m)), start |-> MgReplyHops(m, MgHopsLeft(c, in, m)),
   client |-> m.client, seq |-> m.seq, from |-> from, err |-> err]

\* clock_get_subscription
MgDuration(subs, x) == IF x \in DOMAIN subs /\ subs[x].exp >= mgNow THEN subs[x].exp - mgNow ELSE 0
\* clock_management_fill_response and port_management_fill_response
MgValue(c, in, m, prio, subs) ==
  CASE m.id = "PRIORITY1" -> prio
    [] m.id = "SUBSCRIBE_EVENTS_NP" -> IF in # 0 THEN 0 ELSE MgDuration(subs, m.client)
    [] OTHER -> 0
\* clock_update_subscription; val 0 is an empty bit mask
MgSubscribe(x, on) ==
  IF ~on THEN [y \in DOMAIN mgSubs \ {x} |-> mgSubs[y]]
  ELSE [y \in DOMAIN mgSubs \cup {x} |->
          IF y # x THEN mgSubs[y]
          ELSE [exp |-> mgNow + MgLife, seq |-> IF x \in DOMAIN mgSubs THEN mgSubs[x].seq ELSE 0]]
\* The value may be set (clock_management_set)
MgTaken(m) == m.id \in MgClockSet /\ (m.id = "SYNCHRONIZATION_UNCERTAIN_NP" => m.val < 3)
\* port_manage: the ports it is meant for; an id nobody knows ends the walk at the first of them
MgMine(c, m) == {p \in {1, 2} : m.port \in {p, MgAll}}
MgPortReply(c, in, m, p) ==
  CASE \/ m.act = "GET" /\ m.id \in MgPortGet
       \/ m.act = "SET" /\ m.id = "PORT_DATA_SET_NP"
         -> MgReply(c, in, m, <<c, p>>, IF m.act = "SET" THEN m.val ELSE mgThresh[<<c, p>>], "none")
    [] m.id \in MgPortIds -> MgReply(c, in, m, <<c, p>>, 0, "NOT_SUPPORTED")
    [] OTHER -> MgReply(c, in, m, <<c, p>>, 0, "NO_SUCH_ID")
MgPortsAnswer(c, in, m) ==
  LET all == {MgPortReply(c, in, m, p) : p \in MgMine(c, m)} IN
  IF all = {} THEN {MgReply(c, in, m, <<c, in>>, 0, "WRONG_VALUE")}
  ELSE IF \E r \in all : r.err = "NO_SUCH_ID" THEN {CHOOSE r \in all : \A q \in all : r.from[2] <= q.from[2]} ELSE all

\* What becomes of the message: the answers and the data sets
MgSame(c) == [prio |-> mgPrio[c], thresh |-> mgThresh, subs |-> mgSubs]
MgError(c, in, m, e) == [ans |-> {MgReply(c, in, m, <<c, in>>, 0, e)}, ds |-> MgSame(c)]
MgHandled(c, in, m) ==
  IF ~(MgIsRequest(m) /\ m.clock \in {c, MgAll}) THEN [ans |-> {}, ds |-> MgSame(c)]
  ELSE IF m.act = "GET" /\ m.id \in MgClockGet
  THEN [ans |-> {MgReply(c, in, m, <<c, in>>, MgValue(c, in, m, mgPrio[c], mgSubs), "none")}, ds |-> MgSame(c)]
  ELSE IF m.act = "SET" /\ m.len = "none" /\ m.id # "NULL_MANAGEMENT" THEN MgError(c, in, m, "WRONG_LENGTH")
  ELSE IF m.act = "SET" /\ in # 0 THEN MgError(c, in, m, "NOT_SUPPORTED")
  ELSE IF m.act = "SET" /\ MgTaken(m)
  THEN LET prio == IF m.id = "PRIORITY1" THEN m.val ELSE mgPrio[c]
           subs == IF m.id = "SUBSCRIBE_EVENTS_NP" THEN MgSubscribe(m.client, m.val # 0) ELSE mgSubs IN
       [ans |-> {MgReply(c, in, m, <<c, in>>, MgValue(c, in, m, prio, subs), "none")},
        ds |-> [MgSame(c) EXCEPT !.prio = prio, !.subs = subs]]
  ELSE IF m.id = "PORT_PROPERTIES_NP" /\ in # 0 THEN MgError(c, in, m, "NOT_SUPPORTED")
  ELSE IF m.id \in MgClockIds THEN MgError(c, in, m, "NOT_SUPPORTED")
  ELSE [ans |-> MgPortsAnswer(c, in, m),
        ds |-> IF m.act = "SET" /\ m.id = "PORT_DATA_SET_NP"
               THEN [MgSame(c) EXCEPT !.thresh = [q \in MgPort |-> IF q[1] = c /\ q[2] \in MgMine(c, m) THEN m.val ELSE @[q]]]
               ELSE MgSame(c)]
\* clock_manage: everything that is sent
MgManage(c, in, m, addr, net) ==
  LET f == MgForwarded(c, in, m)
      h == MgHandled(c, in, m)
      link == IF in = 0 THEN {} ELSE {[at |-> MgPeer(c, in), m |-> a] : a \in h.ans}
      local == f.uds \cup (IF in = 0 THEN h.ans ELSE {}) IN
  /\ mgNet' = net \cup f.net \cup link
  /\ mgGot' = IF addr = "none" THEN mgGot ELSE [mgGot EXCEPT ![addr] = @ \cup local]
  /\ mgPrio' = [mgPrio EXCEPT ![c] = h.ds.prio] /\ mgThresh' = h.ds.thresh /\ mgSubs' = h.ds.subs

\* A datagram of a client is read (uds_recv notes its address), or a message arrives on a link
MgFromClient ==
  /\ mgUds # << >> /\ mgUds' = Tail(mgUds)
  /\ mgAddr' = Head(mgUds).client
  /\ MgManage(1, 0, Head(mgUds), Head(mgUds).client, mgNet)
  /\ UNCHANGED <<mgFwd, mgHistVars>>
MgFromLink ==
  \E e \in mgNet :
    /\ MgManage(e.at[1], e.at[2], e.m, mgAddr, mgNet \ {e})
    /\ UNCHANGED <<mgUds, mgAddr, mgFwd, mgHistVars>>

(***************************************************************************)
(* Events                                                                  *)
(***************************************************************************)
MgEvent == mgEvents < MgEvents /\ mgEvents' = mgEvents + 1
\* A port changes its state; port 1 and 2 of clock 1 notify the subscribers (port_notify_event,
\* clock_send_notification: each has its own numbers and address)
MgPortState(c, p) ==
  /\ MgEvent /\ mgCut' = TRUE
  /\ mgFwd' = IF <<c, p>> \in mgFwd THEN mgFwd \ {<<c, p>>} ELSE mgFwd \cup {<<c, p>>}
  /\ IF c # 1 THEN UNCHANGED <<mgGot, mgSubs>>
     ELSE /\ mgGot' = [x \in MgClients |-> IF x \in DOMAIN mgSubs
                                           THEN mgGot[x] \cup {[act |-> "NOTIFY", seq |-> mgSubs[x].seq, from |-> <<c, p>>, client |-> x]}
                                           ELSE mgGot[x]]
          /\ mgSubs' = [x \in DOMAIN mgSubs |-> [mgSubs[x] EXCEPT !.seq = @ + 1]]
  /\ UNCHANGED <<mgUds, mgAddr, mgNet, mgPrio, mgThresh, mgAsked, mgSeq, mgNow>>
MgLost ==
  \E e \in mgNet : /\ MgEvent /\ mgCut' = TRUE /\ mgNet' = mgNet \ {e}
                   /\ UNCHANGED <<mgUds, mgAddr, mgFwd, mgPrio, mgThresh, mgSubs, mgGot, mgAsked, mgSeq, mgNow>>
\* A second passes, and clock_poll prunes the subscriptions
MgSecond ==
  /\ MgEvent /\ mgNow' = mgNow + 1
  /\ mgSubs' = [x \in {y \in DOMAIN mgSubs : mgSubs[y].exp > mgNow'} |-> mgSubs[x]]
  /\ UNCHANGED <<mgUds, mgAddr, mgNet, mgFwd, mgPrio, mgThresh, mgGot, mgAsked, mgCut, mgSeq>>

MgInit ==
  /\ mgUds = << >> /\ mgAddr = "none" /\ mgNet = {}
  /\ mgFwd \in {MgPort, MgPort \ {<<1, 1>>, <<MgClocks, 2>>}}
  /\ mgPrio = [c \in MgClock |-> 128] /\ mgThresh = [q \in MgPort |-> 0] /\ mgSubs = << >>
  /\ mgGot = [x \in MgClients |-> {}] /\ mgAsked = {} /\ mgCut = FALSE /\ mgSeq = 0 /\ mgNow = 0 /\ mgEvents = 0
MgNext ==
  \/ \E x \in MgClients : MgCommand(x) \/ MgOtherProgram(x)
  \/ MgFromClient \/ MgFromLink
  \/ \E c \in MgClock, p \in {1, 2} : MgPortState(c, p)
  \/ MgLost \/ MgSecond

(***************************************************************************)
(* Properties                                                              *)
(***************************************************************************)
MgDistance(c) == c - 1
\* The answers to a request that some client has received from a clock
MgAnswers(r, c) == {a \in UNION {mgGot[x] : x \in MgClients} : a.act # "NOTIFY" /\ a.client = r.client /\ a.seq = r.seq /\ a.from[1] = c}
MgAllPorts(r) == r.act = "GET" /\ r.id \in MgPortGet \ {"PORT_PROPERTIES_NP"} /\ r.port = MgAll
\* Every clock that a request is meant for and that is within its boundary hops answers it, and the
\* answer gets back to the local socket: once as the clock, or once for every port that was asked,
\* whether or not the request could be carried out.  No clock beyond the hops answers.  (No port
\* changes its state and no message is lost.)
MgAnswered ==
  ~mgCut /\ mgUds = << >> /\ mgNet = {} =>
    \A r \in mgAsked : \A c \in MgClock :
      LET n == Cardinality(MgAnswers(r, c)) IN
      IF r.clock \in {c, MgAll} /\ MgDistance(c) <= r.hops
      THEN n >= 1 /\ n <= 2 /\ (MgAllPorts(r) <=> n = 2)
      ELSE n = 0
==============================================================================
