------------------------------- MODULE PtpBmc -------------------------------
(***************************************************************************)
(* linuxptp's best master clock algorithm.  First its pure parts: the      *)
(* state machines of a port (fsm.c, designated_fsm.c), the comparison of   *)
(* data sets and the recommended state of a port (bmc.c).  Then a clock    *)
(* and its ports (clock.c, port.c): foreign masters and their Announce     *)
(* messages, the timers of a port, faults, links, and the state decision   *)
(* event that ends a poll.                                                 *)
(*                                                                         *)
(* A data set is a record.  Its fields priority1, quality (class, accuracy *)
(* and variance, compared in this order) and priority2 are numbers, better *)
(* when smaller.  A port identity is <<clock, port number>>.               *)
(*                                                                         *)
(* clock_poll handles the descriptors of all ports that one poll found     *)
(* ready, and acts on a timer that an earlier one of them has disarmed.    *)
(* Here a poll returns one Announce message, one link event, or up to      *)
(* PtFires timers.  A message of a foreign master becomes too old          *)
(* (msg_current) at any time, the oldest first.                            *)
(***************************************************************************)
EXTENDS Integers, Sequences, SequencesExt, FiniteSets, TLC

\* port_is_enabled
PtEnabled(s) == s \notin {"INITIALIZING", "FAULTY", "DISABLED"}

----------------------------------------------------------------------------
\* What every machine does outside the enabled states, rest being what its enabled
\* states do: a function from states to functions from events to states.
PtDown(ready) ==
  "INITIALIZING" :> ("FAULT_DETECTED" :> "FAULTY" @@ "INIT_COMPLETE" :> ready)
  @@ "FAULTY" :> ("FAULT_CLEARED" :> "INITIALIZING")

PtStops == "DESIGNATED_DISABLED" :> "DISABLED" @@ "FAULT_DETECTED" :> "FAULTY"
PtManaged ==
  "FAULTY" :> ("DESIGNATED_DISABLED" :> "DISABLED" @@ "FAULT_CLEARED" :> "INITIALIZING")
  @@ "DISABLED" :> ("DESIGNATED_ENABLED" :> "INITIALIZING")

\* ptp_fsm
PtTable ==
  LET silent == "ANNOUNCE_TIMEOUT" :> "MASTER"
      leads  == "RS_MASTER" :> "PRE_MASTER" @@ "RS_GRAND_MASTER" :> "GRAND_MASTER"
      slave  == "RS_SLAVE" :> "UNCALIBRATED"
      steps  == "RS_PASSIVE" :> "PASSIVE"
  IN  PtManaged @@ PtDown("LISTENING")
      @@ "LISTENING" :> (PtStops @@ silent @@ leads @@ slave @@ steps)
      @@ "PRE_MASTER" :> (PtStops @@ "QUALIFICATION_TIMEOUT" :> "MASTER" @@ slave @@ steps)
      @@ "MASTER" :> (PtStops @@ slave @@ steps)
      @@ "GRAND_MASTER" :> (PtStops @@ slave @@ steps)
      @@ "PASSIVE" :> (PtStops @@ silent @@ leads @@ slave)
      @@ "UNCALIBRATED" :> (PtStops @@ silent @@ leads @@ slave @@ steps
                            @@ "MASTER_CLOCK_SELECTED" :> "SLAVE")
      @@ "SLAVE" :> (PtStops @@ silent @@ leads @@ steps
                     @@ "SYNCHRONIZATION_FAULT" :> "UNCALIBRATED")

\* ptp_slave_fsm
PtSlaveTable ==
  LET alone == [e \in {"ANNOUNCE_TIMEOUT", "RS_MASTER", "RS_GRAND_MASTER", "RS_PASSIVE"}
                  |-> "LISTENING"]
  IN  PtManaged @@ PtDown("LISTENING")
      @@ "LISTENING" :> (PtStops @@ alone @@ "RS_SLAVE" :> "UNCALIBRATED")
      @@ "UNCALIBRATED" :> (PtStops @@ alone @@ "MASTER_CLOCK_SELECTED" :> "SLAVE")
      @@ "SLAVE" :> (PtStops @@ alone @@ "SYNCHRONIZATION_FAULT" :> "UNCALIBRATED")

\* designated_master_fsm, designated_slave_fsm: no best master clock algorithm
PtDesignatedTable(role) == PtDown(role) @@ role :> ("FAULT_DETECTED" :> "FAULTY")

PtMachine(kind) ==
  CASE kind = "ptp" -> PtTable
    [] kind = "slave_only" -> PtSlaveTable
    [] kind = "designated_master" -> PtDesignatedTable("MASTER")
    [] kind = "designated_slave" -> PtDesignatedTable("SLAVE")

\* p->state_machine(state, event, mdiff)
PtFsm(kind, s, e, mdiff) ==
  LET t == PtMachine(kind)
  IN  IF e = "INITIALIZE" THEN "INITIALIZING"
      ELSE IF s = "SLAVE" /\ e = "RS_SLAVE" /\ mdiff /\ kind \in {"ptp", "slave_only"}
           THEN "UNCALIBRATED"
      ELSE IF s \in DOMAIN t /\ e \in DOMAIN t[s] THEN t[s][e] ELSE s

----------------------------------------------------------------------------
PtBefore(x, y) == x[1] < y[1] \/ (x[1] = y[1] /\ x[2] < y[2])

\* dscmp2: both data sets describe the same grandmaster.  2 and 1 say that a is better,
\* by topology and otherwise, and -2 and -1 that b is.
PtDscmp2(a, b) ==
  LET nearer(x, y) == \* the data set x has fewer steps than y
        IF x.steps + 1 < y.steps THEN 1
        ELSE IF PtBefore(y.receiver, y.sender) THEN 1
        ELSE IF y.receiver = y.sender THEN 0 ELSE 2
  IN  IF a.steps < b.steps THEN nearer(a, b)
      ELSE IF b.steps < a.steps THEN -nearer(b, a)
      ELSE IF PtBefore(a.sender, b.sender) THEN 2
      ELSE IF PtBefore(b.sender, a.sender) THEN -2
      ELSE IF a.receiver[2] < b.receiver[2] THEN 2
      ELSE IF a.receiver[2] > b.receiver[2] THEN -2 ELSE 0

\* The first of the fields in which a and b differ decides.
PtFirst(fields, a, b) ==
  LET differ == {i \in DOMAIN fields : a[fields[i]] # b[fields[i]]}
      i == CHOOSE i \in differ : \A j \in differ : i <= j
  IN  IF differ = {} THEN 0 ELSE IF a[fields[i]] < b[fields[i]] THEN 1 ELSE -1

\* dscmp; PtNone stands for the null pointer.
PtNone == [identity |-> 0]
PtDscmp(a, b) ==
  IF a = b THEN 0 ELSE IF b = PtNone THEN 1 ELSE IF a = PtNone THEN -1
  ELSE IF a.identity = b.identity THEN PtDscmp2(a, b)
  ELSE PtFirst(<<"priority1", "quality", "priority2", "identity">>, a, b)

\* bmc_state_decision for a port in state s whose best data set is best, of a clock with
\* the default data set own and the best data set top; mine says that top is this port's.
PtDecision(own, top, best, mine, s, noop) ==
  IF best = PtNone /\ (noop \/ s = "LISTENING") THEN s
  ELSE IF own.quality <= 127
       THEN IF PtDscmp(own, best) > 0 THEN "GRAND_MASTER" ELSE "PASSIVE"
  ELSE IF PtDscmp(own, top) > 0 THEN "GRAND_MASTER"
  ELSE IF mine THEN "SLAVE"
  ELSE IF PtDscmp(top, best) = 2 THEN "PASSIVE" ELSE "MASTER"

----------------------------------------------------------------------------

CONSTANTS PtPorts,     \* the number of ports
          PtMe,        \* this clock's identity
          PtOwn,       \* the default data sets an operator may set
          PtAnnounces, \* the Announce messages on the network, each with its port
          PtKinds,     \* the state machines ports may be configured with
          PtP2p,       \* the ports use the peer delay mechanism
          PtJbod,      \* each port has its own hardware clock (boundary_clock_jbod)
          PtAsap,      \* fault_reset_interval is ASAP
          PtFires      \* timers one poll may find expired (bound)

ASSUME PtAssumption ==
  /\ PtPorts \in Nat \ {0} /\ PtFires \in Nat \ {0}
  /\ PtP2p \in BOOLEAN /\ PtJbod \in BOOLEAN /\ PtAsap \in BOOLEAN

VARIABLES ptKind,  \* the state machine of the ports
          ptPort,  \* state, timers, fcs (foreign masters), best, link, rtnl of each port
          ptOwn,   \* defaultDS
          ptBest,  \* the port of the clock's best foreign master, 0 without
          ptTop,   \* its data set
          ptBestId,
          ptParent, \* parentDS: the sender followed, its grandmaster, and steps removed
          ptSde,   \* a state decision event is due
          ptFired  \* the timers of each port this poll has still to handle

ptVars == <<ptKind, ptPort, ptOwn, ptBest, ptTop, ptBestId, ptParent, ptSde, ptFired>>

Pts == 1..PtPorts
\* The timers of a port, in the order of their descriptors; "fault" is apart from them.
\* Mutant: the order fd.h warns of.
PtTimersSwapped == <<"announce", "sync_rx", "delay", "qualification", "manno", "sync_tx", "fault">>
PtTimers == <<"delay", "announce", "sync_rx", "qualification", "manno", "sync_tx", "fault">>

\* struct foreign_clock: its messages, the newest first, of which the last stale are old
PtForeign(sender) == [sender |-> sender, messages |-> << >>, stale |-> 0]

----------------------------------------------------------------------------
\* fc_prune: at most two messages, none of them old.
PtPrune(fc) ==
  LET kept == Len(fc.messages) - fc.stale
  IN  [fc EXCEPT !.messages = SubSeq(@, 1, IF kept > 2 THEN 2 ELSE kept), !.stale = 0]

\* fc_clear
PtClear(fc) == [fc EXCEPT !.messages = << >>, !.stale = 0]

\* announce_to_dataset, of the newest message
PtDataset(p, fc) ==
  LET a == Head(fc.messages)
  IN  [identity |-> a.gm, priority1 |-> a.priority1, quality |-> a.quality,
       priority2 |-> a.priority2, localPriority |-> 128, steps |-> a.steps,
       sender |-> fc.sender, receiver |-> <<PtMe, p>>]

\* add_foreign_master: the first message of a sender only makes it known.
PtAdd(port, a) ==
  IF \E i \in DOMAIN port.fcs : port.fcs[i].sender = a.sender
  THEN LET i == CHOOSE i \in DOMAIN port.fcs : port.fcs[i].sender = a.sender
           fc == PtPrune(port.fcs[i])
           n == Len(fc.messages)
       IN  [port |-> [port EXCEPT !.fcs[i] = [fc EXCEPT !.messages = <<a>> \o @]],
            event |-> n = 1 \/ (n > 0 /\ Head(fc.messages) # a)]
  ELSE [port |-> [port EXCEPT !.fcs = <<PtForeign(a.sender)>> \o @], event |-> FALSE]

\* update_current_master: a message of the best foreign master restarts the announce
\* timer, and is news only when it differs from the one before.
PtUpdate(port, a) ==
  LET i == CHOOSE i \in DOMAIN port.fcs : port.fcs[i].sender = a.sender
      fc == PtPrune(port.fcs[i])
  IN  IF a.sender # port.best THEN PtAdd(port, a)
      ELSE [port |-> [port EXCEPT !.fcs[i] = [fc EXCEPT !.messages = <<a>> \o @],
                                  !.timers = @ \cup {"announce"}],
            event |-> fc.messages # << >> /\ Head(fc.messages) # a]

----------------------------------------------------------------------------
\* port_initialize when it succeeds
PtInitialized(port) == [port EXCEPT !.timers = {"announce"}, !.rtnl = TRUE]

\* port_disable
PtDisable(port) ==
  [port EXCEPT !.timers = @ \cap {"fault"}, !.fcs = << >>, !.best = <<0, 0>>]

\* port_e2e_transition, port_p2p_transition
PtTransition(port) ==
  LET keeps == IF PtP2p THEN {"fault", "delay"} ELSE {"fault"}
      arms == CASE port.state = "LISTENING" ->
                     {"announce"} \cup (IF PtP2p THEN {"delay"} ELSE {})
                [] port.state = "PRE_MASTER" -> {"qualification"}
                [] port.state \in {"MASTER", "GRAND_MASTER"} -> {"manno", "sync_tx"}
                [] port.state = "PASSIVE" -> {"announce"}
                [] port.state \in {"UNCALIBRATED", "SLAVE"} ->
                     {"announce"} \cup (IF PtP2p THEN {} ELSE {"delay"})
                [] OTHER -> {}
      cleared == [port EXCEPT !.timers = (@ \cap keeps) \cup arms]
  IN  IF port.state \in {"FAULTY", "DISABLED"} THEN PtDisable(cleared) ELSE cleared

\* port_state_update: the ports this one can become.  port_initialize may fail.
PtStateUpdate(port, e, mdiff) ==
  LET first == PtFsm(ptKind, port.state, e, mdiff)
      next == IF first = "FAULTY" /\ PtAsap THEN PtFsm(ptKind, first, "FAULT_CLEARED", FALSE)
              ELSE first
      off == IF PtEnabled(port.state) THEN PtDisable(port) ELSE port
  IN  IF next # "INITIALIZING" THEN {[port EXCEPT !.state = next]}
      ELSE {[PtInitialized(off) EXCEPT !.state = PtFsm(ptKind, next, "INIT_COMPLETE", FALSE)],
            [off EXCEPT !.state = PtFsm(ptKind, next, "FAULT_DETECTED", FALSE)]}

\* bc_dispatch; with PtJbod the switch to another hardware clock may fail.
PtDispatch(port, e, mdiff) ==
  UNION { IF q.state = port.state THEN {q}
          ELSE {PtTransition(q)}
               \cup (IF PtJbod /\ q.state = "UNCALIBRATED"
                     THEN {PtTransition([q EXCEPT !.state = "FAULTY"])} ELSE {})
          : q \in PtStateUpdate(port, e, mdiff) }

----------------------------------------------------------------------------
\* BMCA is noop
PtNoop == ptKind \in {"designated_master", "designated_slave"}

PtIdle == ~ptSde /\ \A p \in Pts : ptFired[p] = {}
PtClockUnchanged == UNCHANGED <<ptKind, ptOwn, ptBest, ptTop, ptBestId, ptParent>>

\* clock_poll after port_event returned e: the dispatch, and the fault timer of a port
\* that is faulty now, whose other descriptors are not looked at any more.
PtAfterEvent(p, port, e) ==
  \E q \in PtDispatch(port, e, FALSE) :
    IF q.state = "FAULTY"
    THEN /\ ptPort' = [ptPort EXCEPT ![p] = [q EXCEPT !.timers = @ \cup {"fault"}]]
         /\ ptFired' = [ptFired EXCEPT ![p] = @ \cap {"fault"}]
    ELSE ptPort' = [ptPort EXCEPT ![p] = q] /\ UNCHANGED ptFired

\* bc_event, an Announce message: process_announce by the state of the port.
PtAnnounce(p) ==
  /\ PtIdle /\ PtEnabled(ptPort[p].state)
  /\ \E a \in PtAnnounces :
       /\ a.port = p
       /\ LET r == IF ptPort[p].state \in {"LISTENING", "PRE_MASTER", "MASTER", "GRAND_MASTER"}
                   THEN PtAdd(ptPort[p], a) ELSE PtUpdate(ptPort[p], a)
          IN  ptPort' = [ptPort EXCEPT ![p] = r.port] /\ ptSde' = r.event
  /\ UNCHANGED ptFired /\ PtClockUnchanged

\* The oldest message that was current no longer is.
PtAge(p) ==
  /\ PtIdle
  /\ \E i \in DOMAIN ptPort[p].fcs :
       /\ ptPort[p].fcs[i].stale < Len(ptPort[p].fcs[i].messages)
       /\ ptPort' = [ptPort EXCEPT ![p].fcs[i].stale = @ + 1]
  /\ UNCHANGED <<ptSde, ptFired>> /\ PtClockUnchanged

\* poll returns with some timers expired.
PtPoll ==
  /\ PtIdle
  /\ \E f \in [Pts -> UNION {SUBSET ptPort[p].timers : p \in Pts}] :
       /\ \A p \in Pts : f[p] \subseteq ptPort[p].timers
       /\ LET n == FoldSet(LAMBDA p, s : s + Cardinality(f[p]), 0, Pts)
          IN  n \in 1..PtFires
       /\ ptFired' = f
  /\ UNCHANGED <<ptPort, ptSde>> /\ PtClockUnchanged

\* The port and the timer clock_poll handles next
PtTurn(p, t) ==
  /\ t \in ptFired[p] /\ \A q \in 1..(p - 1) : ptFired[q] = {}
  /\ \A i \in DOMAIN PtTimers : PtTimers[i] = t =>
        \A j \in 1..(i - 1) : PtTimers[j] \notin ptFired[p]
Fired(p, t) == [ptFired EXCEPT ![p] = @ \ {t}]

\* bc_event, FD_ANNOUNCE_TIMER or FD_SYNC_RX_TIMER: the best foreign master is forgotten.
\* A slave-only clock opens its transport anew, which may fail.
PtAnnounceTimer(p, t) ==
  /\ t \in {"announce", "sync_rx"} /\ PtTurn(p, t)
  /\ LET port == [ptPort[p] EXCEPT
                    !.fcs = [i \in DOMAIN @ |-> IF @[i].sender = ptPort[p].best
                                                THEN PtClear(@[i]) ELSE @[i]],
                    !.timers = @ \cup {"announce"}]
     IN  \E e \in {"ANNOUNCE_TIMEOUT"} \cup
                  (IF ptKind = "slave_only" /\ ~PtP2p THEN {"FAULT_DETECTED"} ELSE {}) :
           \E q \in PtDispatch(port, e, FALSE) :
             /\ ptPort' = [ptPort EXCEPT ![p] =
                  IF q.state = "FAULTY" THEN [q EXCEPT !.timers = @ \cup {"fault"}] ELSE q]
             /\ ptFired' = [ptFired EXCEPT ![p] =
                  (@ \ {t}) \cap (IF q.state = "FAULTY" THEN {"fault"} ELSE Range(PtTimers))]
             /\ ptSde' = (e = "ANNOUNCE_TIMEOUT" \/ ptSde)
  /\ PtClockUnchanged

\* FD_DELAY_TIMER, FD_MANNO_TIMER, FD_SYNC_TX_TIMER: set again, and the message sent,
\* which may fail.
PtSendTimer(p, t) ==
  /\ t \in {"delay", "manno", "sync_tx"} /\ PtTurn(p, t)
  /\ LET port == [ptPort[p] EXCEPT !.timers = @ \cup {t}]
     IN  \/ ptPort' = [ptPort EXCEPT ![p] = port] /\ ptFired' = Fired(p, t)
         \/ \E q \in PtDispatch(port, "FAULT_DETECTED", FALSE) :
              /\ ptPort' = [ptPort EXCEPT ![p] =
                   IF q.state = "FAULTY" THEN [q EXCEPT !.timers = @ \cup {"fault"}] ELSE q]
              /\ ptFired' = [ptFired EXCEPT ![p] =
                   (@ \ {t}) \cap (IF q.state = "FAULTY" THEN {"fault"} ELSE Range(PtTimers))]
  /\ UNCHANGED ptSde /\ PtClockUnchanged

\* FD_QUALIFICATION_TIMER
PtQualificationTimer(p) ==
  /\ PtTurn(p, "qualification")
  /\ \E q \in PtDispatch([ptPort[p] EXCEPT !.timers = @ \ {"qualification"}],
                         "QUALIFICATION_TIMEOUT", FALSE) : ptPort' = [ptPort EXCEPT ![p] = q]
  /\ ptFired' = Fired(p, "qualification")
  /\ UNCHANGED ptSde /\ PtClockUnchanged

\* The fault timer: the fault is cleared when the link is up.  When the port cannot be
\* initialised again it stays faulty, and its fault timer is not set again.
PtFaultTimer(p) ==
  /\ PtTurn(p, "fault")
  /\ LET port == [ptPort[p] EXCEPT !.timers = @ \ {"fault"}]
     IN  IF port.link THEN \E q \in PtDispatch(port, "FAULT_CLEARED", FALSE) :
                             ptPort' = [ptPort EXCEPT ![p] = q]
         ELSE ptPort' = [ptPort EXCEPT ![p] = port]
  /\ ptFired' = Fired(p, "fault")
  /\ UNCHANGED ptSde /\ PtClockUnchanged

\* FD_RTNL, port_link_status: the link went up or down.
PtLink(p) ==
  /\ PtIdle /\ ptPort[p].rtnl
  /\ LET port == [ptPort[p] EXCEPT !.link = ~@]
     IN  /\ PtAfterEvent(p, port, IF port.link THEN "FAULT_CLEARED" ELSE "FAULT_DETECTED")
         /\ ptSde' = ~port.link
  /\ PtClockUnchanged

\* process_sync and port_synchronize: the servo locks, or loses its lock.
PtServo(p) ==
  /\ PtIdle /\ ptPort[p].state \in {"UNCALIBRATED", "SLAVE"}
  /\ \E e \in {"MASTER_CLOCK_SELECTED", "SYNCHRONIZATION_FAULT"} :
       /\ PtFsm(ptKind, ptPort[p].state, e, FALSE) # ptPort[p].state
       /\ \E q \in PtDispatch(ptPort[p], e, FALSE) :
            ptPort' = [ptPort EXCEPT ![p] =
              [q EXCEPT !.timers = @ \cup (IF q.state = "FAULTY" THEN {"fault"}
                                           ELSE {"sync_rx"})]]
  /\ UNCHANGED <<ptSde, ptFired>> /\ PtClockUnchanged

\* clock_management_set: the operator changes the default data set.
PtSet ==
  /\ PtIdle /\ \E o \in PtOwn : o # ptOwn /\ ptOwn' = o
  /\ ptSde' = TRUE
  /\ UNCHANGED <<ptKind, ptPort, ptBest, ptTop, ptBestId, ptParent, ptFired>>

----------------------------------------------------------------------------
\* One foreign master in the loop of port_compute_best
PtConsider(p, acc, i) ==
  LET fc == acc.fcs[i]
      pruned == PtPrune(fc)
      ds == PtDataset(p, fc)
      with(x) == [acc.fcs EXCEPT ![i] = x]
  IN  IF fc.messages = << >> THEN acc
      ELSE IF Len(pruned.messages) < 2 THEN [acc EXCEPT !.fcs = with(pruned)]
      ELSE IF acc.ds = PtNone \/ PtDscmp(ds, acc.ds) > 0
           THEN [fcs |-> with(pruned), ds |-> ds, best |-> fc.sender]
      ELSE [acc EXCEPT !.fcs = with(PtClear(fc))]

\* port_compute_best: the foreign masters afterwards, the best of them and its data set
PtComputeBest(p) ==
  FoldLeft(LAMBDA acc, i : PtConsider(p, acc, i),
           [fcs |-> ptPort[p].fcs, ds |-> PtNone, best |-> <<0, 0>>],
           IF ptKind = "designated_master" THEN << >>  \* masterOnly
           ELSE [i \in DOMAIN ptPort[p].fcs |-> i])

PtEventOf == [LISTENING |-> "NONE", GRAND_MASTER |-> "RS_GRAND_MASTER", MASTER |-> "RS_MASTER",
              PASSIVE |-> "RS_PASSIVE", SLAVE |-> "RS_SLAVE"]

\* The clock's own default data set
PtDefault == [identity |-> PtMe, priority1 |-> ptOwn.priority1, quality |-> ptOwn.quality,
              priority2 |-> ptOwn.priority2, localPriority |-> 128, steps |-> 0,
              sender |-> <<PtMe, 0>>, receiver |-> <<PtMe, 0>>]

PtMine(p, best, computed) == best = p

\* handle_state_decision_event at the end of a poll
PtDecide ==
  LET computed == [p \in Pts |-> PtComputeBest(p)]
      best == FoldLeft(LAMBDA b, p : IF computed[p].ds # PtNone
                                        /\ (b = 0 \/ PtDscmp(computed[p].ds, computed[b].ds) > 0)
                                     THEN p ELSE b, 0, [p \in Pts |-> p])
      top == IF best = 0 THEN PtNone ELSE computed[best].ds
      id == IF best = 0 THEN PtMe ELSE top.identity
      fresh == id # ptBestId
      decision == [p \in Pts |-> PtDecision(PtDefault, top, computed[p].ds,
                                            PtMine(p, best, computed), ptPort[p].state, PtNoop)]
      event(s) == IF s \in DOMAIN PtEventOf THEN PtEventOf[s] ELSE "FAULT_DETECTED"
      port(p) == [ptPort[p] EXCEPT !.fcs = computed[p].fcs, !.best = computed[p].best]
      out(p) == PtDispatch(port(p), event(decision[p]), fresh)
      last(s) == {p \in Pts : decision[p] = s}
  IN  /\ ptSde /\ \A p \in Pts : ptFired[p] = {}
      /\ \E f \in [Pts -> UNION {out(p) : p \in Pts}] :
           (\A p \in Pts : f[p] \in out(p)) /\ ptPort' = f
      /\ ptBest' = best /\ ptTop' = top /\ ptBestId' = id
      \* clock_update_grandmaster, clock_update_slave
      /\ ptParent' = IF last("SLAVE") # {} /\ best # 0
                     THEN [sender |-> top.sender, gm |-> top.identity, steps |-> top.steps + 1]
                     ELSE IF last("GRAND_MASTER") # {}
                     THEN [sender |-> <<PtMe, 0>>, gm |-> PtMe, steps |-> 0]
                     ELSE ptParent
      /\ ptSde' = FALSE /\ UNCHANGED <<ptKind, ptOwn, ptFired>>

----------------------------------------------------------------------------
\* clock_create, port_open and the first EV_INITIALIZE of every port
PtInit ==
  /\ ptKind \in PtKinds
  /\ ptPort \in [Pts -> PtDispatch([state |-> "INITIALIZING", timers |-> {}, fcs |-> << >>,
                                    best |-> <<0, 0>>, link |-> TRUE, rtnl |-> FALSE],
                                   "INITIALIZE", FALSE)]
  /\ ptOwn \in PtOwn /\ ptBest = 0 /\ ptTop = PtNone /\ ptBestId = 0
  /\ ptParent = [sender |-> <<PtMe, 0>>, gm |-> PtMe, steps |-> 0]
  /\ ptSde = FALSE /\ ptFired = [p \in Pts |-> {}]

PtNext ==
  \/ PtPoll \/ PtSet \/ PtDecide
  \/ \E p \in Pts : PtAnnounce(p) \/ PtAge(p) \/ PtLink(p) \/ PtServo(p)
                    \/ PtQualificationTimer(p) \/ PtFaultTimer(p)
  \/ \E p \in Pts, t \in Range(PtTimers) : PtAnnounceTimer(p, t) \/ PtSendTimer(p, t)

----------------------------------------------------------------------------
\* A port never waits for something that nothing will bring about: in every enabled state
\* the timer that takes it on (or makes it serve) is armed or about to be handled.
PtArmed ==
  \A p \in Pts :
    LET t == ptPort[p].timers \cup ptFired[p] IN
    CASE ptPort[p].state \in {"LISTENING", "PASSIVE", "UNCALIBRATED", "SLAVE"} -> "announce" \in t
      [] ptPort[p].state = "PRE_MASTER" -> "qualification" \in t
      [] ptPort[p].state \in {"MASTER", "GRAND_MASTER"} -> {"manno", "sync_tx"} \subseteq t
      [] OTHER -> TRUE

\* No timer that served the port's former state is left over: a master does not ask for
\* delays, and only a master sends Announce and Sync messages of its own.
PtNoLeftOver ==
  \A p \in Pts :
    LET t == ptPort[p].timers \ ptFired[p] IN
    /\ ptPort[p].state \in {"MASTER", "GRAND_MASTER", "PRE_MASTER", "PASSIVE"} /\ ~PtP2p
         => "delay" \notin t
    /\ t \cap {"manno", "sync_tx"} # {} => ptPort[p].state \in {"MASTER", "GRAND_MASTER"}
    /\ "qualification" \in t => ptPort[p].state = "PRE_MASTER"

\* At most one port follows a master, and it is the one the clock's parent data set names.
PtOneSlave ==
  ~PtNoop => \A p \in Pts : ptPort[p].state \in {"UNCALIBRATED", "SLAVE"} =>
    /\ ptBest = p
    /\ \A q \in Pts \ {p} : ptPort[q].state \notin {"UNCALIBRATED", "SLAVE"}
    /\ ptParent.sender = ptTop.sender

\* Not kept (ptp4l.8:227): a fault is reset after fault_reset_interval, so that a faulty port
\* whose link is up waits for its fault timer.  When port_initialize fails nothing arms it.
PtFaultEnds ==
  \A p \in Pts : ptPort[p].state = "FAULTY" /\ ptPort[p].link
                   => "fault" \in ptPort[p].timers

\* A port's timers, its state and the clock's choice of a master agree, whatever the order in which
\* timers, announcements, links and faults are handled (clock_poll, handle_state_decision_event).
PtSound == PtArmed /\ PtNoLeftOver /\ PtOneSlave
=============================================================================
