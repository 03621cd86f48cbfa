------------------------------- MODULE Phc2sys -------------------------------
(***************************************************************************)
(* phc2sys -a (phc2sys.c): which clock of the host is the source of time    *)
(* and which follow it, as the states of ptp4l's ports change.  ptp4l sends *)
(* notifications and answers through one local socket, in order; phc2sys    *)
(* reads it between two updates and also, while it waits for an answer, in  *)
(* the middle of a reconfiguration.                                         *)
(*                                                                         *)
(* Port states are those of normalize_state without PRE_MASTER, which is    *)
(* treated as MASTER is.                                                    *)
(***************************************************************************)
EXTENDS Integers, Sequences, FiniteSets, SequencesExt, FiniteSetsExt

CONSTANTS PhClocks,    \* clocks found by auto_init_ports, in the order of the list
          PhClockOf,   \* the clock of each port, in the order the ports were found
          PhPhc,       \* the PHC of each clock: two interfaces may share one
          PhRts,       \* the ways the system clock may be used: "none", "dest" (-r), "both" (-rr)
          PhChanges    \* changes of port states and of the subscription, answers that are late (bound)

\* A clock is made for the first of its ports; phc2sys ends when there is none.
ASSUME PhAssumption ==
  /\ PhClocks # << >> /\ PhClocks \in Seq(STRING \ {"none", "rt"})
  /\ PhClockOf \in Seq(ToSet(PhClocks))
  /\ \A c \in ToSet(PhClocks) : \E p \in DOMAIN PhClockOf : PhClockOf[p] = c

VARIABLES phRt,        \* the one that is configured
          phReal,      \* states of ptp4l's ports
          phChan,      \* messages from ptp4l that phc2sys has not read
          phAsked,     \* requests for port properties that ptp4l has not answered
          phSub,       \* ptp4l has the subscription of phc2sys
          phPort,      \* port->state
          phClock,     \* clock->state and new_state
          phRtState,   \* state of the system clock
          phDst,       \* dst_clocks
          phMaster,    \* node->master
          phChanged,   \* state_changed
          phPc,        \* where do_loop stands, and how far reconfigure has come
          phMissed,    \* history: a change was not notified
          phDefault,   \* history: the master was taken for want of a source
          phSteps      \* how many there were

phVars == <<phRt, phReal, phChan, phAsked, phSub, phPort, phClock, phRtState, phDst, phMaster, phChanged, phPc, phMissed, phDefault, phSteps>>
phPtpVars == <<phRt, phReal, phSub, phMissed, phSteps>>
phConfVars == <<phRtState, phDst, phMaster, phDefault>>

PhPorts == DOMAIN PhClockOf
PhStates == {"DISABLED", "MASTER", "UNCALIBRATED", "SLAVE"}
PhRank(s) == CASE s = "DISABLED" -> 3 [] s = "MASTER" -> 6 [] s = "UNCALIBRATED" -> 8 [] s = "SLAVE" -> 9
\* clock_compute_state: the highest state of its ports
PhCompute(ports, c) ==
  LET mine == {ports[p] : p \in {q \in PhPorts : PhClockOf[q] = c}} \cup {"DISABLED"} IN
  CHOOSE s \in mine : \A t \in mine : PhRank(t) <= PhRank(s)

(***************************************************************************)
(* ptp4l: port_notify_event and clock_send_notification, and the answers   *)
(* to PORT_PROPERTIES_NP (PtpBmc)                                          *)
(***************************************************************************)
PhPortChanges(p, s) ==
  /\ phSteps < PhChanges /\ phSteps' = phSteps + 1
  /\ s # phReal[p] /\ phReal' = [phReal EXCEPT ![p] = s]
  /\ phChan' = IF phSub THEN Append(phChan, [k |-> "note", port |-> p, state |-> s]) ELSE phChan
  /\ phMissed' = (phMissed \/ ~phSub)
  /\ UNCHANGED <<phRt, phSub, phPort, phClock, phConfVars, phChanged, phPc, phAsked>>
PhAnswers ==
  /\ phAsked # << >> /\ phAsked' = Tail(phAsked)
  /\ phChan' = Append(phChan, [k |-> "resp", port |-> Head(phAsked), state |-> phReal[Head(phAsked)]])
  /\ UNCHANGED <<phPtpVars, phPort, phClock, phConfVars, phChanged, phPc>>
\* The subscription runs out (clock_prune_subscriptions), or is renewed by update_pmc with
\* run_pmc_subscribe and send_subscription
PhSubscription ==
  /\ phSteps < PhChanges /\ phSteps' = phSteps + 1
  /\ phSub' = ~phSub
  /\ UNCHANGED <<phRt, phReal, phMissed, phChan, phAsked, phPort, phClock, phConfVars, phChanged, phPc>>

(***************************************************************************)
(* run_pmc and recv_subscribed.  d is what they work on: the ports, the     *)
(* clocks and state_changed.                                                *)
(***************************************************************************)
PhData == [port |-> phPort, clock |-> phClock, changed |-> phChanged]
\* recv_subscribed
PhNoted(d, m) ==
  IF d.port[m.port] = m.state THEN d
  ELSE LET ports == [d.port EXCEPT ![m.port] = m.state]
           c == PhClockOf[m.port]
           s == PhCompute(ports, c) IN
       IF d.clock[c].state # s \/ d.clock[c].new # "none"
       THEN [port |-> ports, clock |-> [d.clock EXCEPT ![c].new = s], changed |-> TRUE]
       ELSE [d EXCEPT !.port = ports]
PhTake(d) == phPort' = d.port /\ phClock' = d.clock /\ phChanged' = d.changed
\* run_pmc_events, and run_pmc while it waits for the time properties: all that is there, late answers
\* are dropped
PhDrain ==
  LET step(d, m) == IF m.k = "note" THEN PhNoted(d, m) ELSE d IN FoldLeft(step, PhData, phChan)

(***************************************************************************)
(* do_loop                                                                 *)
(***************************************************************************)
\* One pass: run_pmc_events; when a state has changed, run_pmc_get_utc_offset, which ptp4l may not
\* answer in time, and reconfigure begins.
PhNextClock(list) == [at |-> "clock", clocks |-> list]
PhPass(answered) ==
  /\ phPc.at = "sleep"
  /\ LET d == PhDrain IN
     IF d.changed /\ answered
     THEN /\ PhTake([d EXCEPT !.changed = FALSE]) /\ phPc' = PhNextClock(PhClocks) /\ phDst' = {}
     ELSE PhTake(d) /\ UNCHANGED <<phPc, phDst>>
  /\ phChan' = << >>
  /\ UNCHANGED <<phPtpVars, phAsked, phRtState, phMaster, phDefault>>
\* reconfigure: the next clock; one with a new state asks for the properties of its ports (clock_reinit)
PhPortsOf(c) == {p \in PhPorts : PhClockOf[p] = c}
\* port_add puts a new port at the head of the list
PhAsk(rest, ports) ==
  phPc' = [at |-> "port", clocks |-> rest, ports |-> ports] /\ phAsked' = Append(phAsked, Max(ports))
PhClockTurn ==
  /\ phPc.at = "clock" /\ phPc.clocks # << >>
  /\ LET c == Head(phPc.clocks) IN
     IF phClock[c].new # "none"
     THEN PhAsk(phPc.clocks, PhPortsOf(c))
     ELSE phPc' = PhNextClock(Tail(phPc.clocks)) /\ UNCHANGED phAsked
  /\ UNCHANGED <<phPtpVars, phChan, phPort, phClock, phConfVars, phChanged>>
\* The next port of the clock; after the last one c->state = c->new_state, as it is by now
PhPortDone(ports, clock) ==
  IF phPc.ports # {Max(phPc.ports)}
  THEN PhAsk(phPc.clocks, phPc.ports \ {Max(phPc.ports)}) /\ phPort' = ports /\ phClock' = clock
  ELSE /\ phPc' = PhNextClock(Tail(phPc.clocks)) /\ UNCHANGED phAsked
       /\ phPort' = ports
       /\ LET c == Head(phPc.clocks) IN phClock' = [clock EXCEPT ![c] = [state |-> clock[c].new, new |-> "none"]]
\* run_pmc_port_properties: a message is read
PhRead ==
  /\ phPc.at = "port" /\ phChan # << >>
  /\ phChan' = Tail(phChan)
  /\ LET m == Head(phChan) IN
     \/ /\ m.k = "note"
        /\ PhTake(PhNoted(PhData, m)) /\ UNCHANGED <<phPc, phAsked>>
     \/ /\ m.k = "resp" /\ m.port = Max(phPc.ports)
        /\ PhPortDone([phPort EXCEPT ![m.port] = m.state], phClock) /\ UNCHANGED phChanged
     \/ /\ m.k = "resp" /\ m.port # Max(phPc.ports) \* of an earlier request: ask again
        /\ PhAsk(phPc.clocks, phPc.ports) /\ UNCHANGED <<phPort, phClock, phChanged>>
  /\ UNCHANGED <<phPtpVars, phConfVars>>
\* No answer within a second: the port's state stays
PhTimeout ==
  /\ phPc.at = "port" /\ phChan = << >>
  /\ phSteps < PhChanges /\ phSteps' = phSteps + 1
  /\ PhPortDone(phPort, phClock)
  /\ UNCHANGED <<phRt, phReal, phSub, phMissed, phChan, phConfVars, phChanged>>

\* The end of reconfigure: find_dst_clock keeps one clock for each PHC
PhWith(states) == {i \in DOMAIN PhClocks : phClock[PhClocks[i]].state \in states}
PhDsts == LET all == PhWith({"DISABLED", "MASTER"}) IN
          {PhClocks[i] : i \in {j \in all : \A k \in all : k < j => PhPhc[PhClocks[k]] # PhPhc[PhClocks[j]]}}
PhSources == PhWith({"UNCALIBRATED", "SLAVE"})
PhSlaves == PhWith({"SLAVE"})
PhRtUsable == phRt = "both"
PhNoSource == Cardinality(PhDsts) > 1 /\ PhSlaves = {} /\ ~PhRtUsable
PhAmbiguous ==
  \/ \E i, j \in PhSources : i # j
  \/ PhSources # {} /\ PhSlaves = {}
  \/ PhSources = {} /\ PhDsts = {}
  \/ PhSources = {} /\ ~PhRtUsable
  \/ PhDsts = {} /\ phRt = "none"
PhReconfigured ==
  /\ phPc.at = "clock" /\ phPc.clocks = << >>
  /\ phPc' = [at |-> "sleep"]
  /\ \/ /\ PhNoSource \* the last clock is taken as the source, and gets its state back next time
        /\ LET c == Last(PhClocks) IN
           /\ phMaster' = c
           /\ phClock' = [phClock EXCEPT ![c] = [state |-> "SLAVE", new |-> phClock[c].state]]
        /\ phRtState' = IF phRt = "none" THEN phRtState ELSE "SLAVE"
        /\ phDst' = PhDsts /\ phDefault' = TRUE
     \/ /\ ~PhNoSource /\ PhAmbiguous
        /\ phMaster' = "none" /\ phDst' = PhDsts /\ phDefault' = FALSE
        /\ UNCHANGED <<phClock, phRtState>>
     \/ /\ ~PhNoSource /\ ~PhAmbiguous /\ PhSources = {}
        /\ phMaster' = "rt" /\ phRtState' = "SLAVE" /\ phDst' = PhDsts /\ phDefault' = FALSE
        /\ UNCHANGED phClock
     \/ /\ ~PhNoSource /\ ~PhAmbiguous /\ PhSources # {}
        /\ phMaster' = PhClocks[Max(PhSlaves)] /\ phDefault' = FALSE
        /\ phRtState' = IF phRt = "none" THEN phRtState ELSE "MASTER"
        /\ phDst' = PhDsts \cup (IF phRt = "none" THEN {} ELSE {"rt"})
        /\ UNCHANGED phClock
  /\ UNCHANGED <<phPtpVars, phChan, phAsked, phPort, phChanged>>

\* auto_init_ports has read the ports' states
PhInit ==
  /\ phRt \in PhRts /\ phReal \in [PhPorts -> PhStates] /\ phChan = << >> /\ phAsked = << >> /\ phSub = TRUE
  /\ phPort = phReal
  /\ phClock = [c \in ToSet(PhClocks) |-> [state |-> "none", new |-> PhCompute(phReal, c)]]
  /\ phRtState = "none" /\ phDst = {} /\ phMaster = "none"
  /\ phChanged = TRUE /\ phPc = [at |-> "sleep"] /\ phMissed = FALSE /\ phDefault = FALSE /\ phSteps = 0
PhNext ==
  \/ \E p \in PhPorts, s \in PhStates : PhPortChanges(p, s)
  \/ PhAnswers \/ PhSubscription
  \/ \E answered \in BOOLEAN : PhPass(answered)
  \/ PhClockTurn \/ PhRead \/ PhTimeout \/ PhReconfigured

PhSpec == PhInit /\ [][PhNext]_phVars

(***************************************************************************)
(* do_loop between two reconfigurations                                    *)
(***************************************************************************)
\* Mutant: a clock that shares its PHC with the source is updated too.
PhUpdatedShared ==
  IF phMaster = "none" THEN {}
  ELSE {c \in phDst : IF c = "rt" THEN phMaster # "rt" /\ phRtState = "MASTER"
                      ELSE phClock[c].state \in {"DISABLED", "MASTER"}}
\* The clocks that update_clock is called for (update_needed and the tests that follow it)
PhUpdated ==
  IF phMaster = "none" THEN {}
  ELSE {c \in phDst : IF c = "rt" THEN phMaster # "rt" /\ phRtState = "MASTER"
                      ELSE /\ phClock[c].state \in {"DISABLED", "MASTER"}
                           /\ phMaster # "rt" => PhPhc[c] # PhPhc[phMaster]}

(***************************************************************************)
(* Properties                                                              *)
(***************************************************************************)
\* When phc2sys has read all there is and nothing is left to reconfigure, it knows the state of
\* every clock: no change is lost between a notification, the answer to a question about the same
\* port and a reconfiguration that is under way (recv_subscribed, clock_reinit), and none is left in
\* new_state, except that of the clock taken as the source by default.  A change that was not
\* notified because the subscription had run out may be missed for good.
PhFollows ==
  phPc.at = "sleep" /\ phChan = << >> /\ ~phChanged /\ ~phMissed =>
    \A c \in ToSet(PhClocks) :
      PhCompute(phReal, c) = IF phDefault /\ c = phMaster THEN phClock[c].new ELSE phClock[c].state

\* phc2sys does not adjust a PHC that ptp4l adjusts through a SLAVE or UNCALIBRATED port, also when two
\* interfaces share the PHC (do_loop, reconfigure).  The exception is the source taken by default:
\* reconfigure then does not look for an UNCALIBRATED clock.
PhNoFight ==
  phPc.at = "sleep" /\ ~phDefault =>
    \A c \in PhUpdated \ {"rt"} : \A d \in ToSet(PhClocks) :
      PhPhc[c] = PhPhc[d] => phClock[d].state \notin {"UNCALIBRATED", "SLAVE"}

\* phc2sys works on the state ptp4l really has, and never against it (recv_subscribed, do_loop).
PhSound == PhFollows /\ PhNoFight
==============================================================================
