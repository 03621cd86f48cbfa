------------------------------- MODULE PtpSync -------------------------------
(***************************************************************************)
(* How a slave port of linuxptp follows its master with the delay           *)
(* request-response mechanism: Sync and Follow_Up paired by port_syfufsm,   *)
(* Delay_Req and Delay_Resp, the time stamp processing (tsproc.c), the PI   *)
(* servo (pi.c, servo.c) and the sanity check of the clock (clockcheck.c).  *)
(* Messages are lost, repeated and reordered at will: any message a master  *)
(* sends may come at any time.                                              *)
(*                                                                         *)
(* A time stamp is what it is wrong by: the error of the clock that took    *)
(* it.  The true path delay is 0, and delays and offsets are twice their    *)
(* value, so that the mean needs no division.                               *)
(***************************************************************************)
EXTENDS Integers, Sequences, FiniteSets, SequencesExt

CONSTANTS SyMasters,   \* masters a port may follow
          SyGm,        \* grandmaster of each
          SyTime,      \* error of the time each grandmaster keeps
          SySyncs,     \* Sync messages of each master, by sequence number (bound)
          SyReqs,      \* Delay_Req messages under way (bound)
          SyWander,    \* how far the local clock drifts by itself (bound)
          SyModes,     \* tsproc_mode
          SyStep,      \* step_threshold
          SyThreshold, \* servo_offset_threshold
          SyNum        \* servo_num_offset_values

\* The clock of the device is good enough for the threshold: between two time stamps it drifts by
\* less than what makes a step.
ASSUME SyAssumption ==
  /\ SyWander \in 0..9 /\ SyStep \in Int /\ SyWander < SyStep
  /\ \A m \in SyMasters : SyTime[SyGm[m]] \in Int

VARIABLES syState,     \* "UNCALIBRATED", "SLAVE"
          syParent,    \* parentDS.parentPortIdentity
          syBest,      \* best_id, the grandmaster
          syLast,      \* last_syncfup and syfu: << >> when SF_EMPTY
          syMixed,     \* history: a Sync and a Follow_Up of one master and of two transmissions, or
          syCrossed,   \* of two grandmasters, were taken together
          syReqs,      \* delay_req: requests sent and not answered
          syTsp,       \* struct tsproc
          sySrv,       \* struct pi_servo, struct servo, servo_state
          syOff,       \* error of the local clock
          syRow,       \* history: offsets below the threshold in a row
          syHasty,     \* history: the servo was stable with fewer than servo_num_offset_values in a row
          syIval       \* logSyncInterval: "initial" or "oper"

syVars == <<syState, syParent, syBest, syLast, syMixed, syCrossed, syReqs, syTsp, sySrv, syOff, syRow, syHasty, syIval>>

(***************************************************************************)
(* tsproc.c.  A time stamp of zero is << >>.                               *)
(***************************************************************************)
SyNoTs == << >>
SyGetRawDelay(t) == (t.t2[1] - t.t3[1]) + (t.t4[1] - t.t1[1])
\* tsproc_down_ts, tsproc_up_ts
SyDownTs(t, remote, local) == [t EXCEPT !.t1 = <<remote>>, !.t2 = <<local>>]
SyUpTs(t, local, remote) == [t EXCEPT !.t3 = <<local>>, !.t4 = <<remote>>]
\* tsproc_update_delay, with a filter of length one; nothing before the first Sync
SyUpdateDelay(t) ==
  IF t.t2 = SyNoTs \/ t.t3 = SyNoTs THEN t ELSE [t EXCEPT !.delay = SyGetRawDelay(t), !.valid = TRUE]
\* tsproc_update_offset: is there an offset, and which?
SyOffsetKnown(t) ==
  /\ t.t1 # SyNoTs /\ t.t2 # SyNoTs
  /\ t.mode \in {"raw", "raw_weight", "filter_weight"} => t.t3 # SyNoTs
  /\ t.mode \in {"filter", "filter_weight"} => t.valid
SyOffset(t) == 2 * (t.t2[1] - t.t1[1]) - (IF t.mode \in {"raw", "raw_weight"} THEN SyGetRawDelay(t) ELSE t.delay)
\* Mutant: the stamps taken before a step stay.
SyResetKeep(t, full) == IF full THEN [t EXCEPT !.t1 = SyNoTs, !.t2 = SyNoTs, !.t3 = SyNoTs, !.t4 = SyNoTs, !.valid = FALSE] ELSE t
\* tsproc_reset
SyReset(t, full) ==
  [t EXCEPT !.t1 = SyNoTs, !.t2 = SyNoTs, !.t3 = SyNoTs, !.t4 = SyNoTs, !.valid = @ /\ ~full]

(***************************************************************************)
(* pi.c and servo.c                                                        *)
(***************************************************************************)
SyAbs(x) == IF x < 0 THEN -x ELSE x
\* pi_sample: two samples for the frequency, then locked; the second may come too soon
\* ("early") or bear a local time that is not later than that of the first ("back").
SyPiSample(v, offset, second) ==
  CASE v.count = 0 -> [v EXCEPT !.state = "UNLOCKED", !.count = 1]
    [] v.count = 1 /\ second = "back" -> [v EXCEPT !.state = "UNLOCKED", !.count = 0]
    [] v.count = 1 /\ second = "early" -> [v EXCEPT !.state = "UNLOCKED"]
    [] v.count = 1 /\ second = "good" ->
         [v EXCEPT !.state = IF SyAbs(offset) > SyStep THEN "JUMP" ELSE "LOCKED", !.count = 2]
    [] OTHER -> IF SyAbs(offset) > SyStep THEN [v EXCEPT !.state = "UNLOCKED", !.count = 0]
                ELSE [v EXCEPT !.state = "LOCKED"]
\* pi_reset
SyServoReset(v) == [v EXCEPT !.count = 0]
\* check_offset_threshold: small offsets count down, large ones do not count up again.
SyCheck(v, offset) == IF SyAbs(offset) < SyThreshold /\ v.left > 0 THEN v.left - 1 ELSE v.left
\* servo_sample
SyServoSample(v, offset, second) ==
  LET w == SyPiSample(v, offset, second)
  IN  CASE w.state \in {"UNLOCKED", "JUMP"} -> [w EXCEPT !.left = SyNum]
        [] OTHER -> [w EXCEPT !.left = SyCheck(v, offset),
                              !.state = IF SyThreshold > 0 /\ SyCheck(v, offset) = 0 THEN "LOCKED_STABLE" ELSE "LOCKED"]

(***************************************************************************)
(* The port                                                                *)
(***************************************************************************)
\* What one message changes in port and clock
SySt == [state |-> syState, last |-> syLast, mixed |-> syMixed, crossed |-> syCrossed, reqs |-> syReqs, tsp |-> syTsp,
         srv |-> sySrv, off |-> syOff, row |-> syRow, hasty |-> syHasty, ival |-> syIval]
SyBecomes(st) ==
  /\ syState' = st.state /\ syLast' = st.last /\ syMixed' = st.mixed /\ syCrossed' = st.crossed /\ syReqs' = st.reqs
  /\ syTsp' = st.tsp /\ sySrv' = [st.srv EXCEPT !.answer = "none"] /\ syOff' = st.off /\ syRow' = st.row /\ syHasty' = st.hasty /\ syIval' = st.ival

\* port_e2e_transition into UNCALIBRATED, when it is a transition: flush_last_sync, flush_delay_req
SyUncalibrated(st) ==
  IF st.state = "UNCALIBRATED" THEN st ELSE [st EXCEPT !.state = "UNCALIBRATED", !.last = << >>, !.reqs = << >>]

\* clock_synchronize: offset, servo, step.  A step starts the stamps over.
SyClockSynchronize(st, ingress, origin, second) ==
  LET t == SyDownTs(st.tsp, origin, ingress)
      offset == SyOffset(t)
      v == SyServoSample(st.srv, offset, second)
      row == IF SyAbs(offset) >= SyThreshold THEN 0 ELSE IF st.row < SyNum THEN st.row + 1 ELSE st.row
      seen == [st EXCEPT !.tsp = t, !.srv = v, !.row = IF v.state \in {"UNLOCKED", "JUMP"} THEN 0 ELSE row,
                         !.hasty = @ \/ (v.state = "LOCKED_STABLE" /\ st.srv.state = "LOCKED" /\ row < SyNum)]
  IN  IF ~SyOffsetKnown(t) THEN [st EXCEPT !.tsp = t, !.srv = [@ EXCEPT !.answer = "UNLOCKED"]]
      ELSE IF v.state = "JUMP"
           THEN [seen EXCEPT !.off = @ - (offset \div 2), !.tsp = SyReset(@, FALSE), !.srv = [v EXCEPT !.answer = "JUMP"]]
           ELSE [seen EXCEPT !.srv = [v EXCEPT !.answer = v.state]]

\* port_synchronize and message_interval_request: the answer of the clock moves the port and
\* the interval that is asked for.
SyPortSynchronize(st, ingress, origin, second) ==
  LET was == st.srv.state
      c == SyClockSynchronize(st, ingress, origin, second)
  IN  CASE c.srv.answer = "UNLOCKED" -> [SyUncalibrated(c) EXCEPT !.ival = "initial"]
        [] c.srv.answer = "JUMP" -> [SyUncalibrated(c) EXCEPT !.reqs = << >>]
        [] c.srv.answer = "LOCKED" -> [c EXCEPT !.state = "SLAVE"]
        [] c.srv.answer = "LOCKED_STABLE" /\ was = "LOCKED" -> [c EXCEPT !.state = "SLAVE", !.ival = "oper"]
        [] c.srv.answer = "LOCKED_STABLE" /\ c.ival # "oper" ->
             SyUncalibrated([c EXCEPT !.srv = SyServoReset(@)])
        [] OTHER -> c

\* The sequence numbers are compared, the senders are not.
SyMatch(a, b) == a.n = b.n

\* port_syfufsm: msg is kept, replaces what was kept, or completes it.
SySyFuFsm(st, msg, match, second) ==
  IF ~match THEN [st EXCEPT !.last = <<msg>>]
  ELSE LET sync == IF msg.kind = "sync" THEN msg ELSE st.last[1]
           fup == IF msg.kind = "fup" THEN msg ELSE st.last[1]
       IN  [SyPortSynchronize(st, sync.ts, SyTime[SyGm[fup.m]], second) EXCEPT
             !.last = << >>, !.mixed = @ \/ (sync.m = fup.m /\ sync.n # fup.n), !.crossed = @ \/ SyGm[sync.m] # SyGm[fup.m]]

\* check_source_identity
SyFromParent(m) == m = syParent

\* fup_sync_ok: the Follow_Up that waits was not stamped before the Sync.
SyMatchable(late) == ~late
\* process_sync.  late: the kernel stamped the waiting Follow_Up before this Sync.
SyProcessSync(m, n, oneStep, late, second) ==
  LET msg == [kind |-> "sync", m |-> m, n |-> n, ts |-> syOff]
      match == syLast # << >> /\ syLast[1].kind = "fup" /\ SyMatchable(late) /\ SyMatch(syLast[1], msg)
  IN  /\ SyFromParent(m)
      /\ SyBecomes(IF oneStep THEN [SyPortSynchronize(SySt, syOff, SyTime[SyGm[m]], second) EXCEPT !.last = << >>]
                   ELSE SySyFuFsm(SySt, msg, match, second))
      /\ UNCHANGED <<syParent, syBest>>
\* process_follow_up
SyProcessFollowUp(m, n, second) ==
  LET msg == [kind |-> "fup", m |-> m, n |-> n, ts |-> 0]
      match == syLast # << >> /\ syLast[1].kind = "sync" /\ SyMatch(syLast[1], msg)
  IN  SyFromParent(m) /\ SyBecomes(SySyFuFsm(SySt, msg, match, second)) /\ UNCHANGED <<syParent, syBest>>

\* port_delay_request
SyDelayRequest ==
  /\ Len(syReqs) < SyReqs /\ SyBecomes([SySt EXCEPT !.reqs = Append(@, syOff)]) /\ UNCHANGED <<syParent, syBest>>
\* clock_path_delay
SyPathDelay(t, req, rx) == SyUpdateDelay(SyUpTs(t, req, rx))
\* A master answers every request; process_delay_resp takes the answer of the parent to a
\* request that is still there.
SyProcessDelayResp(m, i) ==
  /\ SyFromParent(m) /\ i \in DOMAIN syReqs
  /\ SyBecomes([SySt EXCEPT !.tsp = SyPathDelay(@, syReqs[i], SyTime[SyGm[m]]), !.reqs = RemoveAt(@, i)])
  /\ UNCHANGED <<syParent, syBest>>
\* delay_req_prune: a request without an answer for five seconds
SyPrune == syReqs # << >> /\ SyBecomes([SySt EXCEPT !.reqs = Tail(@)]) /\ UNCHANGED <<syParent, syBest>>

\* clock_check_ts, clockcheck_sample: the servo starts over when the local clock and the
\* monotonic clock disagree.
SyCheckTs == sySrv.count > 0 /\ SyBecomes([SySt EXCEPT !.srv = SyServoReset(@)]) /\ UNCHANGED <<syParent, syBest>>

\* handle_state_decision_event and clock_update_slave: another parent.  Only another
\* grandmaster resets the stamps and takes the port back to UNCALIBRATED.
SyNewParent(m) ==
  /\ m # syParent /\ syParent' = m /\ syBest' = SyGm[m]
  /\ SyBecomes(IF SyGm[m] = syBest THEN SySt ELSE SyUncalibrated([SySt EXCEPT !.tsp = SyReset(@, TRUE)]))

\* External: the local clock drifts, within SyWander of a whole step.
SyDrift(d) ==
  /\ (syOff % 10) + d \in 0..SyWander /\ syOff' = syOff + d
  /\ UNCHANGED <<syState, syParent, syBest, syLast, syMixed, syCrossed, syReqs, syTsp, sySrv, syRow, syHasty, syIval>>

SyInit ==
  /\ syState = "UNCALIBRATED" /\ syParent \in SyMasters /\ syBest = SyGm[syParent]
  /\ syLast = << >> /\ syMixed = FALSE /\ syCrossed = FALSE /\ syReqs = << >> /\ syOff = 0 /\ syRow = 0 /\ syHasty = FALSE
  /\ \E mode \in SyModes :
       syTsp = [mode |-> mode, t1 |-> SyNoTs, t2 |-> SyNoTs, t3 |-> SyNoTs, t4 |-> SyNoTs, delay |-> 0, valid |-> FALSE]
  /\ sySrv = [count |-> 0, state |-> "UNLOCKED", answer |-> "none", left |-> SyNum] /\ syIval = "initial"
SyNext ==
  \/ \E m \in SyMasters : SyNewParent(m)
  \/ \E m \in SyMasters, n \in 1..SySyncs, second \in IF sySrv.count = 1 THEN {"good", "early", "back"} ELSE {"good"} :
       \/ SyProcessFollowUp(m, n, second)
       \/ \E oneStep, late \in BOOLEAN : SyProcessSync(m, n, oneStep, late, second)
  \/ \E m \in SyMasters, i \in 1..SyReqs : SyProcessDelayResp(m, i)
  \/ SyDelayRequest \/ SyPrune \/ SyCheckTs \/ \E d \in {-1, 1} : SyDrift(d)

SySpec == SyInit /\ [][SyNext]_syVars

\* A delay is never computed from stamps on the two sides of a step of the local clock or
\* from the times of two grandmasters: it is wrong by less than
\* what makes a step (tsproc_reset and flush_delay_req at SERVO_JUMP, tsproc_reset for a
\* new best).
\* The exception is a port that is UNCALIBRATED already when its grandmaster changes: it
\* keeps the message it waits with, and the new master's may complete it.
SyDelaySound == syTsp.valid => syCrossed \/ SyAbs(syTsp.delay) <= SyStep
\* Sync and Follow_Up taken together, when they are of one master, are of one transmission.
SyPaired == ~syMixed
\* Not kept (ptp4l.8:757): stable once the last servo_num_offset_values offsets are all below the
\* threshold.  check_offset_threshold counts small offsets whether or not a large one came
\* between them.
SyStable == ~syHasty

\* No time stamps are combined that do not belong together (port_syfufsm, tsproc_update_delay).
SySound == SyDelaySound /\ SyPaired
=============================================================================
