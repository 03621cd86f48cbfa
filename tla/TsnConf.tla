------------------------------ MODULE TsnConf ------------------------------
(***************************************************************************)
(* The configuration registers of the TSN MAC: the gate schedule of Qbv     *)
(* (xilinx_tsn_shaper.c, programmed by qbv_sched.c), preemption and its     *)
(* overrides (xilinx_tsn_preemption.c), stream filters and meters           *)
(* (xilinx_tsn_qci.c) and replication (xilinx_tsn_cb.c).  A register is the *)
(* set of its bits that are one, and a value the set of its bits.           *)
(***************************************************************************)
EXTENDS Integers, Sequences, FiniteSets

CONSTANTS QbTc,       \* traffic classes, num_tc (2 or 3)
          QbTick,     \* nanoseconds of a tick (8)
          QbTicks,    \* ticks that CTRL_LIST_TIME_INTERVAL_MASK can tell apart (2^20)
          QbEntries,  \* entries of a gate list (256)
          QbLists,    \* gate lists of /etc/qbv.cfg: sequences of [state, time]
          QbSteps     \* calls of qbv_sched (bound)

VARIABLES qbAdmin,    \* the schedule in the administrative registers
          qbOper,     \* the schedule the gates follow
          qbEnabled,  \* CC_ADMIN_GATE_ENABLE_BIT
          qbPending,  \* a change is on its way, PORT_STATUS bit 0
          qbAsked,    \* history: the user's list that was accepted last
          qbCalls

qbVars == <<qbAdmin, qbOper, qbEnabled, qbPending, qbAsked, qbCalls>>

QbNone == << >>
QbGates == {"BE", "RE", "ST"}    \* GS_BE_OPEN, GS_RE_OPEN, GS_ST_OPEN

\* axienet_probe takes two or three traffic classes.
ASSUME QbAssumption ==
  /\ QbTc \in {2, 3} /\ QbTick \in Nat \ {0} /\ QbTicks \in Nat \ {0}
  /\ \A list \in QbLists : list \in Seq([state : SUBSET QbGates, time : Nat])

\* axienet_map_gs_to_hw: the gates of the hardware
QbMap(gs) ==
  (IF "BE" \in gs THEN {0} ELSE {})
  \cup (IF "ST" \in gs THEN {IF QbTc = 2 THEN 1 ELSE 2} ELSE {})
  \cup (IF QbTc = 3 /\ "RE" \in gs THEN {1} ELSE {})

\* The gates a user sees in __axienet_get_schedule: in a system of two queues the scheduled
\* gate alone is translated back.
QbUnmap(hw) ==
  IF QbTc = 2 /\ hw = {1} THEN {"ST"}
  ELSE {g \in QbGates : CASE g = "BE" -> 0 \in hw [] g = "RE" -> 1 \in hw [] g = "ST" -> 2 \in hw}

\* qbv_sched divides the times of a list by the tick, and the register holds so many bits of them.
QbTicksOf(time) == (time \div QbTick) % QbTicks

\* __axienet_set_schedule
QbSetSchedule(cycle, list, force) ==
  \/ /\ cycle = 0 /\ qbEnabled' = FALSE /\ qbAsked' = QbNone
     /\ UNCHANGED <<qbAdmin, qbOper, qbPending>>
  \/ /\ cycle # 0 /\ qbPending /\ ~force                                   \* -EALREADY
     /\ UNCHANGED <<qbAdmin, qbOper, qbEnabled, qbPending, qbAsked>>
  \/ /\ cycle # 0 /\ (qbPending => force)
     /\ qbAdmin' = [i \in DOMAIN list |-> [gates |-> QbMap(list[i].state), ticks |-> QbTicksOf(list[i].time)]]
     /\ qbEnabled' = TRUE /\ qbPending' = TRUE
     /\ qbAsked' = list /\ UNCHANGED qbOper

\* main of qbv_sched with -s, -c, -f or off: without a gate list, or with one that is too long,
\* nothing is set.
QbSched(cycle, list, force) ==
  /\ qbCalls < QbSteps /\ qbCalls' = qbCalls + 1
  /\ IF Len(list) \in 1..QbEntries
     THEN QbSetSchedule(cycle, list, force)
     ELSE UNCHANGED <<qbAdmin, qbOper, qbEnabled, qbPending, qbAsked>>

\* The hardware takes the administrative schedule over at its base time.
QbTakeOver ==
  /\ qbPending /\ qbEnabled /\ qbOper' = qbAdmin /\ qbPending' = FALSE
  /\ UNCHANGED <<qbAdmin, qbEnabled, qbAsked, qbCalls>>

\* __axienet_get_schedule, and the times as qbv_sched -g shows them, in nanoseconds again
QbGetSchedule ==
  IF ~qbEnabled THEN QbNone
  ELSE [i \in DOMAIN qbOper |-> [state |-> QbUnmap(qbOper[i].gates), time |-> qbOper[i].ticks * QbTick]]

QbInit ==
  /\ qbAdmin = QbNone /\ qbOper = QbNone /\ qbEnabled = FALSE /\ qbPending = FALSE
  /\ qbAsked = QbNone /\ qbCalls = 0

QbNext ==
  \/ QbTakeOver
  \/ \E cycle \in 0..1, list \in QbLists, force \in BOOLEAN : QbSched(cycle, list, force)

\* A time that the register can hold is kept but for the part of a tick.
QbFits(time) == time < QbTick * QbTicks
QbRounded(time, asked) == QbFits(asked) => time <= asked /\ asked < time + QbTick

\* Not kept: what the comment in __axienet_get_schedule says, that a user always sees the scheduled gate
\* as that gate.  The code sees to it where this gate is open alone.
QbStIsSeen ==
  ~qbPending => \A i \in DOMAIN QbGetSchedule : "ST" \in QbGetSchedule[i].state <=> "ST" \in qbAsked[i].state

\* The gates a user sees of those he asked for: in a system of two queues there is no reserved one,
\* and its number is shown for the scheduled gate when the best-effort gate is open too.
QbSeen(gs) ==
  IF QbTc = 3 THEN gs
  ELSE IF {"BE", "ST"} \subseteq gs THEN {"BE", "RE"} ELSE gs \ {"RE"}

\* Once the change has taken place the user reads the list he set, entry by entry, with its times in
\* his own unit.
QbReads ==
  ~qbPending =>
    /\ Len(QbGetSchedule) = Len(qbAsked)
    /\ \A i \in DOMAIN qbAsked : /\ QbGetSchedule[i].state = QbSeen(qbAsked[i].state)
                                 /\ QbRounded(QbGetSchedule[i].time, qbAsked[i].time)

\* The queue tsn_switch_cam_init puts a traffic class into
QbQueueOf(g) == CASE g = "BE" -> 0 [] g = "RE" -> IF QbTc = 3 THEN 1 ELSE 0
                  [] g = "ST" -> IF QbTc = 3 THEN 2 ELSE 1

\* The schedule in force opens the queue of a class exactly when and for as long as the user's list
\* does, whatever lists were set, refused, forced or switched off before.
QbServes ==
  qbEnabled /\ ~qbPending =>
    /\ Len(qbOper) = Len(qbAsked)
    /\ \A i \in DOMAIN qbAsked :
         /\ \A g \in (IF QbTc = 3 THEN QbGates ELSE {"BE", "ST"}) :
              g \in qbAsked[i].state <=> QbQueueOf(g) \in qbOper[i].gates
         /\ QbRounded(qbOper[i].ticks * QbTick, qbAsked[i].time)

----------------------------------------------------------------------------
CONSTANT TcWide       \* fields that are also given a value too wide for them

VARIABLES tcGroup,    \* the registers this behaviour is about
          tcReg,      \* the registers
          tcWant,     \* history: the bits each field was given last
          tcUser,     \* history: aging and learning, on ({0}) or off, as the user set them last
          tcSpoilt    \* history: a value was wider than its field

tcVars == <<tcGroup, tcReg, tcWant, tcUser, tcSpoilt>>

\* The fields: register, shift and width.
TcFields ==
  [en |-> <<"preempt", 0, 1>>,
   timer |-> <<"ctrl", 8, 7>>, frag |-> <<"ctrl", 4, 2>>, verify |-> <<"ctrl", 0, 1>>,
   window |-> <<"qbu", 31, 1>>, guard |-> <<"qbu", 3, 1>>, hold |-> <<"qbu", 16, 9>>,
   rel |-> <<"qbu", 8, 6>>,
   pid |-> <<"filter", 14, 2>>, size |-> <<"filter", 0, 12>>, cir |-> <<"cir", 0, 32>>,
   eir |-> <<"eir", 0, 32>>, cbr |-> <<"cbr", 0, 24>>, ebr |-> <<"ebr", 0, 24>>,
   mode |-> <<"ebr", 28, 4>>,
   port |-> <<"ingress", 24, 2>>, seq |-> <<"ingress", 0, 16>>, hist |-> <<"frer1", 16, 8>>,
   egport |-> <<"frer1", 12, 2>>, vlan |-> <<"frer1", 0, 12>>, ticks |-> <<"frer2", 0, 16>>,
   agetime |-> <<"learn", 8, 20>>, aging |-> <<"learn", 2, 1>>, untag |-> <<"learn", 1, 1>>,
   learning |-> <<"learn", 0, 1>>,
   t1 |-> <<"fifo", 16, 16>>, t2 |-> <<"fifo", 0, 16>>, max |-> <<"max", 0, 16>>,
   type1 |-> <<"type", 16, 16>>, type2 |-> <<"type", 0, 16>>,
   pvid1 |-> <<"native", 0, 12>>, pcp1 |-> <<"native", 13, 3>>, pvid2 |-> <<"native", 16, 12>>,
   pcp2 |-> <<"native", 29, 3>>]
TcGroups == [pre |-> {"en", "timer", "frag", "verify"}, qbu |-> {"window", "guard", "hold", "rel"},
             meter |-> {"cir", "eir", "cbr", "ebr", "mode"}, filter |-> {"pid", "size"},
             cb |-> {"port", "seq", "hist", "egport", "vlan", "ticks"},
             learn |-> {"agetime", "aging", "untag", "learning"},
             regs |-> {"t1", "t2", "max", "type1", "type2"},
             native |-> {"pvid1", "pcp1", "pvid2", "pcp2"}]

TcBitsOf(f) == TcFields[f][2]..(TcFields[f][2] + TcFields[f][3] - 1)
TcMask(f, v) == {b \in v : b < TcFields[f][3]}
TcShift(f, v) == {b + TcFields[f][2] : b \in v} \cap 0..31

\* A field of a register that is read, cleared, set and written
TcPut(r, f, v) == (r \ TcBitsOf(f)) \cup TcShift(f, v)
TcGet(f) == {b - TcFields[f][2] : b \in tcReg[TcFields[f][1]] \cap TcBitsOf(f)}

TcAsked(fs, new) ==
  /\ tcWant' = [f \in DOMAIN tcWant |-> IF f \in fs THEN TcMask(f, new[f]) ELSE tcWant[f]]
  /\ tcSpoilt' = (tcSpoilt \/ \E f \in fs : TcMask(f, new[f]) # new[f])
  /\ UNCHANGED tcGroup

\* axienet_preemption
TcPreemption(new) ==
  tcReg' = [tcReg EXCEPT !["preempt"] = TcMask("en", new.en)] /\ TcAsked({"en"}, new)

\* axienet_preemption_ctrl: the values are not masked.
TcPreemptionCtrl(new) ==
  /\ tcReg' = [tcReg EXCEPT !["ctrl"] =
                 TcPut(TcPut(TcPut(@, "timer", new.timer), "frag", new.frag), "verify", new.verify)]
  /\ TcAsked({"timer", "frag", "verify"}, new)

\* axienet_qbu_user_override: only what the caller marks is changed.  Bits 2, 1 and 0 tell
\* whether the window, the hold and the release time are overridden.
TcOverride(r, bit, f, v) == TcPut(IF v # {} THEN r \cup {bit} ELSE r \ {bit}, f, v)
TcQbuOverride(set, new) ==
  /\ LET window(r) == IF "window" \in set THEN TcOverride(r, 2, "window", new.window) ELSE r
         guard(r)  == IF "guard" \in set THEN TcPut(r, "guard", new.guard) ELSE r
         hold(r)   == IF "hold" \in set THEN TcOverride(r, 1, "hold", new.hold) ELSE r
         rel(r)    == IF "rel" \in set THEN TcOverride(r, 0, "rel", new.rel) ELSE r
     IN  tcReg' = [tcReg EXCEPT !["qbu"] = rel(hold(guard(window(@))))]
  /\ TcAsked(set, new)

\* config_stream_filter, program_meter_reg
TcStreamFilter(new) ==
  /\ tcReg' = [tcReg EXCEPT !["filter"] =
                 TcPut(TcPut({}, "pid", TcMask("pid", new.pid)), "size", TcMask("size", new.size))]
  /\ TcAsked({"pid", "size"}, new)

TcMeter(new) ==
  /\ tcReg' = [tcReg EXCEPT !["cir"] = TcShift("cir", new.cir), !["eir"] = TcShift("eir", new.eir),
                            !["cbr"] = TcMask("cbr", new.cbr),
                            !["ebr"] = TcPut(TcPut({}, "ebr", TcMask("ebr", new.ebr)), "mode", new.mode)]
  /\ TcAsked({"cir", "eir", "cbr", "ebr", "mode"}, new)

\* config_ingress_filter and program_member_reg share their three registers.
TcIngressFilter(new) ==
  /\ tcReg' = [tcReg EXCEPT !["ingress"] = TcPut(@, "port", TcMask("port", new.port)),
                            !["frer1"] = TcPut(@, "hist", TcMask("hist", new.hist)),
                            !["frer2"] = TcPut(@, "ticks", new.ticks)]
  /\ TcAsked({"port", "hist", "ticks"}, new)

TcMember(new) ==
  /\ tcReg' = [tcReg EXCEPT !["frer1"] = TcPut(TcPut(@, "egport", TcMask("egport", new.egport)),
                                               "vlan", TcMask("vlan", new.vlan)),
                            !["frer2"] = new.ticks,
                            !["ingress"] = TcPut(@, "seq", TcMask("seq", new.seq))]
  /\ TcAsked({"egport", "vlan", "ticks", "seq"}, new)

\* set_mac_addr_learn: a time of zero changes nothing, only what is marked is changed, and the bits
\* of aging and learning are set to switch these off.
TcSwitches == {"aging", "learning"}
TcOff(v) == {0} \ v
TcSetLearn(set, new) ==
  LET marked == {f \in set : f = "agetime" => new[f] # {}}
      bits == [f \in DOMAIN new |-> IF f \in TcSwitches THEN TcOff(new[f]) ELSE new[f]]
      Put(r, f) == IF f \in marked THEN TcPut(r, f, bits[f]) ELSE r
  IN  /\ tcReg' = [tcReg EXCEPT !["learn"] =
                     Put(Put(Put(Put(@, "agetime"), "aging"), "learning"), "untag")]
      /\ TcAsked(marked, bits)
      /\ tcUser' = [f \in TcSwitches |-> IF f \in marked THEN new[f] ELSE tcUser[f]]

\* set_switch_regs: thresholds of a queue and the largest frame
TcSwitchRegs(new) ==
  /\ tcReg' = [tcReg EXCEPT !["fifo"] = TcShift("t1", new.t1) \cup TcShift("t2", new.t2),
                            !["max"] = TcShift("max", new.max)]
  /\ TcAsked({"t1", "t2", "max"}, new)

\* set_frame_filter_opt: a type of zero leaves the field.
TcFrameFilter(new) ==
  LET set == {f \in {"type1", "type2"} : new[f] # {}}
      Put(r, f) == IF f \in set THEN TcPut(r, f, new[f]) ELSE r
  IN  tcReg' = [tcReg EXCEPT !["type"] = Put(Put(@, "type1"), "type2")] /\ TcAsked(set, new)

\* tsn_switch_pvid_add: the two MAC ports share a register, and the priority is optional.
TcNative(vlan, pcp, ipv, new) ==
  /\ tcReg' = [tcReg EXCEPT !["native"] = LET r == TcPut(@, vlan, new[vlan])
                                          IN  IF ipv THEN TcPut(r, pcp, new[pcp]) ELSE r]
  /\ TcAsked({vlan} \cup (IF ipv THEN {pcp} ELSE {}), new)

TcInit ==
  /\ tcGroup \in DOMAIN TcGroups
  /\ tcReg = [r \in {TcFields[f][1] : f \in DOMAIN TcFields} |-> {}]
  /\ tcWant = [f \in DOMAIN TcFields |-> {}] /\ tcUser = [f \in TcSwitches |-> {0}] /\ tcSpoilt = FALSE

\* The values tried: nothing, both ends of the field, and one bit more than it has
TcValues(f) == {{}, {0, TcFields[f][3] - 1}} \cup (IF f \in TcWide THEN {{TcFields[f][3]}} ELSE {})
TcNews == LET fs == TcGroups[tcGroup]
          IN  {new \in [fs -> UNION {TcValues(f) : f \in fs}] : \A f \in fs : new[f] \in TcValues(f)}

TcNext ==
  \E new \in TcNews :
    \/ tcGroup = "learn" /\ \E set \in SUBSET TcGroups.learn : TcSetLearn(set, new)
    \/ /\ UNCHANGED tcUser
       /\ \/ tcGroup = "pre" /\ (TcPreemption(new) \/ TcPreemptionCtrl(new))
          \/ tcGroup = "qbu" /\ \E set \in SUBSET TcGroups.qbu : TcQbuOverride(set, new)
          \/ tcGroup = "filter" /\ TcStreamFilter(new)
          \/ tcGroup = "meter" /\ TcMeter(new)
          \/ tcGroup = "regs" /\ (TcSwitchRegs(new) \/ TcFrameFilter(new))
          \/ tcGroup = "native" /\ \E ipv \in BOOLEAN : \/ TcNative("pvid1", "pcp1", ipv, new)
                                                     \/ TcNative("pvid2", "pcp2", ipv, new)
          \/ tcGroup = "cb" /\ (TcIngressFilter(new) \/ TcMember(new))

\* What the calls that read the registers return
TcRead(fs) == [f \in fs |-> TcGet(f)]
TcPreemptionSts == TcRead({"en", "timer", "frag", "verify"})
TcQbuSts == TcRead({"window", "guard", "hold", "rel"})
TcGetStreamFilter == TcRead({"pid", "size"})
TcGetMeter == TcRead({"cir", "eir", "cbr", "ebr", "mode"})
TcGetIngressFilter == TcRead({"port", "seq"})
TcGetMember == TcRead({"hist", "egport", "vlan", "ticks"})
TcGetLearn == TcRead({"agetime", "untag", "aging", "learning"})      \* as they stand in the register
TcGetSwitchRegs == TcRead({"t1", "t2", "max", "type2"})     \* type1 is overwritten by type2
TcGetNative == TcRead({"pvid1", "pcp1", "pvid2", "pcp2"})

\* Every call that reads a register returns the bits set last, whichever call wrote the rest of the
\* register, as long as no value was wider than its field.  Aging and learning, which the user
\* switches on by clearing their bits, are so read back as the opposite of what he set.
TcReadBack ==
  LET Same(r) == \A f \in DOMAIN r : r[f] = tcWant[f]
  IN  ~tcSpoilt =>
        CASE tcGroup = "pre" -> Same(TcPreemptionSts) [] tcGroup = "qbu" -> Same(TcQbuSts)
          [] tcGroup = "filter" -> Same(TcGetStreamFilter) [] tcGroup = "meter" -> Same(TcGetMeter)
          [] tcGroup = "cb" -> Same(TcGetIngressFilter) /\ Same(TcGetMember)
          [] tcGroup = "learn" -> Same(TcGetLearn) /\ \A f \in TcSwitches : TcGetLearn[f] = TcOff(tcUser[f])
          [] tcGroup = "regs" -> Same(TcGetSwitchRegs) [] tcGroup = "native" -> Same(TcGetNative)
=============================================================================
