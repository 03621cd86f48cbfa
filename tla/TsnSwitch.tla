----------------------------- MODULE TsnSwitch -----------------------------
(***************************************************************************)
(* The TSN switch as Linux sees it (xilinx_tsn_switch.c, its ioctls, and    *)
(* xilinx_tsn_switchdev.c, the bridge's requests): the VLAN table behind    *)
(* one control and one data register, the address table (CAM) behind its    *)
(* key and action registers, the port states and the native VLANs.  The     *)
(* bridge's requests run under the rtnl lock and the ioctls without any, so *)
(* that the accesses of a call mix with those of others: each is a step.    *)
(***************************************************************************)
EXTENDS Integers, Sequences, FiniteSets, SequencesExt

CONSTANTS SwVlans,     \* VLANs, 1..n
          SwPorts,     \* "ep", "mac1", "mac2", "ex"
          SwCallers,   \* "bridge" and the processes that call ioctls
          SwKeys,      \* addresses of the bridge, each <<what KEY1 holds of it, what KEY2 holds>>
          SwUserKeys,  \* addresses of the ioctls; the bridge may know them too
          SwExEp,      \* the extended end point exists
          SwLearnHw,   \* en_hw_addr_learning
          SwOps,       \* operations on the VLAN table (bound)
          FdOps        \* operations on the address table (bound)

ASSUME SwAssumption ==
  /\ SwVlans \subseteq Nat /\ \A v \in SwVlans : 1..v \subseteq SwVlans
  /\ "bridge" \in SwCallers
  /\ \A k \in SwKeys \cup SwUserKeys : k = <<k[1], k[2]>>

VARIABLES swTable,     \* the VLAN table: ports, and learning disabled
          swData,      \* XAS_VLAN_MEMB_DATA_REG
          swCtrl,      \* the VLAN in XAS_VLAN_MEMB_CTRL_REG
          swCall,      \* the call of each caller
          swAsked,     \* history: the ports asked for, per VLAN
          swLost,      \* history: VLANs written by a call that was not sound
          swNative,    \* native VLAN of each port
          swState,     \* spanning tree state of each port
          swChange,    \* ports whose change bit is still set
          swCount

swRegs == <<swTable, swData, swCtrl>>
swHistory == <<swAsked, swLost>>
swVlanVars == <<swRegs, swCall, swHistory, swNative>>
swStpVars == <<swState, swChange>>

SwEmpty == [ports |-> {}, noLearn |-> FALSE]

\* A call: what it is to do, from VLAN v to VLAN hi, and its local variables data (u_value1) and
\* at (the VLAN in u_value).  It is sound (history) as long as nobody else has been in the registers
\* since it began with v, and the entry it works on is that of v.
SwCallOf(op, p, v, hi, pc) ==
  [op |-> op, port |-> p, v |-> v, hi |-> hi, native |-> 0, pc |-> pc, data |-> SwEmpty, at |-> v,
   sound |-> FALSE]
SwIdle == SwCallOf("none", "ep", 1, 1, "idle")
SwOut(b) == swCall[b].pc \in {"idle", "next"}
SwAlone(a) == \A b \in SwCallers \ {a} : SwOut(b)

\* a goes on with c, in the registers that the others are in as well.
SwMeet(a, c) == swCall' = [b \in SwCallers |-> IF b = a THEN c ELSE [swCall[b] EXCEPT !.sound = FALSE]]
SwGoOn(a, c) == swCall' = [swCall EXCEPT ![a] = c]

\* A command in the control register: READ loads the data register, WRITE stores it.
SwLoad(v) == swData' = swTable[v] /\ swCtrl' = v /\ UNCHANGED swTable
SwStore(v) == swTable' = [swTable EXCEPT ![v] = swData] /\ swCtrl' = v /\ UNCHANGED swData

\* tsn_switch_vlan_add: the data register is read before the READ of the VLAN is issued, so that the
\* new entry is made of whatever VLAN was there ...
SwVlanAdd(a, c) ==
  SwMeet(a, [c EXCEPT !.pc = "load", !.data = swData, !.sound = SwAlone(a) /\ swCtrl = c.v])
SwLoadVlan(a) ==
  /\ swCall[a].pc = "load" /\ SwLoad(swCall[a].v)
  /\ SwGoOn(a, [swCall[a] EXCEPT !.pc = "put"]) /\ UNCHANGED <<swHistory, swNative, swStpVars>>

\* ... and set_vlan_mac_addr_learn takes the VLAN it writes from the control register, and the entry
\* from the data register after the READ.
SwFetch(a) ==
  /\ swCall[a].pc = "fetch" /\ SwGoOn(a, [swCall[a] EXCEPT !.pc = "take", !.at = swCtrl])
  /\ UNCHANGED <<swRegs, swHistory, swNative, swStpVars>>
SwTake(a) ==
  /\ swCall[a].pc = "take" /\ SwGoOn(a, [swCall[a] EXCEPT !.pc = "put", !.data = swData])
  /\ UNCHANGED <<swRegs, swHistory, swNative, swStpVars>>

\* Both write the data register and then the command.  The bit that makes the list of ports valid
\* is the bit of the extended end point.
SwEntry(c) ==
  CASE c.op = "add" -> [c.data EXCEPT !.ports = @ \cup {"ex", c.port}]
    [] c.op = "del" -> [c.data EXCEPT !.ports = @ \ {c.port}]
    [] OTHER -> [c.data EXCEPT !.noLearn = (c.op = "unlearn")]
SwPut(a) ==
  /\ swCall[a].pc = "put" /\ swData' = SwEntry(swCall[a])
  /\ SwGoOn(a, [swCall[a] EXCEPT !.pc = "store"])
  /\ UNCHANGED <<swTable, swCtrl, swHistory, swNative, swStpVars>>

\* The next VLAN of a range, or the end
SwAfter(c) == IF c.v < c.hi THEN [c EXCEPT !.v = @ + 1, !.at = c.v + 1, !.pc = "next", !.sound = FALSE]
              ELSE SwIdle
SwPortsFor(c, ports) == CASE c.op = "add" -> ports \cup {c.port} [] c.op = "del" -> ports \ {c.port}
                        [] OTHER -> ports
SwStoreVlan(a) ==
  LET c == swCall[a]
  IN  /\ c.pc = "store" /\ SwStore(c.at) /\ SwGoOn(a, SwAfter(c))
      /\ swAsked' = [swAsked EXCEPT ![c.v] = SwPortsFor(c, @)]
      /\ swLost' = IF c.sound THEN swLost ELSE swLost \cup {c.at}
      /\ UNCHANGED <<swNative, swStpVars>>

\* ADD_PORT_VLAN, DEL_PORT_VLAN: refused when a queue is asked for while the register says
\* that addresses are learnt, or a state while it says that they are not.
SwVlanRefused(ipv, status) == IF swData.noLearn THEN status ELSE ipv
SwPortVlan(a, op, v, p, ipv, status) ==
  /\ swCall[a] = SwIdle /\ ~SwVlanRefused(ipv, status)
  /\ SwVlanAdd(a, SwCallOf(op, p, v, v, "next")) /\ UNCHANGED <<swRegs, swHistory, swNative, swStpVars>>

\* SET_VLAN_MAC_ADDR_LEARN_CONFIG
SwSetVlanLearn(a, v, op) ==
  /\ SwLearnHw /\ swCall[a] = SwIdle /\ SwLoad(v)
  /\ SwMeet(a, [SwCallOf(op, "ep", v, v, "fetch") EXCEPT !.sound = SwAlone(a)])
  /\ UNCHANGED <<swHistory, swNative, swStpVars>>

\* GET_VLAN_MAC_ADDR_LEARN_CONFIG(_VLANM), and PORT_VLAN_MEM_CTRL: any command on the table
SwGetVlanLearn(a, v) ==
  /\ swCall[a] = SwIdle /\ SwLoad(v) /\ SwMeet(a, SwIdle) /\ UNCHANGED <<swHistory, swNative, swStpVars>>
SwMemCtrl(a, v) ==
  /\ swCall[a] = SwIdle /\ SwStore(v) /\ SwMeet(a, SwIdle)
  /\ swLost' = IF SwAlone(a) /\ swCtrl = v THEN swLost ELSE swLost \cup {v}
  /\ UNCHANGED <<swAsked, swNative, swStpVars>>

\* tsn_switch_pvid_add: nothing for the extended end point
SwPvidAdd(p, v) == swNative' = IF p = "ex" THEN swNative ELSE [swNative EXCEPT ![p] = v]
SwPvid(p, v) == SwPvidAdd(p, v) /\ UNCHANGED <<swRegs, swCall, swHistory, swStpVars>>

\* xlnx_sw_port_obj_vlan_add for the VLANs lo to hi, and xlnx_sw_port_obj_vlan_del, which has looked
\* up the native VLAN of the port: as native VLANs the last one stays.
SwObj(op, p, lo, hi) ==
  /\ swCall["bridge"] = SwIdle
  /\ SwGoOn("bridge", [SwCallOf(op, p, lo, hi, "next") EXCEPT
                         !.native = IF op = "del" /\ p \in DOMAIN swNative THEN swNative[p] ELSE 0])
  /\ UNCHANGED <<swRegs, swHistory, swNative, swStpVars>>
SwObjPvid(p, hi) == swCall["bridge"] = SwIdle /\ SwPvid(p, hi)

\* The next VLAN of the bridge's request: a port stays in its native VLAN, and VLAN 1 becomes that.
SwObjNext ==
  LET c == swCall["bridge"]
  IN  /\ c.pc = "next" /\ UNCHANGED <<swRegs, swHistory, swStpVars>>
      /\ IF c.v = c.native THEN SwPvidAdd(c.port, 1) /\ SwGoOn("bridge", SwAfter(c))
         ELSE SwVlanAdd("bridge", c) /\ UNCHANGED swNative

\* tsn_switch_set_stp_state: a port whose last change is still under way keeps its state,
\* and the change bit of the end point is set in its stead.  The call waits for the bit, but
\* not for ever (late).
SwSetStp(p, s, late) ==
  LET bit == IF p \in swChange THEN "ep" ELSE p
  IN  /\ p = "ex" => SwExEp
      /\ swState' = IF p \in swChange THEN swState ELSE [swState EXCEPT ![p] = s]
      /\ swChange' = IF late THEN swChange \cup {bit} ELSE swChange \ {bit}
      /\ UNCHANGED swVlanVars
SwStpDone(p) == p \in swChange /\ swChange' = swChange \ {p} /\ UNCHANGED <<swState, swVlanVars>>

SwVlanStep == \E a \in SwCallers : SwLoadVlan(a) \/ SwFetch(a) \/ SwTake(a) \/ SwPut(a) \/ SwStoreVlan(a)

SwVlanOp ==
  \/ \E v \in SwVlans, p \in SwPorts :
       \/ SwPvid(p, v)
       \/ \E a \in SwCallers \ {"bridge"}, op \in {"add", "del"}, ipv, status \in BOOLEAN :
            SwPortVlan(a, op, v, p, ipv, status)
       \/ \E hi \in SwVlans, op \in {"add", "del"} : v <= hi /\ (SwObj(op, p, v, hi) \/ SwObjPvid(p, hi))
  \/ \E a \in SwCallers \ {"bridge"}, v \in SwVlans :
       \/ \E op \in {"learn", "unlearn"} : SwSetVlanLearn(a, v, op)
       \/ SwGetVlanLearn(a, v) \/ SwMemCtrl(a, v)
  \/ \E p \in SwPorts : SwStpDone(p) \/ \E s \in {"blocking", "forwarding"}, late \in BOOLEAN : SwSetStp(p, s, late)

SwInit ==
  /\ swTable = [v \in SwVlans |-> SwEmpty] /\ swData = SwEmpty /\ swCtrl \in SwVlans
  /\ swCall = [a \in SwCallers |-> SwIdle]
  /\ swAsked = [v \in SwVlans |-> {}] /\ swLost = {}
  /\ swNative = [p \in SwPorts \ {"ex"} |-> 1]
  /\ swState = [p \in SwPorts |-> "disabled"] /\ swChange = {} /\ swCount = 0

swVars == <<swVlanVars, swStpVars, swCount>>
SwNext ==
  \/ UNCHANGED swCount /\ (SwVlanStep \/ SwObjNext)
  \/ swCount < SwOps /\ swCount' = swCount + 1 /\ SwVlanOp

\* A VLAN has the ports that were added to it and not removed since, whatever calls do to other
\* VLANs: only a call that met another one in the registers, or found another VLAN's entry there,
\* can spoil it, and only the VLAN it writes.
SwMembers == \A v \in SwVlans \ swLost : swTable[v].ports \ {"ex"} = swAsked[v] \ {"ex"}

----------------------------------------------------------------------------
(* The address table.  A call writes the two key registers, the translation and the action *)
(* registers and then the command; nothing keeps callers apart.                            *)

VARIABLES fdCam,       \* the address table: the ports of each address, {} for none
          fdRegs,      \* KEY1, KEY2 and the port list in the registers
          fdCall,      \* the call of each caller
          fdQueue,     \* xlnx_sw_owq, requests of the bridge in their order
          fdBridge,    \* the bridge's own table
          fdLost,      \* history: addresses the bridge's last request does not decide
          fdCount

fdVars == <<fdCam, fdRegs, fdCall, fdQueue, fdBridge, fdLost, fdCount>>
FdMixes(keys) == {<<k[1], l[2]>> : k, l \in keys}
FdAll == FdMixes(SwKeys \cup SwUserKeys)

\* A call; history: it was alone, and its address and those of the callers it met.
FdCallOf(cmd, key, ports, pc, alone, met) ==
  [cmd |-> cmd, key |-> key, ports |-> ports, pc |-> pc, alone |-> alone, met |-> met]
FdIdle == FdCallOf("none", << >>, {}, "idle", FALSE, {})

\* tsn_switch_cam_set refuses an extended port that does not exist, when an entry is deleted
\* only for the one of the two kinds of forwarding.
FdRefused(ports, add) ==
  ((add /\ "ex_only" \in ports) \/ "ex_ep" \in ports) /\ ~SwExEp

\* tsn_switch_cam_set and read_cam_entry write the first half of the address, ...
FdStart(a, cmd, key, ports) ==
  LET busy == {b \in SwCallers : fdCall[b] # FdIdle}
  IN  /\ a \notin busy /\ fdRegs' = [fdRegs EXCEPT !.key1 = key[1]]
      /\ fdCall' = [b \in SwCallers |->
                      IF b = a THEN FdCallOf(cmd, key, ports, "key2", busy = {}, {key} \cup {fdCall[c].key : c \in busy})
                      ELSE IF b \in busy THEN [fdCall[b] EXCEPT !.alone = FALSE, !.met = @ \cup {key}]
                      ELSE FdIdle]

\* ... the second half, ...
FdKey2(a) ==
  /\ fdCall[a].pc = "key2" /\ fdRegs' = [fdRegs EXCEPT !.key2 = fdCall[a].key[2]]
  /\ fdCall' = [fdCall EXCEPT ![a].pc = IF fdCall[a].cmd = "read" THEN "command" ELSE "action"]
  /\ UNCHANGED <<fdCam, fdQueue, fdBridge, fdLost, fdCount>>

\* ... what is to be done with its frames, ...
FdAction(a) ==
  /\ fdCall[a].pc = "action" /\ fdRegs' = [fdRegs EXCEPT !.ports = fdCall[a].ports]
  /\ fdCall' = [fdCall EXCEPT ![a].pc = "command"] /\ UNCHANGED <<fdCam, fdQueue, fdBridge, fdLost, fdCount>>

\* ... and the command.  A READ loads the action register of an address that is found.  What an
\* ioctl does to an address of the bridge is not what the bridge asked for.
FdCommand(a) ==
  LET c == fdCall[a]
      key == <<fdRegs.key1, fdRegs.key2>>
  IN  /\ c.pc = "command" /\ fdCall' = [fdCall EXCEPT ![a] = FdIdle]
      /\ fdCam' = CASE c.cmd = "add" -> [fdCam EXCEPT ![key] = fdRegs.ports]
                    [] c.cmd = "delete" -> [fdCam EXCEPT ![key] = {}]
                    [] c.cmd = "read" -> fdCam
      /\ fdRegs' = IF c.cmd = "read" /\ fdCam[key] # {} THEN [fdRegs EXCEPT !.ports = fdCam[key]] ELSE fdRegs
      /\ fdLost' = CASE c.cmd = "read" -> fdLost
                     [] c.cmd # "read" /\ ~c.alone -> fdLost \cup FdMixes(c.met)
                     [] c.cmd # "read" /\ c.alone -> IF a = "bridge" THEN fdLost \ {c.key} ELSE fdLost \cup {c.key}
      /\ UNCHANGED <<fdQueue, fdBridge, fdCount>>

\* ADD_CAM_ENTRY, DELETE_CAM_ENTRY, READ_CAM_ENTRY
FdIoctl(a, cmd, key, ports) ==
  /\ fdCount < FdOps /\ fdCount' = fdCount + 1
  /\ cmd # "read" => ~FdRefused(ports, cmd = "add")
  /\ FdStart(a, cmd, key, ports)
  /\ UNCHANGED <<fdCam, fdQueue, fdBridge, fdLost>>

\* xlnx_switchdev_event: the bridge has changed its table; a request is queued.
FdEvent(cmd, key, port) ==
  /\ fdCount < FdOps /\ fdCount' = fdCount + 1
  /\ cmd = "add" \/ fdBridge[key] = {port}
  /\ fdBridge' = [fdBridge EXCEPT ![key] = IF cmd = "add" THEN {port} ELSE {}]
  /\ fdQueue' = Append(fdQueue, [cmd |-> cmd, key |-> key, ports |-> {port}])
  /\ UNCHANGED <<fdCam, fdRegs, fdCall, fdLost>>

\* Mutant: a request may overtake those before it.
FdTakenAny == DOMAIN fdQueue
\* xlnx_sw_owq is an ordered work queue.
FdTaken == DOMAIN fdQueue \cap {1}

\* xlnx_switchdev_event_work
FdWork ==
  /\ \E i \in FdTaken :
       /\ FdStart("bridge", fdQueue[i].cmd, fdQueue[i].key, fdQueue[i].ports)
       /\ fdQueue' = RemoveAt(fdQueue, i)
  /\ UNCHANGED <<fdCam, fdBridge, fdLost, fdCount>>

\* ... and the address table not ready for too long: the entry is not made, and only logged.
FdWorkFails ==
  /\ fdQueue # << >> /\ fdCall["bridge"] = FdIdle
  /\ fdQueue' = Tail(fdQueue) /\ fdLost' = fdLost \cup {Head(fdQueue).key}
  /\ UNCHANGED <<fdCam, fdRegs, fdCall, fdBridge, fdCount>>

FdInit ==
  /\ fdCam = [k \in FdAll |-> {}] /\ fdRegs = [key1 |-> "", key2 |-> "", ports |-> {}]
  /\ fdCall = [a \in SwCallers |-> FdIdle] /\ fdQueue = << >>
  /\ fdBridge = [k \in SwKeys |-> {}] /\ fdLost = {} /\ fdCount = 0

FdNext ==
  \/ FdWork \/ FdWorkFails
  \/ \E a \in SwCallers : FdKey2(a) \/ FdAction(a) \/ FdCommand(a)
  \/ \E cmd \in {"add", "delete"}, key \in SwKeys, p \in {"ep", "mac1"} : FdEvent(cmd, key, p)
  \/ \E a \in SwCallers \ {"bridge"}, cmd \in {"add", "delete", "read"}, key \in SwUserKeys,
       ports \in {{"mac1"}, {"ep", "ex_only"}, {"ex_ep"}} : FdIoctl(a, cmd, key, ports)

\* Once the bridge's requests are done, the switch forwards as the bridge does, but for an address
\* whose last request failed or which an ioctl named since, and for addresses made of the halves of
\* those of calls that met in the registers; the next request for it that is alone mends it.
FdFollows ==
  fdQueue = << >> /\ fdCall["bridge"] = FdIdle => \A k \in SwKeys \ fdLost : fdCam[k] = fdBridge[k]
=============================================================================
