# Verification of the TSN/TRDP project

TLA+ models, TLC runs and TLAPS proofs for the train-communication stack of this
repository: TRDP process data applications that hand their frames to a
time-aware DMA (TADMA), which a Qbv schedule empties. Paths below are relative
to the repository. `Module!Definition` names refer to the modules in this
directory; `PROJECT.json` maps every definition to the lines it translates.

Contents: 1 inventory, 2 modules and the code, 3 runs, 4 bounds, 5 fairness,
6 proofs, 7 findings, 8 limits, 9 plan.

## 1 Inventory

How a telegram travels: an application (`app/trdp/src`) opens a TRDP session,
configures the TADMA with one stream per ComId by ioctl, publishes telegrams and
lets a thread call `tlc_process_send`. Each packet enters the kernel driver,
which looks up the ring of its tag (destination address, ComId) and puts it into
that ring. The hardware fetches from a ring when the trigger time of the stream
comes. An interrupt frees what was fetched. On the other side a thread calls
`tlc_process_recv`, the application reads with `tlp_get`. linuxptp keeps the
clocks of all of them together.

| component | state | operations | talks to | hard because | correct when |
|---|---|---|---|---|---|
| TADMA rings `driver/xilinx/xilinx_tsn_tadma.c` | per stream `tx_bd_head/tail/rd`, descriptors; hardware ALM and PM | `axienet_tadma_xmit`, `tadma_irq`, `tadma_xmit_done`, open, stop | network stack, hardware, interrupt | the scan of the handler takes no lock; two full tests; status cleared before the scan | nothing is freed before it was fetched, nothing live is overwritten, everything fetched is freed, a stopped queue is woken |
| TADMA stream table, same file | hash table, `get_sid`, `get_sfm`, fetch memory | add, program, flush, off | ioctl callers, the sender's lookup | counters and table are reset by different calls; adds fail half-way | indices in range, one ring per stream, memory exactly as configured |
| TADMA configuration `app/trdp/src/{sendHello,transHello}.c`, `app/misc-utils/tadma_prog.c` | the list of streams | flush, adds, program; off | stream table | request layouts differ; programs follow one another | a list that fits is accepted and in force |
| TRDP publisher `trdp_if.c`, `trdp_pdcom.c` | send queue, per element timer, flags, counters | publish, put, unpublish, setRedundant, PULL, `trdp_pdSendQueued` | send thread, receive thread (PULL) | a late thread, PULL through the same element, the 10 ms grid | the cycle is kept, counters are consecutive |
| TRDP subscriber, same files, `trdp_utils.c` | element with timer and flags, list of last counters, socket | subscribe, request, get, receive, time-outs | receive thread, application, network | loss, duplicates, time-out against a late packet, overflow | time-outs exactly when due, no stale data, gaps counted |
| TRDP message data `trdp_mdcom.c`, `tlm_` calls of `trdp_if.c` | caller and replier sessions, TCP connections with a half-received message | notify, request, reply, confirm, abort, retries, time-outs | sockets, callbacks | time-out against late reply, retry against duplicate, connections shared and used in pieces | a request never has two sessions at once and has one reported end, messages on a connection do not mix |
| TRDP sessions and sockets `trdp_if.c`, `trdp_utils.c` | session list, socket table, multicast groups | init, open, close, re-init, request and release a socket | all of TRDP | usage counts, one slot counter for all sessions, calls that fail half-way | a socket is open exactly while it is used and hears the groups of its users |
| TRDP abstraction layer `vos_mem.c`, `vos_thread.c` | pool with free lists, message queues, thread and times | alloc, free; send, receive; delay, time arithmetic | all of TRDP | a size written outside the mutex, signals during a delay | no block twice, no message lost or twice, no cycle early |
| TRDP utilities `tau_marshall.c`, `tau_dnr.c`, `tau_tti.c` | data set descriptions, cache of names, topology counts and cached consists | marshall, unmarshall, size; resolve; follow the train's status, ask for directories | application, DNS, the train's data base | nested and variable data sets; a cache without a lock; a callback seen half done, replies of an earlier train | what is unpacked is what was packed; an address belongs to its name; the counts are those of the train and no change is missed |
| AXI Ethernet `xilinx_axienet_*.c` | descriptor rings, options and clocks of the MAC | xmit, NAPI poll, error handler; probe, open, mtu, filter | stack, DMA | poll against interrupt, errors in the middle, failing probes | nothing used after it is freed, no wake-up lost, MAC as configured |
| TSN end point and ports `xilinx_tsn_ep*.c`, `_ip.c` | devices, queues, channels with shared interrupts | open, close, send, interrupts | rings, TADMA, PTP | one data path and one handler for several devices | each frame takes the way of its kind, none left in a ring |
| PTP in the driver `xilinx_tsn_ptp_*.c` | transmit and receive buffers, queue for time stamps, clock offset | xmit, interrupt, work item, set and adjust | ptp4l, MAC | buffer indices, work item against new frames | no frame lost or out of order, clock exact |
| Qbv, preemption, Qci, CB `xilinx_tsn_{shaper,preemption,qci,cb}.c` | gate lists, registers | set, get | hardware | lists translated both ways, registers shared by calls | in force and read back as asked |
| switch `xilinx_tsn_switch.c`, `_switchdev.c` | VLAN and address tables behind one register set | ioctls, bridge requests | hardware, bridge | every call is several register accesses, two kinds of callers without a common lock | tables as asked, and damage by calls that meet stays where they worked |
| other MACs `xilinx_emaclite.c`, `ll_temac_*.c` | buffers, rings | xmit, interrupt, open, stop | stack | interrupt without a lock, marks read before they are set | as for AXI Ethernet |
| linuxptp ports `app/linuxptp-3.0/{port,clock,bmc,fsm,tsproc,servo,unicast_*}.c` | data sets, foreign masters, timers, delay exchanges, servo, grants | events, messages, timers | network, PHC | timers handled after they were disarmed, exchanges across steps and changes of master, renewals | one slave, timers as the state needs, no delay from stamps that do not belong together, service without gap |
| linuxptp around the ports `{tc,phc2sys,msg,tlv,pmc_common,uds}.c` | forwarded messages, clocks of the host, message pool, subscriptions | forward, reconfigure, convert, answer | ports, local socket | corrections restored per port, notifications in the middle of a reconfiguration | residence times added once, no clock adjusted twice, answers from the clocks asked |
| statistics, XML, transports, AVB examples, dissector, scripts | – | – | – | – | not modelled, section 8 |

`PROJECT.json` has the same list with the status of each part, and the hazards
with their lines.

## 2 Modules and the code

| module | models | extends / instantiates |
|---|---|---|
| `Tadma` | the transmit rings, the interrupt handler, open and stop, the hardware's fetches | |
| `TadmaProof` | theorems about `Tadma` | `Tadma` |
| `TadmaStreams`, `MCTadmaConfig` | the stream table and the fetch memory under any sequence of ioctls, and sendHello, transHello and tadma_prog on top of it; tags and configurations of the runs | |
| `TadmaStreamsProof` | theorems about the table and about the programs | `TadmaStreams` |
| `TrdpPacket` | counters, message types and payloads of both sides | |
| `TrdpSource` | abstract specification: what a publisher promises its subscribers | |
| `TrdpSend`, `MCTrdpSend` | the send queue of a session | `TrdpPacket`, instantiates `TrdpSource` |
| `TrdpSendProof` | type correctness, the cycle, the grid, no bursts; `TrdpSend` implements `TrdpSource` | `TrdpSend` |
| `TrdpRecv` | a subscription | `TrdpPacket` |
| `TrdpPd` | publisher (as `TrdpSource`), network and subscriber together | `TrdpRecv`, `TrdpSource` |
| `TrdpPdProof` | theorems about it | `TrdpPd` |
| `TrdpMd`, `TrdpTcp` | message data over UDP; connections of message data over TCP | |
| `TrdpSession` | sessions, socket pool, multicast groups | |
| `Vos` | the abstraction layer: memory pool, message queues, cyclic threads and times | |
| `TauMarshall`, `TauDnr`, `TauTti` | marshalling; name resolution; train topology information | |
| `MCTrdpServices` | the seven modules above (`Vos` as its three parts), one at a time | all of them |
| `TrdpServicesProof` | theorems about topology information, the abstraction layer, sessions and message data | `TauTti`, `Vos`, `TrdpSession`, `TrdpMd`, `TrdpTcp` |
| `PtpBmc` | state machines and data set comparison as pure operators; foreign masters, timers, faults, state decision of a clock with its ports | |
| `PtpSync`, `PtpPeer`, `PtpUnicast` | delay mechanism and servo; peer delay; unicast negotiation | |
| `MCPtpPort` | the four of them, one at a time | all of them |
| `PtpProof` | theorems about peer delay, time stamps, unicast service, transparent clocks, phc2sys and the driver's PTP part | `PtpPeer`, `PtpSync`, `PtpUnicast`, `PtpTransparent`, `Phc2sys`, `PtpDrv` |
| `PtpTransparent`, `Phc2sys`, `PtpMsg`, `PtpMgmt`, `MCPtpServices` | transparent clock; phc2sys -a; messages in memory; management | |
| `AxiDma`, `AxiMac`, `TsnEndpoint`, `PtpDrv` | rings; life and configuration of the MAC; devices and channels; PTP buffers and clock | |
| `TsnConf`, `TsnSwitch` | registers of the TSN MAC; tables of the switch | |
| `Emaclite`, `LlTemac`, `MCDrivers` | the older MACs; all drivers, one at a time | |
| `RingsProof` | theorems about the rings and buffers of the three kinds of MAC | `AxiDma`, `Emaclite`, `LlTemac` |
| `DriversProof` | theorems about the MAC, the end point, the TSN registers and the switch | `MCDrivers`, `RingsProof` |

### Tadma

`axienet_tadma_xmit` is split where another CPU or the hardware can see a
difference: first descriptor and `tx_bd_head` (`XmitFirstBd`), each fragment
(`XmitFrag`), the ALM entry of the first descriptor (`XmitFirstAlm`), and the PM
write pointer (`XmitPm`). `tadma_irq` is split at each register access and at
each test: status, clear, then per stream read, test, advance, and
`tadma_xmit_done` under the lock; it wakes all queues on every way out. `SMP`
says whether the handler may run on another CPU; on one CPU
`spin_lock_irqsave` keeps the two apart. `Reopen` allows the interface to go
down and up: the driver's indices restart, the hardware's pointers do not.
`axienet_tadma_open` registers the handler (`OpenIrq`) before its loop resets the
indices of each stream, one assignment at a time (`OpenHead`, `OpenTail`,
`OpenRd`). A handler on another CPU may be in the middle of its scan then: `torn`
records it, and `Settled` says of which rings `LiveIsWindow` and `ScanMatchesTail`
speak. With one CPU or without down/up no ring is ever torn (`NeverTorn`).
Allocations that fail during open are not modelled.

The hardware is external. From the driver's use of it the model takes: after
reset a stream's PM word has write pointer 1 and read pointer 0; a write of the
PM word by the driver does not move the read pointer; a trigger fetches the entry at
the read pointer, clears its UFF bit and raises FFI; the ring size is a power of
two. A descriptor is live while the driver holds its mapping and skb.

### TadmaStreams

One action per outcome of an ioctl. `AddStream` has five: count too large, equal
entry, no room, no memory, success. `get_sid` is advanced before the checks that
may fail and `start` resets it before anything else, as in the code.
`hash_tag_equal` compares what the code compares, so a tag has its ComId in two
halves. `SfmValue` is the word `tadma_sfm_program` writes: 8 ns ticks, one frame
less than asked for, continuous for 0. The programs run one after
another in any order; `Received` translates each program's request structure
into what the driver reads, which for transHello is not what it wrote.
tadma_prog decides which line carries `start` before `qsort` orders the lines by
trigger, and `qsort` may leave equal ones in any order (`Orders`), so that an unsorted
file resets the counters in mid-list. `ConfigInForce` therefore has two parts: what holds of every
list that was accepted (each stream has a ring that exists, no valid trigger
is that of an earlier configuration or of nobody), and what holds of lists in order
(`InOrder`: sorted, told apart by the driver): a ring for each, served as configured.

### TrdpSend

`snd[p]` is a `PD_ELE_T`; `ttg` is `timeToGo` minus now, `phase` is now modulo
the 10 ms grid. `SendQueued(q)` is one pass of `trdp_pdSendQueued`, called by
`tlc_process_send` and, after the requested element has been marked, by the
arrival of a PULL. `NextTtg` has both branches of the timer: one cycle on, or
after a delay of a cycle or more the next cycle from now, rounded down to the
grid. Each packet of a pass may fail to be sent (`SendQueuedWith`). `SetRedundant(TRUE, leader)` is
`tlp_setRedundant` with redId 0. `once` and `since` are history. Every operation holds the session's mutex
from its first access to the queue to its last and is therefore one action. The
telegrams have one ComId and different source addresses, the case in which
`trdp_getSeqCnt` and the PULL search meet more than one element.

### TrdpRecv, TrdpPd

`ProcessRecv` is `tlc_process_recv`: time-outs first, then the receive loop,
whose iterations are the `Read...` actions, one per outcome of
`trdp_pdReceive`. `holder` is the call that is in that loop and so holds the
mutex; in blocking mode it reads one packet, otherwise until the socket is empty
or an error occurs. `GetResult` is what `tlp_get` would return now. `TrdpPd` adds
a publisher that is only known through `TrdpSource` and a network that loses,
duplicates, damages and (in one run) reorders packets. `hist` is history. The callback of a time-out and the flag it
is followed by are one step: both are under the session's mutex, which the
application's calls take too. Each PD carries its number among the packets of its
publisher (`no`, history), so that `MissedIsExact` compares what is added to
`numMissed` with the packets that were sent between two that were accepted. The first packet
of a subscription, the first after a PP and the first of a publisher that was
restarted are not spoken of: there the code adds a difference of counters to
which no packets belong (`trdp_pdcom.c:611`).

### TrdpMd, TrdpTcp

A node's sessions are the elements of its send and receive queue, with state,
timer, retries and the flags of `MD_ELE_T`. `MdSend`, the reception of a packet
and `MdCheckTimeouts` are the three parts of `tlc_process`, each one step since
it holds the mutex; the application calls between any two of them. The network
keeps packets and may lose, repeat, delay and damage them. `MdKnown` is the
search for the session of a repeated request, `MdMoreReplies` the rule when a
caller has heard enough. The replier's session ends with its reply; when the reply is lost, the
caller's retry opens another one and the request is served again, so that
`MdSound` says that a request never has two sessions at the same time. `TrdpTcp` has the socket that sessions to one corner
share: `TcpSends` is the test that lets a session write, pieces are written and
read at will, and the receiver puts the message together in `uncompletedTCP`. A header that
comes late is checked in the receive buffer that all sockets share: `mixed` says that
another socket has read into it since.

### TrdpSession, Vos

`TrdpSession` has the list of sessions (`seOpen`), the table of sockets of each
and the one counter `sCurrentMaxSocketCnt` of the process. `SeValid` is
`trdp_isValidSession`, the test each call makes first. `SeRelease` returns a user and
leaves a group with its last one. Every allocation and system call of these
operations may fail where the code tests for it.

`Vos` has three parts that share nothing. In the pool (`Vm`) allocation is two steps,
since the size of the block is written after the mutex is released;
`vos_memInit` is given by what it leaves: each class in its turn is given the blocks asked for, as far
as there was room. The test that the table asks for at most half of the area looks at
the caller's table only (`VmTable`). When a class runs out of room, what the rounds before left in `p[]` is given
back a second time, and `vos_memFree` takes it for a block of the next class,
whose size is still 0: `VmFreeAtStart` has the lists that remain then. `VmOnePlace` does
not hold of them (TLC shows it with the three classes of `ThreeSizes`); it speaks of tables that fit
(`VmTableFits`). The queues (`Vq`) have the steps of
`vos_queueSend` and `vos_queueReceive` between semaphore and mutex. The threads (`Vt`)
have the loop of `vos_threadDelay` with `errno` as a variable (it may
be left over, or changed by a signal handler) and the arithmetic on times.

### TauMarshall, TauDnr, TauTti

`TauMarshall` is a recursive definition of packing, unpacking and size over data
sets, evaluated on all data sets of up to three elements (`MCTrdpServices`); an
item's value is its address in the sender's memory, so that the round trip
compares places. `TauDnr` splits `tau_uri2Addr` at the lookup, the request, the answer and
what is done with it, with changes of the train between them; the cache and the
static request buffer have no lock, so that only one thread may resolve at a time, which
is what the model does. `TauTti` splits `ttiPDCallback` at each count
it changes, since the application reads them without the mutex, and makes
`ttiMDCallback` one step; `ttTrain` is the train the vehicle is in now, replies may
come after it has changed. The slots of `cstInfo` hold a consist and the number
of the directory under which its data came.

### PtpBmc

The first half holds the tables of `ptp_fsm`, `ptp_slave_fsm` and the designated ones,
`dscmp` and `bmc_state_decision`. The second is `clock_poll` over them: the
descriptors that one poll found ready are handled in order of the list, also a
timer that an earlier one has disarmed; link events, faults and the fault timer
come with the port, and the state decision event ends the round.

### PtpSync, PtpPeer, PtpUnicast

A time stamp is the error it carries, so that a delay of stamps that do not
belong together shows as a wrong delay. `PtpSync` follows `port_syfufsm`,
`tsproc_*`, `servo_sample` with the PI servo's states and `clockcheck`.
`PtpPeer` has several responders and any order of answers; `PtpUnicast` a client, a service with its
intervals and a second client that behaves as it likes.

### PtpTransparent, Phc2sys, PtpMsg, PtpMgmt

A residence time is the message and the ports it was measured for; `xcWrong`
becomes true when a message leaves with anything but its own. The loop over the
ports is a fold: a port that fails in it becomes FAULTY and changes the states the ports behind it
are tested against, and each is given what the one before
has left. Sending may fail for every message, stored Follow_Ups included. `Phc2sys` reads
ptp4l's notifications between updates and while `run_pmc` waits. `port_add` inserts
at the head, so a clock's state is taken from its ports in descending order. `PtpMsg` tracks the byte
order of every field through building, sending, forwarding and receiving, and
the pools. `PtpMgmt` is a row of clocks, requests of two clients and the answers.

### AxiDma, AxiMac, TsnEndpoint, PtpDrv

`AxiDma` splits the poll routines at each register access; the hardware works
on descriptors up to the tail register and halts on an error until the error
handler resets it. `AxiMac` takes each step of probe and open that may fail.
`TsnEndpoint` opens and closes end point, extended end point and front ports in
any order and follows frames through queues, channels and the shared handler.
`PtpDrv` has sender, interrupt and work item of the time stamps, the receive
pointers, and the clock with its offset register.

### TsnConf, TsnSwitch, Emaclite, LlTemac

A register is the set of its bits that are one; `TsnConf` has one action per
call that sets and one operator per call that reads, and the schedule from
qbv_sched to the gate list and back, with its times divided by the tick and cut to the
register, and the gates renumbered where there are two queues only. `TsnSwitch` has a step for each access to
the registers of the VLAN table (read, READ command, data, WRITE command) and of the address table
(both halves of the address, action, command), and any caller may go between two of them: ioctls
take no lock, the bridge's requests one of their own. `swLost` and `fdLost` record the VLANs
and addresses that calls which met were about. A range of VLANs is added one by one.
What is one step are the updates of native VLANs, port states and of the registers of `TsnConf`: a call
that is overtaken there loses or restores its own fields. `Emaclite` and `LlTemac` follow their drivers' rings,
interrupts and the life of the device.

### The sums

`MCTrdpServices`, `MCPtpPort`, `MCPtpServices` and `MCDrivers` put components
that share no state into one run: `which` is chosen in the initial state, only
that component moves and the others stay in an initial state, so the state space is the sum of the
parts and each property is checked exactly as in a run of its own.

## 3 Runs

| run | module / cfg | checks | shows |
|---|---|---|---|
| tadma_any | Tadma, TadmaAny | `LiveIsWindow`, `ScanMatchesTail` | with the handler on another CPU and down/up cycles, of the rings no open has torn, live is exactly tail..head and the scan's count is what is freed |
| tadma_up | Tadma, TadmaUp | `FetchedIsReclaimed`, `StoppedIsWoken` | one CPU, two streams: everything fetched is freed, a stopped queue is woken |
| tadma_frags | Tadma, TadmaFragsUp | `QueueIsSound`, `StoppedIsWoken` | frames of up to three descriptors on one CPU: nothing is freed before it was fetched, hardware and driver agree on their indices, a stopped queue is woken |
| tadma_smp_race | Tadma, TadmaRace | `HwQueueIsLive` violated | the unlocked scan frees a buffer that is being queued |
| streams | MCTadmaConfig, Streams | `IndicesInRange`, `SameTagSameRing`, `ConfigInForce`, `FittingConfigAccepted` | any sequence of ioctls, and the programs one after another, with sorted and unsorted lists and failing adds |
| trdp_send | MCTrdpSend, TrdpSend | `CycleKept`, `OnGrid`, `NoBurst`, `KeepsPromise` | the cycle, the grid and the promise to subscribers, with a thread that may sleep for two cycles and packets that are not sent |
| trdp_pd | TrdpPd, TrdpPd | `TimeoutExact`, `DataIsFresh`, `SilenceIsReported`, `MissedIsExact` | the subscriber over an unreliable network, blocking and non-blocking |
| trdp_pull | TrdpPd, TrdpPull | `PullKeepsPromises` | the same with `tlp_request` restarting the timer |
| trdp_services | MCTrdpServices, TrdpServices | `MdSound`, `MdEnds`, `TcpSound`, `SeSound`, `VosSound`, `MaRoundTrip`, `DnRight`, `TtSound` | message data ends once and is reported, connections and sockets are shared soundly, memory, queues and times are exact, marshalling round-trips, names resolve to their own addresses, topology counts follow the train |
| ptp_port | MCPtpPort, PtpPort | `PtSound`, `SySound`, `UcSound`, `PpSound` | timers, states and parent agree; delays and pairs only of what belongs together; grants without gap |
| ptp_services | MCPtpServices, PtpServices | `XcSound`, `PhSound`, `MsSound`, `MgAnswered` | residence times added once; phc2sys knows ptp4l's state and does not fight it; byte order and pools; management answers |
| drivers | MCDrivers, Drivers | `RingsSound`, `EpSound`, `AmSound`, `PxSound`, `TsnSound` | rings, channels, MAC, time stamps, registers |

The properties whose names end in Sound are conjunctions of named parts, each
with its own comment; TLC reports the part in its trace. Each property of a
passing run has a mutant: a definition of the model changed the way a slip in
the code would change it (the operators marked "Mutant:" next to the definition
they replace), under which TLC finds the property violated.

Several parts say when they do not hold ("unless", "but for"): there the code
really does otherwise, a variable records that the case has occurred, and
section 7 lists it. The properties therefore say what the code guarantees, and
where the guarantee ends.

## 4 Bounds

- `Tadma`: rings of N = 4 slots. Four is the smallest size with slots that are
  neither head, tail nor rd, and every wrap-around happens; the proofs cover the
  other sizes. Two streams where the handler's way from one stream to the next
  matters. Nothing else is bounded: the state space is finite.
- `TadmaStreams`: two rings, three fetch entries, four tags, three of which share
  a bucket and two of which differ only in the upper half of the ComId.
  `SidBound` and `TabBound` stop the counters of unbounded add sequences one
  beyond the limits the code checks.
- `TrdpSend`: two telegrams, one with a cycle equal to the grid (2 ticks) and one
  with a cycle of 3 that is no multiple of it, a send thread that may sleep for
  two cycles; a telegram sent on request only (cycle 0) is covered by the proofs.
  The counters run modulo 3. `MaxAhead` bounds how far PULLs of a telegram without
  data may push its timer; the code has no such bound (see limits).
- `TrdpPd`: counters modulo 3 so that the overflow happens within a few packets;
  one packet on its way and one in the socket buffer, ages and silences
  saturate at `MaxAge` and `MaxSilence`, one more than any property compares
  with. `Timeout` is the smallest one larger than `MaxGap + MaxWait`.
- `TrdpMd`: one call at a time from each kind, one retry and one repeated packet,
  so that a repeated request can meet its session in every state. `TrdpTcp`: two
  sessions on two connections, messages of three units, so that header and data
  can both be cut. `TrdpSession`: two sockets of one group each, two elements, so
  that sharing, refusing and re-using a slot all happen.
- `Vos`: two classes, two threads, room for blocks beyond the ones cut at the
  start; a ring of three (it holds two messages) with two threads
  on each side and six messages, twice around; four units to a second and 16 values of a
  word, all times up to four seconds.
- `TauMarshall`: all data sets of up to three elements over basic types, arrays of
  fixed and variable size and nested, unknown and self-containing data sets, with
  buffers that fit and that do not. `TauDnr`: three names and three calls, one after the other,
  two changes of the train, a cache of two entries. `TauTti`: two trains, three
  slots of which two are cached, two telegrams and two calls.
- `PtpBmc`: two ports, up to two timers in one poll, a better grandmaster on both
  ports and a worse one. `PtpSync`: two masters of different grandmasters (a third
  is in the constants for runs by hand), two Sync messages each, one request; a
  servo that was given the times of two grandmasters is not followed further.
  `PtpUnicast`: six seconds, three grant durations; `PtpPeer`: two responders, two
  requests, one step of the clock.
- `PtpTransparent`: three ports, three arrivals. `Phc2sys`: three interfaces, two of
  which share a PHC, system clock both as source and destination, two
  changes. `PtpMsg`: two messages, four operations. `PtpMgmt`: three clocks in a
  row, two clients, two requests, one event.
- Drivers: rings of 2 to 4 descriptors with up to six frames, so that every ring
  wraps and fills; two channels of the end point that receive; three time stamp
  buffers and four frames; the EmacLite on one CPU. Two queues and a register of four ticks
for the schedule, with times that fit it and times that do not; two VLANs, three operations on either
table of the switch by the bridge and one process, so that two calls meet at every
step; two addresses of the bridge, one of which the process works on as well.

All sums finish without reaching a limit of time; the counts marked "(bound)" in
the modules are the only cuts.

## 5 Fairness

`Tadma`: weak fairness is assumed of the steps of
a sender and of a handler that have begun (they run to their end), the entry of
the handler while its interrupt is pending, and the fetches of each stream (the
schedule triggers each stream in each cycle). Nothing is assumed of new frames
or of spurious interrupts. `TrdpMd` (`MdFair`): `MdSend` and `MdCheckTimeouts` of
each node and the passing of time, since `tlc_process` calls `trdp_mdSend` and
`trdp_mdCheckTimeouts` in every cycle; nothing is assumed of the network or of
the application, so `MdEnds` holds although every packet is lost and no callback
answers. In `MCTrdpServices` the fairness matters only when message data is the
part that moves: otherwise no session is ever open.

`SilenceIsReported` is stated as a bound on time
instead of a liveness property: that the receive and send threads run at least
every `RecvPoll` and `SendPoll` ticks is in the guards of the clock. This is
what the loops of `thread_cmd.c` provide: `thread_process_pdSend` sleeps at most
100 ms, and a tick stands for any fraction of that. The driver modules state
"is woken", "is served" as invariants on what is pending instead (an interrupt
to come, a poll scheduled), which needs no fairness.

The sum runs have CHECK_DEADLOCK FALSE: their components stop when the bounds
are spent.

## 6 Proofs

All of them hold for every value of the constants allowed by the named
assumptions of the modules.

**Tadma** (`TadmaProof`)

- `TypeCorrect`: `Spec => []TypeOK`, any number of fragments.
- `RingIsConsistent`, `ScanIsExact`: `LiveIsWindow` and `ScanMatchesTail` for
  single-buffer frames (`MaxFrag = 0`), on any number of CPUs and with down/up
  cycles, of the rings that are settled. Neither is inductive alone: the window stays correct because what is
  freed is what the scan counted, and the count is right because rd never passes
  head; the proof uses their conjunction with the types and the state of the
  sender. Ring arithmetic is in lemmas on `Inc`, `Dist` and `Window`. With
  fragments both are false (finding 4).
- `NeverTorn`: on one CPU, or without down/up, every open ring is settled: the
  handler never stands in the middle of a scan when an open resets the indices.
- `HwQueueIsSound`: `QueueIsSound` on one CPU and without down/up (`SMP` and
  `Reopen` false; both are needed, finding 1 and section 8), with any number of
  streams and fragments. It does not rest on the two above, which fragments
  break. `QueueInv` says per stream: a frame being sent follows head and had room,
  what lies between the hardware's read pointer and head is mapped, flagged
  as soon as it is in the queue, and disjoint from what the handler has claimed
  (tail..rd) or is about to claim.

**Stream table and programs** (`TadmaStreamsProof`)

- `IndicesAlwaysInRange`, `RingOfTagIsUnique`: for every table
  size, hash function and sequence of ioctls. The invariant is the conjunction
  of both with the types. `LookupFacts` needs a least element of a set of
  positions, taken from the library's well-foundedness of the naturals.
- `ProgramsKeepTable`: the same with sendHello and tadma_prog in charge (`CInv`).
- `FittingAlwaysAccepted`: `FittingConfigAccepted`. `SendAdds` counts: after k
  accepted streams of a list `get_sid` and `get_sfm` are k, although flush leaves
  them where the program before stopped.
- `ConfigAlwaysInForce`: `ConfigInForce`, for any lists, sorted or not. `ForceInv` says that
  of the streams added so far each has a ring that exists, and of a list in order also that the
  table holds exactly one entry for each position, with ring and
  fetch index of that position; that the fetch memory is empty until
  program writes it; and that afterwards it is the image of the table.
- Hypotheses. `KnownPrograms` leaves transHello out, whose requests the driver
  misreads (finding 5). `SendHelloDistinct`, for `FittingAlwaysAccepted` only: the
  streams of sendHello are told apart by `hash_tag_equal` and their counts are at most 4.

**Publisher** (`TrdpSendProof`)

- `TypeCorrect`, `CycleIsKept`, `NoBurstEver`, `AlwaysOnGrid`. `CycleKept` speaks
  of elapsed time only and says nothing of the timer, so it is not inductive.
  The invariant `IInv` adds: the queue holds each published telegram once
  (`QueueOK`), no request is pending between actions (`NoRequest`), a timer is
  behind by less than the thread slept (`Timers`), and a running telegram has
  data, leads, and its timer is at most a cycle after its last packet
  (`Running`). From the last two the bound follows. `NextTtgFacts` is the
  arithmetic core: the new timer lies in the future and at most a cycle ahead,
  for every phase and grid. `AlwaysOnGrid` adds arithmetic modulo the grid, in
  lemmas since the grid is a parameter.
- `ImplementsSource`: `Spec => KeepsPromise`, the refinement of
  `TrdpSource`, for all telegrams at once. Each action is shown to be one of four
  kinds of step of a telegram (nothing, a PD, a tick, a stop); besides `IInv` it
  needs `Idle`: what does not run is not counted. `TrdpPd` takes its publisher
  from `TrdpSource`, so what is shown of the subscriber holds with the real
  send queue in its place.

**Subscriber** (`TrdpPdProof`)

- `PdTypes`, `PdDataIsFresh`, `PdSilenceIsReported`, `PdMissedIsExact`,
  `PdTimeoutIsRevoked`, `PdPullKeepsPromises`: with losses, duplicates, damage,
  reordering and requests. All rest on `SubInv`: packets on the network and in
  the socket are young (no older than the delay and the receiver's sleep allow),
  the timer is never ahead of the data nor of the silence it measures, and the
  element's counters are those of the history.
- `PdTimeoutExact`: `TimeoutExact`, on a network that keeps the order and without
  requests (`Reorder` and `Pulling` false: a reordered packet, or a request that
  clears the flag, does undo it). `ChainInv` says that the packets in the socket
  and on the network, read in order, form a chain from the last counter received
  to the last one sent, in which the age of each is at most `MaxGap` more than the
  next one's; a timer that was restarted by a packet of the chain cannot run out
  before the next arrives.

**Services** (`TrdpServicesProof`)

- `TtTypes`, `TtAlwaysSound`: `TtSound`, for every sequence of trains. `TtInv` adds
  what a callback that is halfway has done and has yet to do (`TtHalfway`), and that
  only two slots of the cache are ever filled (`TtTwoSlots`).
- `VqAlwaysDelivered`: `VqDelivered`, for every ring and any
  finite sets of threads. `VqInv` is the window of the ring (what is stored lies
  between first and last, with one slot free), its content (each message that
  was sent is received or in the ring, once), its order, and `VqTokens`: the
  semaphore's value, the senders about to give and the receivers that have taken
  together are the messages in the ring. Without the last one a receiver
  could find the ring empty.
- `VmAlwaysOnePlace`: `VmOnePlace`, for any classes and threads. `VmInv` says of each
  block of which class it was cut that it is in that class's list exactly while its size is 0 and
  no thread holds it. `vos_memInit` takes it from what it has cut. It is assumed that the
  blocks to cut at the start fit into the area (`VmTableFits`): otherwise blocks are lost (section 7).
- `VtAlwaysExact`: `VtNotEarly` and `VtTimeExact`, arithmetic on seconds and
  fractions with the length of a second as a parameter. `VosAlwaysSound` puts
  the three together as `VosSound`, which the run checks.
- `SeTypes`, `SeAlwaysSound`: `SeSound`, for any sessions, groups, elements and slots. The
  number of users is a cardinality: `SeInv` relates each slot to the set of elements
  that name it (`SeFitting`), every operation adds, moves or removes one of them, and closing
  a session is a walk through all of them, of which each step keeps `SeRuns`.
- `MdAlwaysSound`: `MdSound`, for any number of sessions and copies: never two
  sessions for one request at once, and one reported end. `MdInv` has the
  types, each session's account (`MdTracked`: in the queue or ended), and that the
  replier's identifiers are distinct. Sessions are closed in a fold, in which what
  ends is reported before it leaves the queue. A second session for a
  repeated request is excluded since `MdKnown` finds the first as long as it is
  in the queue.
- `TcpAlwaysSound`: `TcpSound`, for any number of sessions and connections and any length of
  a message. As long as nothing has been cut, `TcpKept` holds: what the replier
  has put together followed by what is on the connection is a stream of whole
  messages and the one being sent (`TcpFlow`), the session in the middle of its
  message is the one the stream ends with (`TcpMine`) and the only one (`TcpOnePart`),
  without a connection nothing was sent (`TcpQueued`), and the usage counter
  is the length of the queue. Sessions are closed in a fold, of which each step keeps
  `TcpLeaves`.

**PTP** (`PtpProof`)

- `PpTypes`, `PpAlwaysSound`: `PpSound`. `PpFresh`: request and response that wait for
  each other are stamps of one setting of the clock, unless it was stepped for another port.
  `PpCounter`: the Sync counter is one more than the last number sent.
- `SyAlwaysSound`: `SySound`. `SyInv` says of every stamp that is held anywhere
  (in `syfu`, in tsproc, with an outstanding request) that it is of the present
  parent and of the present setting of the clock, up to its wander (`SyNear`): two of
  them then differ by less than a step.
- `UcAlwaysSound`: `UcSound`. `UcInv`: an answer under way is true (`UcFresh`: what
  it grants lasts for the whole duration), and a client with Sync messages holds
  a grant that outlives the time r of its renewal by the last quarter of the duration, while each
  second since r has cost a message or has a request under way (`UcCovered`, `UcHeld`).
  `UcPure` excludes that an answer about Announce messages is taken for a
  renewal of the others. The requests of a message are a fold, of which each step keeps
  `UsTaken`. As after a denial `UcNoGap` need not hold, the invariant says nothing then.
- `XcAlwaysSound`: `XcSound`. `XcInv`: each descriptor in a port's list holds a
  residence time between that port and another, of the message it was made for.
  What a message finds in the list is therefore its own. Each port of the loop keeps it (`XcLoop`).
- `PhAlwaysSound`: `PhSound`. What phc2sys knows of a port, followed by what it has
  not read yet, leads to the port's real state (`PhHeard`), so that nothing unread means
  nothing unknown. `PhAgrees` and `PhPending` say what is held back in `new_state`, `PhDefaulted` and
  `PhStands` that the only clock following ptp4l from which updates are made is the source.
- `PxAlwaysSound`: `PxSound`, for every number of buffers and times. `PtpDrvInv` has
  a part for each of transmit, receive and clock; what has been sent but not
  taken is the window between two indices, the clock part is arithmetic modulo
  the base and the word of the registers.

**Drivers** (`RingsProof`, `DriversProof`)

- `RingsAlwaysSound`: `RingsSound`. A ring is a window of slots that turns
  (`AxWindow`, `LtWindow`, `LrWindow`): what the driver has filled, what the device
  has done and what is free follow one another, the skbs and marks of the slots say
  which is which, and a stopped queue means that something in the window is still to be
  completed. For the EmacLite the order of frames is a rising sequence of what is in the buffers,
  deferred, and in the queue (`EmOrder`, `EmWake`); what it receives is at least as
  long as its header says (`EmGood`).
- `EndPointAlwaysSound`: `EpSound`. The counts of enabled interrupts and NAPI contexts follow
  from which devices are open (`EpDevTypes`, `EpChanTypes`); `EpAsks` and `EpAlive`: a channel with
  frames is either polled or about to interrupt.
- `MacAlwaysSound`: `AmSound`, with `AmInv`: list and options of an open device
  agree with its buffers.
- `TsnAlwaysSound`: `TsnSound`. `QbInv`: the list in the registers is the image of
  the one asked for, in ticks. `TcInv` needs that the fields of a register do not overlap
  (`TcLayout`, shown for the registers of the code). `SwInv`: a call that is sound is the only one in the
  registers, what it holds is the entry of its VLAN, and the registers hold what it has put there. `FdInv`: the
  same for the address registers while a call is alone, every address a call may have written
  by mistake is among the mixtures of those it met, and what the forwarding table lacks of the bridge
  is in its queue of requests, in order.

Assumptions are in the modules that declare the constants. The ones that carry
weight: ring sizes of the TADMA are powers of two up to 256 (`NAssumption`), there are not
more streams than fetch entries (`SizesAssumption`), cycles are 0 or at least
the grid (`SendAssumption`; `tlp_publish` refuses others), the threads of a queue
are finitely many (`VqAssumption`), two consists or more are cached
(`TtAssumption`; 8 in the code), the times that are set fit the registers
(`PtpDrvAssumption`), a request is repeated at most twice (`MdAssumption`;
`trdp_mdCall` cuts larger numbers), seconds times a factor fit a word (`VtAssumption`), the clock wanders
by less than a step (`SyAssumption`), a frame with its fragments fits a ring and
leaves one slot (`AxAssumption`, `LlAssumption`), frames are not
longer than the EmacLite's buffer (`EmAssumption`), channels of the end point have numbers of their
own (`EpAssumption`), addresses have two halves (`SwAssumption`),
every interface has a clock (`PhAssumption`), and no more messages of a unicast
negotiation are lost than there are seconds between the renewal and the end of a
grant (`UcAssumption`; with the default of an hour, 900).

Only model-checked:

- liveness: `FetchedIsReclaimed`, `StoppedIsWoken`, `MdEnds`. Liveness under fairness
  and ENABLED are beyond the prover;
- `MaRoundTrip`: its definitions are RECURSIVE, and what they compute needs
  induction over data;
- `DnRight`: the cache is sorted by `SortSeq` and searched by bisection, both of which
  need induction over the length of the cache;
- `MsSound`: that the messages of the pool add up is a statement about sums over sets;
- `PtSound`, `MgAnswered`: no obstacle is known, section 9.

## 7 Findings

With a run:

1. `xilinx_tsn_tadma.c:542` (tadma_smp_race): head is advanced before the UFF
   bit is written and the handler scans without the lock; on two CPUs a buffer
   is freed before it was sent.
Without a run of their own; TLC violates the definition named, which stays in
its module for this (marked "Not kept" where no run checks it):

2. `trdp_if.c:1002`: `tlp_setRedundant` with redId 0 also reaches the
   telegrams that have no redundancy id, and stops them, although "all set
   redundant ID are targeted if redID == 0" (`trdp_if.c:1003`; `OnlyGroupsFollow`).
3. `xilinx_tsn_shaper.c:169`: "for user the ST Gate state value is always 4"
   (`:168`), but only where that gate is open alone is it translated back; together with the
   best-effort gate it is shown as the reserved one
   (`QbStIsSeen`).
4. `xilinx_tsn_tadma.c:492`: `==` in the full test misses occupancies that a frame
   with fragments jumps over (`LiveIsWindow` with `MaxFrag = 2`).
5. `tadma_conf.h:46`: `count` has 8 bits in transHello and 32 in the driver; the
   first stream is refused (`FittingConfigAccepted` with `Clients = {"transHello"}`,
   four rings and entries, `TransConfigs`).
6. `trdp_utils.c:1183`: a packet is accepted when its counter differs from the
   last, not when it is higher, as the comment at `trdp_pdcom.c:601` says
   (`NeverOlder` with `Reorder = TRUE`).
7. `trdp_if.c:1373`: one is subtracted from a counter that already is the last one
   sent, so redundant telegrams differ by one (`SameCounter`).
8. `trdp_mdcom.c:1281`: when a connection is cut, the beginning of a message stays
   in `uncompletedTCP` and is put before the next one (`TcpAlwaysWhole`).
9. `trdp_if.c:900-926`: `tlc_reinitSession` joins the groups of subscriptions and
   sessions again, not those of listeners, although `trdp_if_light.h:117` says
   the groups are re-joined (`SeRejoins`).
10. `clock.c:1589`, `ptp4l.8:227`: when the initialisation of a faulty port fails
   again, nothing arms its fault timer (`PtFaultEnds`).
11. `servo.c:101`, `ptp4l.8:757`: "the last offsets are all below" the threshold;
   the code counts small offsets whether or not a large one came between
   (`SyStable` with `SyNum = 2`).
12. `xilinx_axienet_main.c:2187`: flow control can be set by ethtool only while the
   device is down, and opening it overwrites the register (`AmPauseTaken`).
13. `xilinx_tsn_ptp_xmit.c:322`: a frame in a buffer beyond the last one sent is put
   back, but indices wrap, so that the work item may read the time stamp of a
   buffer that is not sent yet (`PxStampRight`).

Exceptions that the checked properties name, with the place in the code:

- `tlm_abortSession` (`trdp_if.c:3263`) searches the receive queue only when the
  send queue is empty. A request with an infinite time-out (`trdp_if.c:2710`) gets
  an interval of 0 and expires at once.
- `tlp_publish` and `tlp_subscribe` do not return the socket when they run out
  of memory (`trdp_if.c:1329`), and tlc_openSession leaves the session behind
  (`trdp_if.c:368`).
- `vos_threadDelay` (`vos_thread.c:491`) repeats while `errno` is EINTR, whatever
  nanosleep returned. A queue of n messages holds n - 1 (`vos_mem.c:916`).
- `size_unmarshall` (`tau_marshall.c:891`, `:909`) reads counts of 16 and 32 bits in the
  machine's byte order. A count is the last item of an array of bytes when
  unmarshalling (`:659`) and the first when marshalling (`:430`).
- Topology information (`tau_tti.c`): `ttiStoreOpTrnDir` copies the vehicles over
  the start of the directory (`:272`), so that after every directory the session's
  operational count is that of an empty one and `tau_getOpTrDirectory` answers
  only while the count is 0. A checksum error clears that count without
  giving the semaphore (`:192`), and `ttiMDCallback` has none to give. `tau_getTrnCstCnt` compares with
  the count of the status and gives the number of the train before after a
  coupling (`:907`). Infos that are replaced are not freed (`:379`) and
  `noOfCachedCst` is never set (`:667`). A failed `tau_initTTIaccess` leaves a freed
  pointer (`:628`), a reply after `tau_deInitTTI` goes through NULL, a NULL label
  reads slot 0 without a test (`:995`), and pointers are made of the bytes of a
  telegram (`:1117`, `:1180`).
- The standard DNS answer is stamped with the counts of the moment it arrives
  (`tau_dnr.c:653`); one of two equal counts is
  enough for an entry to be taken as current (`:1277`). Threads that resolve at the
  same time sort and search one cache and fill one request buffer without a lock
  (`:1273`, `:910`).
- `vos_memInit` gives blocks back a second time when it runs out of room
  (`vos_mem.c:304`), and the default table is not tested against half of the
  area (`:263`), as `vos_mem.c:165` says it is.
- A reply that is lost has its request served again (`trdp_mdcom.c:2301`).
- The first packet of a publisher and one after its restart add a difference to
  `numMissed` that nobody sent (`trdp_pdcom.c:611`).
- A port that is UNCALIBRATED when its grandmaster changes keeps half a pair
  (`port.c:2032`); the Follow_Up is compared by number only when the Sync came first,
  by number and source when it came second (`port.c:2346`).
- A unicast denial after a change of rate leaves the old bit of `granted`
  (`unicast_client.c:422`). A step of the clock for another port leaves the
  peer delay request (`port.c:1204`).
- `reconfigure` takes a default source without looking for an UNCALIBRATED clock
  (`phc2sys.c:434`). Answers to all but the last client of the local socket are
  lost (`uds.c:107`).
- Missing headroom frees the frame and reports it as busy
  (`xilinx_axienet_main.c:906`); a receive poll cut short by an error or missing
  memory leaves frames until the next interrupt (`:1294`); the error handler sets
  the filter before the options that undo it (`:506`).
- `tsn_data_path_open` does not undo what it has done when it fails
  (`xilinx_tsn_ep.c:96`), and its result is ignored (`xilinx_tsn_ip.c:415`).
- The status of the frame before decides the device of a frame
  (`xilinx_axienet_main.c:1170`: `sband_status` is read once per poll).
- The clock cannot be set to a time before its counter
  (`xilinx_tsn_ptp_clock.c:169`).
- VLAN members are read from the data register before the VLAN that is meant has
  been read into it (`xilinx_tsn_switch.c:874`), so that a port is added to the members
  of another VLAN (`swLost`). `get_mac_addr_learn` returns aging and learning the other
  way round (`:662`). Fields are set without a mask
  (`xilinx_tsn_preemption.c:56`).
- On two CPUs the EmacLite interrupt misses a frame that is being deferred
  (`xilinx_emaclite.c:1038`), and only the watchdog restarts the queue.

## 8 Limits

Behaviour of the code that the models show or that was met while reading and
that no passing run includes:

- `axienet_tadma_stop` frees the descriptor arrays before `free_irq` (`xilinx_tsn_tadma.c:260`); a handler
  that runs in between uses them. `tadma_get_strid` walks a hash chain without a
  lock while a flush frees its entries (`:429`).
- `tlm_abortSession` only marks the session that the DNS client gives up, and its
  semaphore is deleted after that (`tau_dnr.c:1020`): with `tlc_process_send` and
  `tlc_process_recv` in two threads a late reply may find both gone. Only process
  data programs use the two halves, and they resolve no names; `TauDnr` has `tlc_process`.
- Calls that change native VLANs, port states or learning at the same time read
  and write back one register without a lock (`xilinx_tsn_switch.c:625`): one of them may be lost.
- After down/up without a reset of the hardware the handler looks at other ALM
  entries than the sender writes; `IndicesAgree` is checked without `Reopen`.
- A PULL that finds a telegram without data, or a follower, leaves its reply
  address in the element, and the next cyclic packet goes there
  (`trdp_pdcom.c:1010`). Each such PULL moves the timer of a telegram without
  data on by a cycle.
- `tlp_get` and others test the handle before they take the mutex
  (`trdp_if.c:2497`).
- `pdGet` (`thread_cmd.c:126`) passes the size of the last telegram as the buffer
  size of the next one; buffer sizes are abstracted away.

Left out of the models: topography counters of process data (always valid),
statistics requests, `trdp_pdDistribute` (it is called by no application here),
allocation failures inside the publisher's queue (they are in `TrdpSession`),
steps of the clock in TRDP. Redundant sessions are
folded into one queue. A subscription of `TrdpPd` has one source address and a
socket of its own. Whether a socket is readable is evaluated when the mutex is
taken. Components of a sum run do not interact; the composition that is checked
is publisher, network and subscriber (`TrdpPd`), configuration programs and
table (`TadmaStreams`), client and service (`PtpUnicast`), caller and replier
(`TrdpMd`), ptp4l and phc2sys (`Phc2sys`).

Not modelled:

- In `tau_tti.c` the requests for the network directory and the complete directory,
  which nothing sends, and the contents of vehicles and functions.
- `tau_xml.c`, `trdp_xml.c`, `config.c`, `tadma_prog`'s and qbv_sched's files: parsing.
- `tau_ctrl.c`, `tau_cstinfo.c`, `vos_shared_mem.c`, `vos_utils.c`: straight calls,
  checksums and conversions without a state.
- `trdp_stats.c`: counters that nothing decides on.
- linuxptp's transports (`udp.c`, `raw.c`, `sk.c`), `timemaster.c` (starts other
  programs), `ts2phc*.c` (serial input), `linreg.c` and the filters (floating
  point), `pmc.c`'s output, `hwstamp_ctl.c`, `phc_ctl.c`, `nsm.c`: system calls,
  formatting or numerics.
- Device tree parsing, ethtool output, sysfs files, statistics of the drivers.
- AVB examples, dissector, scripts and recipes: nothing of the running system.

## 9 Plan

Done: all modules of section 2, and the proofs of section 6. Left, in this order:

1. Proofs of the invariants that are only model-checked: `PtSound` (its tables
   of states and events need a case each), `MgAnswered`.
2. An abstract FIFO per stream that `Tadma` implements on one CPU: frames leave in
   the order they came, none twice. `QueueInv` is the invariant it needs.
3. Compositions: `PtpBmc` of several clocks on a segment with one master once
   messages get through, and `TsnEndpoint` with the rings of `AxiDma` and `Tadma`.
