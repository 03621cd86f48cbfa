------------------------------ MODULE TrdpSend ------------------------------
(***************************************************************************)
(* The process data send queue of a TRDP session (trdp_if.c, trdp_pdcom.c):*)
(* tlp_publish, tlp_put, tlp_unpublish, tlp_setRedundant, the arrival of a *)
(* PULL request and trdp_pdSendQueued, which a thread calls in its own     *)
(* rhythm (thread_process_pdSend, or the main loop of sendHello).  Every   *)
(* operation holds the session's mutex from its first access to its last.  *)
(*                                                                         *)
(* Time is counted in ticks and kept relative to now: ttg is timeToGo      *)
(* minus the present time.  phase is the present time modulo the 10 ms     *)
(* grid that trdp_pdSendQueued rounds to.                                  *)
(***************************************************************************)
EXTENDS TrdpPacket

CONSTANTS
  Pubs,       \* the telegrams: one ComId, each with a source address of its own
  Interval,   \* cycle of each telegram in ticks, 0: sent on request only
  FirstSteps, \* the grid points from tlp_publish to the first transmission
  Group,      \* the telegrams published with a redundancy id
  Grid,       \* ticks in the 10 ms grid
  SendPoll,   \* most ticks between two calls of tlc_process_send
  Hosts,      \* hosts that send PULL requests
  MaxAhead    \* bound: each PULL of a telegram without data adds a cycle to its ttg

\* tlp_publish refuses a cycle below TRDP_TIMER_GRANULARITY, which is the grid.
ASSUME SendAssumption ==
  /\ Grid \in Nat \ {0} /\ SendPoll \in Nat \ {0}
  /\ Interval \in [Pubs -> Nat] /\ FirstSteps \in [Pubs -> SUBSET (Nat \ {0})]
  /\ \A p \in Pubs : Interval[p] # 0 => Interval[p] >= Grid
  /\ Group \subseteq Pubs /\ MaxAhead \in Nat
  /\ "group" \notin Hosts /\ "none" \notin Hosts

VARIABLES
  queue, \* pSndQueue: the published telegrams in the queue's order
  snd,   \* their elements; NoElement for a telegram that is not published
  phase, \* now modulo Grid
  sleep, \* ticks since the send thread ran
  once,  \* history: telegrams that sent a PD to their subscribers and neither
         \* were stopped nor failed to be sent since
  since  \* history: ticks since their last PD

vars == <<queue, snd, phase, sleep, once, since>>

NoElement == [on |-> FALSE]
Element == [on : {TRUE}, ttg : Int, valid : BOOLEAN, req : BOOLEAN,
            pull : Hosts \cup {"none"}, red : BOOLEAN,
            seq : Counters, seqPull : Counters, data : Data]

Published(p) == snd[p].on
Cyclic(p) == Interval[p] # 0

----------------------------------------------------------------------------
\* trdp_getSeqCnt for a new telegram: the PD counter of the first one in the
\* queue with the same ComId and another source, else 0.
GetSeqCnt == IF queue = <<>> THEN 0 ELSE snd[Head(queue)].seq

\* tlp_getRedundant: a new telegram follows when the first of its group does.
Follower(p) ==
  LET members == SelectSeq(queue, LAMBDA o : o \in Group)
  IN  p \in Group /\ members # <<>> /\ snd[Head(members)].red

\* trdp_pdSendQueued: is the telegram p with element e to be handled now?
Due(p, e) == (Cyclic(p) /\ e.ttg <= 0) \/ e.req

\* The answer to a PULL carries its own type and counter.
Pulled(e) == e.req /\ e.valid

\* Mutant: the cycles that were missed are made up for.
NextTtgNoCatchUp(p, e) == e.ttg + Interval[p]

\* Mutant: the late telegram is not moved back to the grid.
NextTtgNoGrid(p, e) ==
  LET t == e.ttg + Interval[p] IN IF t > 0 THEN t ELSE Interval[p]

\* The next transmission: one cycle after this one was due; after a delay of
\* a cycle or more, one cycle from now rounded down to the grid.
NextTtg(p, e) ==
  LET t == e.ttg + Interval[p]
  IN  IF t > 0 THEN t ELSE Interval[p] - ((phase + Interval[p]) % Grid)

\* Is a packet put on the wire?  Not without data and not by a follower.
Sends(e) == e.valid /\ ~e.red

\* Mutant: the answer to a PULL moves the timer as well.
SentElementTimer(p, e) ==
  [e EXCEPT !.req = FALSE,
            !.pull = IF Sends(e) THEN "none" ELSE @,
            !.seq = IF e.valid /\ ~Pulled(e) THEN Bump(@) ELSE @,
            !.seqPull = IF Pulled(e) THEN Bump(@) ELSE @,
            !.ttg = IF ~Cyclic(p) THEN @ ELSE NextTtg(p, e)]

\* Mutant: the answer to a PULL takes the counter of the PD packets.
SentElementOneCounter(p, e) ==
  [e EXCEPT !.req = FALSE,
            !.pull = IF Sends(e) THEN "none" ELSE @,
            !.seq = IF e.valid THEN Bump(@) ELSE @,
            !.ttg = IF Pulled(e) \/ ~Cyclic(p) THEN @ ELSE NextTtg(p, e)]

\* The element after trdp_pdSendQueued handled it.  The counters move with
\* valid data only, a follower's too; the answer to a PULL leaves the timer
\* alone; the temporary address is dropped by trdp_pdSend.
SentElement(p, e) ==
  [e EXCEPT !.req = FALSE,
            !.pull = IF Sends(e) THEN "none" ELSE @,
            !.seq = IF e.valid /\ ~Pulled(e) THEN Bump(@) ELSE @,
            !.seqPull = IF Pulled(e) THEN Bump(@) ELSE @,
            !.ttg = IF Pulled(e) \/ ~Cyclic(p) THEN @ ELSE NextTtg(p, e)]

\* What trdp_pdSendQueued does to the elements q.  A packet goes to the host
\* of a PULL while its address is noted, and to the subscribers otherwise.
Handled(q) == {p \in Pubs : q[p].on /\ Due(p, q[p])}
Senders(q) == {p \in Handled(q) : Sends(q[p])}
PdPackets(q) == {p \in Senders(q) : ~Pulled(q[p])}
PdSenders(q) == {p \in PdPackets(q) : q[p].pull = "none"}

\* trdp_pdSend fails for the telegrams in failed; all else goes on for them as
\* if they had been sent.  (trdp_validTopoCounters is always true, and a
\* published telegram has a socket.)
SendQueuedWith(q, failed) ==
  /\ snd' = [p \in Pubs |-> IF p \in Handled(q) THEN SentElement(p, q[p]) ELSE q[p]]
  /\ once' = (once \cup PdSenders(q)) \ (failed \cap PdPackets(q))
  /\ since' = [p \in Pubs |-> IF p \in PdPackets(q) THEN 0 ELSE since[p]]
  /\ UNCHANGED <<queue, phase>>

SendQueued(q) == \E failed \in SUBSET Senders(q) : SendQueuedWith(q, failed)

----------------------------------------------------------------------------
Init ==
  /\ queue = <<>> /\ snd = [p \in Pubs |-> NoElement]
  /\ phase \in 0 .. Grid - 1 /\ sleep = 0
  /\ once = {} /\ since = [p \in Pubs |-> 0]

\* tlp_publish; with data it also puts them.  The first transmission is on a
\* grid point; the counters are one behind, they move before a transmission.
Publish(p, withData) ==
  /\ ~Published(p)
  /\ \E d \in Data, k \in FirstSteps[p] :
       snd' = [snd EXCEPT ![p] =
         [on |-> TRUE, ttg |-> IF Cyclic(p) THEN k * Grid - phase ELSE 0,
          valid |-> withData, req |-> FALSE, pull |-> "none", red |-> Follower(p),
          seq |-> (GetSeqCnt + CntMod - 1) % CntMod,
          seqPull |-> (GetSeqCnt + CntMod - 1) % CntMod,
          data |-> IF withData THEN d ELSE 0]]
  /\ queue' = Append(queue, p)
  /\ UNCHANGED <<phase, sleep, once, since>>

\* tlp_put
Put(p, d) ==
  /\ Published(p)
  /\ snd' = [snd EXCEPT ![p].data = d, ![p].valid = TRUE]
  /\ UNCHANGED <<queue, phase, sleep, once, since>>

\* trdp_queueDelElement: the queue without p.
Position(p) == CHOOSE i \in DOMAIN queue : queue[i] = p
Without(p) ==
  [i \in 1 .. Len(queue) - 1 |-> IF i < Position(p) THEN queue[i] ELSE queue[i + 1]]

\* tlp_unpublish
Unpublish(p) ==
  /\ Published(p)
  /\ snd' = [snd EXCEPT ![p] = NoElement]
  /\ queue' = Without(p)
  /\ once' = once \ {p} /\ since' = [since EXCEPT ![p] = 0]
  /\ UNCHANGED <<phase, sleep>>

\* tlp_setRedundant for one redundancy id, or for redId 0, which the loop
\* compares with the id of the telegrams too: those without one match.  An
\* error when no telegram is meant.
Meant(all) == {p \in Pubs : Published(p) /\ (all \/ p \in Group)}
SetRedundant(all, leader) ==
  /\ Meant(all) # {}
  /\ snd' = [p \in Pubs |-> IF p \in Meant(all) THEN [snd[p] EXCEPT !.red = ~leader] ELSE snd[p]]
  /\ once' = IF leader THEN once ELSE once \ Meant(all)
  /\ since' = [p \in Pubs |-> IF leader \/ p \notin Meant(all) THEN since[p] ELSE 0]
  /\ UNCHANGED <<queue, phase, sleep>>

\* tlc_process_send, and the sending half of tlc_process.
ProcessSend == SendQueued(snd) /\ sleep' = 0

\* trdp_pdReceive for a PULL request of a host: the first telegram with the
\* ComId is found, where its answer goes is noted, and all that is due is sent.
Asked(p, host) == [snd EXCEPT ![p].pull = host, ![p].req = TRUE]

PullRequest(host) ==
  /\ queue # <<>> /\ snd[Head(queue)].ttg <= MaxAhead
  /\ SendQueued(Asked(Head(queue), host))
  /\ UNCHANGED sleep

\* One tick of time; the send thread is never more than SendPoll ticks late.
Tick ==
  /\ sleep < SendPoll
  /\ sleep' = sleep + 1
  /\ phase' = (phase + 1) % Grid
  /\ snd' = [p \in Pubs |-> IF Published(p) /\ Cyclic(p)
                            THEN [snd[p] EXCEPT !.ttg = @ - 1] ELSE snd[p]]
  /\ since' = [p \in Pubs |-> IF p \in once THEN since[p] + 1 ELSE 0]
  /\ UNCHANGED <<queue, once>>

Next ==
  \/ \E p \in Pubs : \/ \E w \in BOOLEAN : Publish(p, w)
                     \/ \E d \in Data : Put(p, d)
                     \/ Unpublish(p)
  \/ \E all, l \in BOOLEAN : SetRedundant(all, l)
  \/ \E h \in Hosts : PullRequest(h)
  \/ ProcessSend
  \/ Tick

Spec == Init /\ [][Next]_vars

----------------------------------------------------------------------------
(* Properties.                                                              *)

TypeOK ==
  /\ queue \in Seq(Pubs) /\ snd \in [Pubs -> {NoElement} \cup Element]
  /\ phase \in 0 .. Grid - 1 /\ sleep \in 0 .. SendPoll
  /\ once \subseteq Pubs /\ since \in [Pubs -> Nat]

\* The queue is what the elements say: it holds each published telegram once.
QueueOK ==
  /\ \A p \in Pubs : Published(p) <=> \E i \in DOMAIN queue : queue[i] = p
  /\ \A i, j \in DOMAIN queue : queue[i] = queue[j] => i = j

\* A leader with data sends its telegram in every cycle: less than a cycle
\* plus the longest sleep of the send thread passes between two PD packets to
\* its subscribers, whatever PULL requests, puts and earlier delays do to the
\* timer and to the address, unless sending one failed.
CycleKept ==
  \A p \in once : Cyclic(p) => since[p] < Interval[p] + SendPoll

\* "timeToGo is multiple times of 10ms": a telegram whose cycle is a multiple
\* of the grid stays on the grid, however late the send thread runs, so that
\* it meets the slot of the transmit schedule it was planned for.
OnGrid ==
  \A p \in Pubs : Published(p) /\ Cyclic(p) /\ Interval[p] % Grid = 0
                  => (phase + snd[p].ttg) % Grid = 0

\* Two PD packets of a telegram are never sent at one instant, even when the
\* thread had fallen several cycles behind: the next one is in the future.
NoBurst ==
  [][\A p \in PdPackets(snd) :
       ProcessSend /\ Cyclic(p) => snd'[p].ttg > 0]_vars

\* A telegram as its subscribers see it.
Source(p) ==
  INSTANCE TrdpSource WITH
    MaxGap <- Interval[p] + SendPoll - 1, Modulus <- CntMod,
    up <- p \in once, gap <- since[p],
    seq <- IF Published(p) THEN snd[p].seq ELSE 0

\* The publisher keeps what TrdpSource promises the subscribers, for each
\* cyclic telegram: Source(p)!SourceSpec for all of them at once.
KeepsPromise ==
  /\ \A p \in Pubs : Cyclic(p) => Source(p)!SourceInit
  /\ [][\A p \in Pubs : Cyclic(p) => Source(p)!SourceStep]_vars

\* Not kept: "0 to change for all redId" and "all set redundant ID are targeted if redID == 0" (tlp_setRedundant,
\* trdp_if.c:979 and :1003): what the call makes a follower was published with a redundancy id.  Not so:
\* with redId 0 it stops the telegrams that have none as well.
OnlyGroupsFollow == \A p \in Pubs : Published(p) /\ snd[p].red => p \in Group

\* Not kept (trdp_utils.c:1047, "shall be the same for redundant telegrams"): telegrams published for
\* one ComId on two subnets that are transmitted together carry equal counters.  tlp_publish leaves
\* the second one behind the first.
SameCounter ==
  \A p, q \in once : snd[p].ttg = snd[q].ttg => snd[p].seq = snd[q].seq

=============================================================================
