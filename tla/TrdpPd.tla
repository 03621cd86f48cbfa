------------------------------- MODULE TrdpPd -------------------------------
(***************************************************************************)
(* TRDP process data end to end: a publisher that keeps the promise of     *)
(* TrdpSource (TrdpSend does), the network, and the subscribing session    *)
(* (TrdpRecv).  They share nothing but packets and time.                   *)
(***************************************************************************)
EXTENDS TrdpRecv, TrdpSource, SequencesExt

CONSTANTS
  NetDelay, \* most ticks a packet is on its way
  NetCap,   \* bound: packets on their way
  RxCap,    \* packets the socket buffer holds
  Reorder,  \* TRUE: packets may overtake one another
  Pulling   \* TRUE: the subscriber also asks for data with tlp_request

ASSUME NetAssumption ==
  {NetDelay, NetCap, RxCap} \subseteq Nat /\ {Reorder, Pulling} \subseteq BOOLEAN
  /\ Modulus = CntMod

VARIABLES
  net,  \* packets on their way to the subscriber
  pr,   \* a PULL request of the subscriber is on its way
  hist  \* history variables, see NoHist

vars == <<up, gap, seq, sub, rx, rwait, holder, blocking, told, net, pr, hist>>

\* The longest a packet waits: in blocking mode one is read at a time.
MaxWait == NetDelay + RxCap * RecvPoll
MaxAge == Timeout + MaxWait + 1
MaxSilence == Timeout + RecvPoll + 1

\* good: a PD of the running publisher arrived and since then no packet was
\*   lost and the publisher did not stop; silence: ticks since the
\*   subscription's timer was started; asked: a request since the last packet;
\*   forgiven: a request revoked a reported time-out; last: counter of the last
\*   PD accepted, -1 if none; pp: a PP was accepted; at: no of the last packet
\*   accepted, -1 if none.
NoHist == [good |-> FALSE, silence |-> 0, asked |-> FALSE, forgiven |-> FALSE,
           last |-> -1, pp |-> FALSE, at |-> -1]

Init == SourceInit /\ RecvInit /\ net = <<>> /\ pr = FALSE /\ hist = NoHist

\* A packet is lost or the publisher stops: what is under way no longer counts.
Broken == [hist EXCEPT !.good = FALSE]
Old(q) == [i \in DOMAIN q |-> [q[i] EXCEPT !.live = FALSE]]
\* The publisher stops: what it sends later has nothing to do with it.
Former(q) == [i \in DOMAIN q |-> [q[i] EXCEPT !.live = FALSE, !.no = -1]]

----------------------------------------------------------------------------
\* The publisher.
Transmit(type, s, d, n) ==
  /\ Len(net) < NetCap
  /\ net' = Append(net, [type |-> type, seq |-> s, data |-> d,
                         ok |-> TRUE, age |-> 0, live |-> TRUE, no |-> n])

PubPd ==
  /\ SourcePd
  /\ \E d \in Data : Transmit("PD", seq', d, seq')
  /\ UNCHANGED <<recvVars, pr, hist>>

\* The PULL request arrives and is answered, with a counter of its own.
PubPp ==
  /\ pr /\ pr' = FALSE
  /\ SourcePp
  /\ \E d \in Data, s \in Counters : Transmit("PP", s, d, -1)
  /\ UNCHANGED <<recvVars, hist>>

PubDown ==
  /\ SourceDown
  /\ net' = Former(net) /\ rx' = Former(rx) /\ hist' = [Broken EXCEPT !.at = -1]
  /\ UNCHANGED <<sub, rwait, holder, blocking, told, pr>>

----------------------------------------------------------------------------
\* The network (UDP): a packet is delivered, lost, duplicated or damaged.
Movable == IF Reorder THEN DOMAIN net ELSE DOMAIN net \cap {1}

\* The packets m join the socket buffer.
Arrive(q, m) ==
  /\ m # <<>> => Subscribed /\ Len(rx) < RxCap
  /\ rx' = q \o m
  /\ UNCHANGED <<sourceVars, sub, rwait, holder, blocking, told, pr>>

Deliver ==
  \E i \in Movable : Arrive(rx, <<net[i]>>) /\ net' = RemoveAt(net, i) /\ UNCHANGED hist

\* Another copy is still to come.
Twice == \E i \in Movable : Arrive(rx, <<net[i]>>) /\ UNCHANGED <<net, hist>>

Damage ==
  \E i \in Movable : /\ Arrive(Old(rx), <<[net[i] EXCEPT !.ok = FALSE]>>)
                     /\ net' = Old(RemoveAt(net, i)) /\ hist' = Broken

\* Lost on the wire, sent to another host, or nobody listens.
Lose ==
  \E i \in Movable : /\ Arrive(Old(rx), <<>>)
                     /\ net' = Old(RemoveAt(net, i)) /\ hist' = Broken

LosePr == pr /\ pr' = FALSE /\ UNCHANGED <<sourceVars, recvVars, net, hist>>

----------------------------------------------------------------------------
\* The subscriber.
PSubscribe == Subscribe /\ hist' = NoHist /\ UNCHANGED <<sourceVars, net, pr>>

PUnsubscribe == Unsubscribe /\ hist' = NoHist /\ UNCHANGED <<sourceVars, net, pr>>

\* tlp_request, and its one-shot element leaving the subscriber's send queue.
PRequest ==
  /\ Pulling /\ Request
  /\ ~pr /\ pr' = TRUE
  /\ hist' = [hist EXCEPT !.silence = 0, !.asked = TRUE, !.forgiven = @ \/ sub.timedOut]
  /\ UNCHANGED <<sourceVars, net>>

PProcessRecv ==
  /\ ProcessRecv
  /\ hist' = IF Late THEN [hist EXCEPT !.forgiven = FALSE] ELSE hist
  /\ UNCHANGED <<sourceVars, net, pr>>

PQuiet == (Get \/ ReadDuplicate \/ ReadEmpty) /\ UNCHANGED <<sourceVars, net, pr, hist>>

PDropped == (ReadCorrupt \/ ReadNoMem) /\ hist' = Broken /\ UNCHANGED <<sourceVars, net, pr>>

PReadAccept ==
  LET m == Head(rx)
      pd == m.type = "PD"
  IN  /\ ReadAccept
      /\ hist' = [hist EXCEPT
           !.good = @ \/ (pd /\ m.live),
           !.silence = 0, !.asked = FALSE,
           !.forgiven = @ /\ ~Informs(m),
           !.last = IF pd THEN m.seq ELSE @,
           !.pp = @ \/ ~pd, !.at = m.no]
      /\ UNCHANGED <<sourceVars, net, pr>>

----------------------------------------------------------------------------
\* Time passes for everyone.
Tick ==
  /\ \A i \in DOMAIN net : net[i].age < NetDelay
  /\ SourceTick /\ RecvTick(MaxAge)
  /\ net' = [i \in DOMAIN net |-> [net[i] EXCEPT !.age = @ + 1]]
  /\ hist' = [hist EXCEPT !.silence = IF @ < MaxSilence THEN @ + 1 ELSE @]
  /\ UNCHANGED pr

Next ==
  \/ PubPd \/ PubPp \/ PubDown
  \/ Deliver \/ Lose \/ Twice \/ Damage \/ LosePr
  \/ PSubscribe \/ PUnsubscribe \/ PRequest
  \/ PProcessRecv \/ PQuiet \/ PDropped \/ PReadAccept
  \/ Tick

Spec == Init /\ [][Next]_vars

----------------------------------------------------------------------------
(* Properties.                                                              *)

TypeOK ==
  /\ up \in BOOLEAN /\ gap \in 0 .. MaxGap /\ seq \in Counters
  /\ sub \in {NoSub} \cup Sub
  /\ rx \in Seq(Pkt) /\ net \in Seq(Pkt)
  /\ rwait \in 0 .. RecvPoll
  /\ holder \in {"none", "recv", "get"} /\ blocking \in BOOLEAN
  /\ told \in {"none", "data", "timeout"} /\ pr \in BOOLEAN

\* While packets arrive and the publisher does not stop, the subscription
\* neither times out nor reports a time-out to tlp_get, provided that its
\* time-out is longer than a late send thread, a late packet and a late
\* receiving thread together: equal is not enough, since tlc_process_recv looks
\* for time-outs before it reads the packets that are waiting.
NoSpuriousTimeout ==
  hist.good /\ Timeout > MaxGap + MaxWait => ~sub.timedOut /\ GetResult # "TIMEOUT"

\* What tlp_get returns as good is not older than the time-out allows, counted
\* from its transmission, unless tlp_request restarted the timer since.
DataIsFresh ==
  Subscribed /\ HasTimer /\ GetResult = "NO_ERR" => hist.asked \/ sub.age <= Timeout + MaxWait

\* Silence is noticed: a subscription that heard nothing for its time-out is
\* flagged as timed out as soon as the receiving thread had its turn.
SilenceIsReported ==
  Subscribed /\ HasTimer /\ hist.silence > Timeout + RecvPoll => sub.timedOut

\* A reported time-out is taken back: when the callback was told of a time-out
\* and the subscription is no longer timed out, it has been told of data, or
\* tlp_request cleared the flag without a word.
TimeoutIsRevoked ==
  Subscribed /\ told = "timeout" => sub.timedOut \/ hist.forgiven

\* A time-out is reported when there is one, and taken back when it is over (tlc_process_recv,
\* trdp_handleTimeout, trdp_pdReceive).
TimeoutExact == NoSpuriousTimeout /\ TimeoutIsRevoked

\* The promises of a subscription hold also when the application asks for data itself with
\* tlp_request, which restarts the time-out and clears the flag.
PullKeepsPromises == DataIsFresh /\ SilenceIsReported /\ TimeoutIsRevoked

\* numMissed (trdp_types.h:460, "number of packets skipped for this
\* subscription") grows by the number of PD packets that the publisher sent
\* between two that were accepted one after the other, over losses, duplicates
\* and the overflow of the counter.  It says nothing of the first packet, of the
\* first one after a PP, and of the first one after the publisher stopped: there
\* the code adds a difference of counters that have nothing to do with one
\* another; nor of a whole lap of the counter lost in a row.  The number is taken
\* modulo the counter: a packet that was overtaken adds nearly a lap.
Between(first, second) == (second - first) % CntMod
MissedIsExact ==
  [][PReadAccept /\ hist.at # -1 /\ Head(rx).no \notin {-1, hist.at}
     => sub'.missed = (sub.missed + Between(hist.at, Head(rx).no) - 1) % CntMod]_vars

\* Not kept (trdp_pdcom.c:601, "Sequence counter is valid (at least 1 higher than previous one)"): a
\* packet that was sent before the one it replaces is never accepted.  trdp_checkSequenceCounter only
\* asks whether the counter differs from the last one.
NeverOlder ==
  [][PReadAccept /\ hist.last \notin {-1, Head(rx).seq} /\ Head(rx).type = "PD"
     => Head(rx).age <= sub.age]_vars

=============================================================================
