------------------------------- MODULE TrdpMd -------------------------------
(***************************************************************************)
(* Message data over UDP (trdp_mdcom.c and the tlm_ calls of trdp_if.c):   *)
(* notifications, requests with retries, replies, replies that ask for a   *)
(* confirmation, and error messages, between a caller "c" and a replier    *)
(* "r" over a network that loses, repeats, delays and damages packets.     *)
(*                                                                         *)
(* A session of a node is an element of its send queue (it called) or of   *)
(* its receive queue (it was called).  trdp_mdSend, trdp_mdRecv and        *)
(* trdp_mdCheckTimeouts run under the session's mutex, so each is a step;  *)
(* the application may call between any two of them, from the callback or  *)
(* from a thread of its own.  Times are ticks relative to now, -1 is any   *)
(* time in the past.  A packet carries its session identifier, 0 in a      *)
(* notification; payload, addresses and URIs are left out.                 *)
(***************************************************************************)
EXTENDS Integers, Sequences, FiniteSets, SequencesExt, FiniteSetsExt

CONSTANTS
  MdSessions, \* the number of calls the application makes (bound)
  MdReplyTo,  \* ticks a caller waits for a reply
  MdConfTo,   \* ticks a replier waits for a confirmation
  MdRetries,  \* retries of a request to one replier
  MdCopies    \* packets the network may repeat (bound)

ASSUME MdAssumption ==
  /\ MdSessions \in Nat \ {0} /\ MdReplyTo \in Nat \ {0} /\ MdConfTo \in Nat \ {0}
  /\ MdRetries \in 0..2 /\ MdCopies \in Nat

VARIABLES
  mdSnd,    \* pMDSndQueue of each node
  mdRcv,    \* pMDRcvQueue of each node
  mdNet,    \* the packets on their way
  mdCopied, \* packets repeated so far
  mdOpened, \* sessions opened so far
  mdEnded   \* the sessions of which the caller's application knows the end: it confirmed,
            \* aborted or never waited, or its callback was told (history)

mdVars == <<mdSnd, mdRcv, mdNet, mdCopied, mdOpened, mdEnded>>

MdNodes == {"c", "r"}
MdIds == 0..MdSessions
MdPeer(n) == IF n = "c" THEN "r" ELSE "c"

MdState == {"none", "tx_notify_arm", "tx_request_arm", "tx_reply_arm", "tx_replyquery_arm",
            "tx_confirm_arm", "tx_request_w4reply", "tx_req_w4ap_confirm", "tx_reply_received",
            "rx_notify_received", "rx_req_w4ap_reply", "rx_replyquery_w4c", "rx_conf_received"}

MdMsg == [type : {"MN", "MR", "MP", "MQ", "MC", "ME"}, sid : MdIds, seq : 0..MdRetries,
          tmo : Nat, to : MdNodes]

\* id: sessionID; sid: the identifier in pPacket; typ, seq, tmo: pPacket's msgType,
\* sequenceCounter and replyTimeout.
MdElement == [id : MdIds, sid : MdIds, typ : {"MN", "MR", "MP", "MQ", "MC", "ME"},
              seq : Nat, tmo : Nat, st : MdState, ttg : Int, interval : Nat,
              numExp : Nat, max : Nat, retries : Nat, numReplies : Nat,
              numQuery : Nat, numConf : Nat, morituri : BOOLEAN]

MdHas(q, id) == \E i \in DOMAIN q : q[i].id = id

----------------------------------------------------------------------------
\* trdp_mdFillStateElement
MdFillState(type) ==
  CASE type = "MN" -> "tx_notify_arm"
    [] type = "MR" -> "tx_request_arm"
    [] type \in {"MP", "ME"} -> "tx_reply_arm"
    [] type = "MQ" -> "tx_replyquery_arm"
    [] type = "MC" -> "tx_confirm_arm"

\* trdp_mdSetSessionTimeout: "no time-out" is the interval 0, and the time 0 that
\* goes with it is in the past of every clock.
MdTimer(interval) == IF interval = 0 THEN -1 ELSE interval

\* The element trdp_mdCall and trdp_mdSendME put at the head of the send queue.
MdSender(type, id, interval, numExp, max) ==
  [id |-> id, sid |-> IF type = "MN" THEN 0 ELSE id, typ |-> type, seq |-> 0, tmo |-> interval,
   st |-> MdFillState(type), ttg |-> MdTimer(interval), interval |-> interval,
   numExp |-> numExp, max |-> max, retries |-> 0, numReplies |-> 0,
   numQuery |-> 0, numConf |-> 0, morituri |-> FALSE]

\* trdp_mdManageSessionId: a new identifier for a call.
MdNewId == mdOpened + 1

\* trdp_mdCall: retries only when one reply was asked for and the destination is a
\* single device; the number of replies counts only for a group.
MdCall(type, group, replies, interval) ==
  /\ mdOpened < MdSessions
  /\ mdOpened' = MdNewId
  /\ LET max == IF replies = 1 /\ ~group THEN MdRetries ELSE 0
         exp == IF type = "MN" THEN 0 ELSE IF group THEN replies ELSE 1
     IN  mdSnd' = [mdSnd EXCEPT !["c"] = <<MdSender(type, mdOpened', interval, exp, max)>> \o @]
  /\ mdEnded' = IF type = "MN" THEN mdEnded \cup {mdOpened'} ELSE mdEnded
  /\ UNCHANGED <<mdRcv, mdNet, mdCopied>>

\* tlm_notify
MdNotify == MdCall("MN", FALSE, 0, 0)

\* tlm_request with a time-out of its own
MdRequest ==
  \E group \in BOOLEAN, replies \in 0..2 :
     /\ group \/ replies = 1
     /\ MdCall("MR", group, replies, MdReplyTo)

\* tlm_request with TRDP_INFINITE_TIMEOUT, which it turns into 0
MdRequestInfinite == MdCall("MR", FALSE, 1, 0)

\* trdp_mdLookupElement: the first element of q with that session and state.
MdLookup(q, id, st) == SelectInSeq(q, LAMBDA e : e.id = id /\ e.st = st)

\* trdp_mdReply, for tlm_reply (MP) and tlm_replyQuery (MQ)
MdReply(type) ==
  \E id \in MdIds :
     LET i == MdLookup(mdRcv["r"], id, "rx_req_w4ap_reply")
         e == mdRcv["r"][i]
         armed == [e EXCEPT !.typ = type, !.st = MdFillState(type), !.numReplies = 0,
                            !.morituri = FALSE]
     IN  /\ i # 0
         /\ mdRcv' = [mdRcv EXCEPT !["r"][i] =
                        IF type = "MQ"
                        THEN [armed EXCEPT !.interval = MdConfTo, !.ttg = MdTimer(MdConfTo),
                                           !.tmo = MdConfTo]
                        ELSE [armed EXCEPT !.tmo = 0]]
         /\ UNCHANGED <<mdSnd, mdNet, mdCopied, mdOpened, mdEnded>>

\* trdp_mdConfirm, for tlm_confirm
MdConfirm ==
  \E id \in MdIds :
     LET i == MdLookup(mdSnd["c"], id, "tx_req_w4ap_confirm")
     IN  /\ i # 0
         /\ mdSnd' = [mdSnd EXCEPT !["c"][i] =
                        [@ EXCEPT !.typ = "MC", !.seq = 0, !.tmo = 0, !.st = MdFillState("MC"),
                                  !.numReplies = 0, !.morituri = FALSE]]
         /\ mdEnded' = mdEnded \cup {id}
         /\ UNCHANGED <<mdRcv, mdNet, mdCopied, mdOpened>>

\* tlm_abortSession: the receive queue is searched only when the send queue is empty.
MdAbort(n) ==
  \E id \in MdIds :
     LET Kill(q) == [i \in DOMAIN q |-> IF q[i].id = id THEN [q[i] EXCEPT !.morituri = TRUE]
                                                       ELSE q[i]]
     IN  /\ IF mdSnd[n] # << >>
            THEN /\ MdHas(mdSnd[n], id)
                 /\ mdSnd' = [mdSnd EXCEPT ![n] = Kill(@)] /\ UNCHANGED mdRcv
            ELSE /\ MdHas(mdRcv[n], id)
                 /\ mdRcv' = [mdRcv EXCEPT ![n] = Kill(@)] /\ UNCHANGED mdSnd
         /\ mdEnded' = IF n = "c" THEN mdEnded \cup {id} ELSE mdEnded
         /\ UNCHANGED <<mdNet, mdCopied, mdOpened>>

----------------------------------------------------------------------------
\* trdp_mdCloseSessions
MdClose(q) == FoldLeft(LAMBDA kept, e : IF e.morituri THEN kept ELSE Append(kept, e), << >>, q)

MdArmed(e) == e.st \in {"tx_notify_arm", "tx_request_arm", "tx_reply_arm",
                        "tx_replyquery_arm", "tx_confirm_arm"}

\* The last confirmation that was due has been sent.
MdAllConfirmed(e) ==
  e.numExp # 0 /\ e.numQuery + e.numReplies >= e.numExp /\ e.numConf + 1 >= e.numQuery

\* An element whose packet was sent.
MdSent(e) ==
  CASE ~MdArmed(e) -> e
    [] e.st \in {"tx_notify_arm", "tx_reply_arm"} -> [e EXCEPT !.st = "none", !.morituri = TRUE]
    [] e.st = "tx_request_arm" -> [e EXCEPT !.st = "tx_request_w4reply"]
    [] e.st = "tx_replyquery_arm" ->
         [e EXCEPT !.st = "rx_replyquery_w4c", !.ttg = e.interval]
    [] e.st = "tx_confirm_arm" ->
         IF MdAllConfirmed(e)
         THEN [e EXCEPT !.numConf = @ + 1, !.st = "none", !.morituri = TRUE]
         ELSE [e EXCEPT !.numConf = @ + 1,
                        !.st = IF e.numConf + 1 < e.numQuery THEN "tx_req_w4ap_confirm"
                                                             ELSE "tx_request_w4reply"]

\* trdp_mdUpdatePacket, trdp_mdSendPacket: what goes out for an element.
MdPacket(n, e) == [type |-> e.typ, sid |-> e.sid, seq |-> e.seq, tmo |-> e.tmo,
                   to |-> MdPeer(n)]

\* trdp_mdSend: every armed element is sent, then the sessions that ended are closed.
MdSend(n) ==
  LET armed == {e \in Range(mdSnd[n] \o mdRcv[n]) : MdArmed(e)}
      Pass(q) == MdClose([i \in DOMAIN q |-> MdSent(q[i])])
  IN  /\ armed # {} \/ \E e \in Range(mdSnd[n] \o mdRcv[n]) : e.morituri
      /\ mdNet' = mdNet \cup {MdPacket(n, e) : e \in armed}
      /\ mdSnd' = [mdSnd EXCEPT ![n] = Pass(@)]
      /\ mdRcv' = [mdRcv EXCEPT ![n] = Pass(@)]
      /\ UNCHANGED <<mdCopied, mdOpened, mdEnded>>

\* The same when the socket refuses: all elements of the send queue that use it end,
\* and their callbacks are told; an element of the receive queue stays armed.
MdSendFails(n) ==
  /\ \E e \in Range(mdSnd[n]) : MdArmed(e)
  /\ mdSnd' = [mdSnd EXCEPT ![n] = << >>]
  /\ mdRcv' = [mdRcv EXCEPT ![n] = MdClose(@)]
  /\ mdEnded' = IF n = "c" THEN mdEnded \cup {e.id : e \in Range(mdSnd[n])} ELSE mdEnded
  /\ UNCHANGED <<mdNet, mdCopied, mdOpened>>

----------------------------------------------------------------------------
\* trdp_mdRecvUDPPacket takes a packet from its socket.
MdTake(m) == mdNet' = mdNet \ {m}

\* trdp_mdSendME
MdSendME(id) == mdSnd' = [mdSnd EXCEPT !["r"] = <<MdSender("ME", id, 0, 0, 0)>> \o @]

\* Mutant: a retry counts as a request of its own, because its sequence counter is new.
MdKnownBySeq(m) == SelectInSeq(mdRcv["r"], LAMBDA e : e.sid = m.sid /\ e.seq = m.seq)

\* The first element of the receive queue the packet belongs to.
MdKnown(m) == SelectInSeq(mdRcv["r"], LAMBDA e : e.sid = m.sid)

\* trdp_mdHandleRequest, first part: a request of a session in the queue is a
\* repetition; only a caller that missed the reply-query is answered again.  The
\* break for other topology counts is never taken: trdp_validTopoCounters returns
\* TRUE whatever they are.
MdRecvRepeated ==
  \E m \in mdNet :
     LET i == MdKnown(m)
         e == mdRcv["r"][i]
     IN  /\ m.type \in {"MN", "MR"} /\ i # 0
         /\ MdTake(m)
         /\ mdRcv' = IF m.seq # e.seq /\ e.st = "rx_replyquery_w4c"
                     THEN [mdRcv EXCEPT !["r"][i] =
                             [e EXCEPT !.st = "tx_replyquery_arm", !.retries = @ + 1,
                                       !.seq = m.seq, !.ttg = @ + e.interval]]
                     ELSE mdRcv
         /\ UNCHANGED <<mdSnd, mdCopied, mdOpened, mdEnded>>

\* A new session, unless there are too many or nobody listens.
MdReceiver(m) ==
  [MdSender("MR", m.sid, m.tmo, 0, 0) EXCEPT
     !.typ = m.type, !.seq = m.seq,
     !.ttg = IF m.type = "MN" THEN m.tmo ELSE MdTimer(m.tmo),
     !.st = IF m.type = "MN" THEN "rx_notify_received" ELSE "rx_req_w4ap_reply",
     !.morituri = m.type = "MN"]

\* trdp_mdHandleRequest, second part, and what trdp_mdRecv does with a notification.
MdRecvNew ==
  \E m \in mdNet :
     /\ m.type \in {"MN", "MR"} /\ MdKnown(m) = 0
     /\ MdTake(m)
     /\ \/ mdRcv' = [mdRcv EXCEPT !["r"] = <<MdReceiver(m)>> \o @] /\ UNCHANGED mdSnd
        \/ MdSendME(m.sid) /\ UNCHANGED mdRcv
     /\ UNCHANGED <<mdCopied, mdOpened, mdEnded>>

\* trdp_mdHandleConfirmReply: the element of the session whatever state it is in;
\* the packet takes the place of the one the element held, armed or not.
MdAnswered(e, m) ==
  LET got == [e EXCEPT !.typ = m.type, !.sid = m.sid, !.seq = m.seq, !.tmo = m.tmo]
      all == \/ e.numExp = 1
             \/ /\ e.numExp # 0
                /\ e.numReplies + 1 + e.numQuery >= e.numExp
                /\ e.numConf >= e.numQuery
  IN  CASE m.type = "MC" -> [got EXCEPT !.st = "rx_conf_received", !.morituri = TRUE]
        [] m.type = "MQ" -> [got EXCEPT !.st = "tx_req_w4ap_confirm", !.numQuery = @ + 1,
                                        !.interval = m.tmo, !.ttg = m.tmo]
        [] OTHER -> [got EXCEPT !.st = "tx_reply_received", !.numReplies = @ + 1,
                                !.morituri = @ \/ all]

\* trdp_mdInvokeCallback: a reply or an error ends the session for the application.
MdTold(e, m) == IF m.type \in {"MP", "ME"} THEN mdEnded \cup {e.id} ELSE mdEnded

\* trdp_mdRecv of a reply, a reply-query, an error or a confirmation
MdRecvAnswer ==
  \E m \in mdNet :
     LET q == IF m.type = "MC" THEN mdRcv["r"] ELSE mdSnd["c"]
         i == SelectInSeq(q, LAMBDA e : e.sid = m.sid)
     IN  /\ m.type \notin {"MN", "MR"}
         /\ MdTake(m)
         /\ IF i = 0
            THEN UNCHANGED <<mdSnd, mdRcv, mdEnded>>
            ELSE IF m.type = "MC"
            THEN /\ mdRcv' = [mdRcv EXCEPT !["r"][i] = MdAnswered(@, m)]
                 /\ UNCHANGED <<mdSnd, mdEnded>>
            ELSE /\ mdSnd' = [mdSnd EXCEPT !["c"][i] = MdAnswered(@, m)]
                 /\ mdEnded' = MdTold(q[i], m)
                 /\ UNCHANGED mdRcv
         /\ UNCHANGED <<mdCopied, mdOpened>>

\* trdp_mdRecvUDPPacket and trdp_mdCheck: a packet whose length, checksum, version,
\* type or topology counters are wrong is thrown away; a lost one ends the same way.
MdRecvBad ==
  \E m \in mdNet :
     MdTake(m) /\ UNCHANGED <<mdSnd, mdRcv, mdCopied, mdOpened, mdEnded>>

----------------------------------------------------------------------------
\* trdp_mdTimeOutStateHandler: the element, whether the time-out is reported, and as what.
MdEnd(e, reported, code) ==
  [e |-> [e EXCEPT !.morituri = TRUE], to |-> reported, code |-> code]

\* The application did not reply, or did not confirm, in time.
MdAppTimeOut(e) ==
  MdEnd(e, TRUE, IF e.st = "tx_req_w4ap_confirm" THEN "app_confirmto" ELSE "app_replyto")

\* A caller that waits for a reply asks again, or gives up.
MdRetry(e) == ~e.morituri /\ e.numExp = 1 /\ e.retries < e.max

MdReplyTimeOut(e) ==
  IF MdRetry(e)
  THEN [e |-> [e EXCEPT !.st = "tx_request_arm", !.retries = @ + 1, !.seq = @ + 1,
                        !.ttg = @ + e.interval],
        to |-> FALSE, code |-> "unknown"]
  ELSE MdEnd(e, ~e.morituri, IF e.morituri THEN "unknown" ELSE "replyto")

\* Mutant: a caller that had some of its replies waits for the others for ever.
MdMoreRepliesForever(e) == [e |-> e, to |-> FALSE, code |-> "unknown"]

\* A caller that had replies gives up waiting for more.
MdMoreReplies(e) ==
  LET few == e.numExp = 0 \/ e.numReplies < e.numExp
  IN  MdEnd(e, few, IF few THEN "replyto" ELSE "unknown")

MdTimeOut(e) ==
  CASE e.st \in {"rx_req_w4ap_reply", "tx_req_w4ap_confirm"} -> MdAppTimeOut(e)
    [] e.st = "tx_request_w4reply" -> MdReplyTimeOut(e)
    [] e.st = "rx_replyquery_w4c" -> MdEnd(e, TRUE, "confirmto")
    [] e.st = "tx_reply_received" -> MdMoreReplies(e)
    [] OTHER -> [e |-> e, to |-> FALSE, code |-> "unknown"]

MdExpired(e) == e.ttg < 0

\* trdp_mdCheckTimeouts: the send queue, then the receive queue.  timeOut keeps its
\* value from one element to the next, so that an element that did not expire is
\* reported too when the last expired one before it was.
MdReports(q) ==
  LET hit(i) == {j \in 1..i : MdExpired(q[j])}
  IN  {i \in DOMAIN q : hit(i) # {} /\ MdTimeOut(q[Max(hit(i))]).to}

MdCode(e) == IF MdExpired(e) THEN MdTimeOut(e).code ELSE "unknown"

MdCheckTimeouts(n) ==
  LET Pass(q) == MdClose([i \in DOMAIN q |-> IF MdExpired(q[i]) THEN MdTimeOut(q[i]).e ELSE q[i]])
      all == mdSnd[n] \o mdRcv[n]
  IN  /\ \E e \in Range(all) : MdExpired(e) \/ e.morituri
      /\ mdSnd' = [mdSnd EXCEPT ![n] = Pass(@)]
      /\ mdRcv' = [mdRcv EXCEPT ![n] = Pass(@)]
      /\ mdEnded' = IF n # "c" THEN mdEnded
                    ELSE mdEnded \cup {all[i].id : i \in {k \in MdReports(all) :
                                                         MdCode(all[k]) # "unknown"}}
      /\ UNCHANGED <<mdNet, mdCopied, mdOpened>>

----------------------------------------------------------------------------
\* The network (external): a packet is received, and a copy of it stays behind.
MdTwice ==
  /\ mdCopied < MdCopies
  /\ mdCopied' = mdCopied + 1
  /\ \E m \in mdNet :
        LET i == SelectInSeq(mdSnd["c"], LAMBDA e : e.sid = m.sid)
        IN  /\ m.type \in {"MQ", "MP"} /\ i # 0
            /\ mdSnd' = [mdSnd EXCEPT !["c"][i] = MdAnswered(@, m)]
            /\ mdEnded' = MdTold(mdSnd["c"][i], m)
  /\ UNCHANGED <<mdRcv, mdNet, mdOpened>>

\* Time passes for every timer.
MdTick ==
  LET Older(q) == [i \in DOMAIN q |-> [q[i] EXCEPT !.ttg = IF @ >= 0 THEN @ - 1 ELSE @]]
  IN  /\ \E n \in MdNodes : \E e \in Range(mdSnd[n] \o mdRcv[n]) : e.ttg >= 0
      /\ mdSnd' = [n \in MdNodes |-> Older(mdSnd[n])]
      /\ mdRcv' = [n \in MdNodes |-> Older(mdRcv[n])]
      /\ UNCHANGED <<mdNet, mdCopied, mdOpened, mdEnded>>

MdInit ==
  /\ mdSnd = [n \in MdNodes |-> << >>] /\ mdRcv = [n \in MdNodes |-> << >>]
  /\ mdNet = {} /\ mdCopied = 0 /\ mdOpened = 0
  /\ mdEnded = {}

MdNext ==
  \/ MdNotify \/ MdRequest \/ MdRequestInfinite
  \/ MdReply("MP") \/ MdReply("MQ") \/ MdConfirm
  \/ \E n \in MdNodes : MdAbort(n) \/ MdSend(n) \/ MdSendFails(n) \/ MdCheckTimeouts(n)
  \/ MdRecvRepeated \/ MdRecvNew \/ MdRecvAnswer \/ MdRecvBad
  \/ MdTwice \/ MdTick

MdSpec == MdInit /\ [][MdNext]_mdVars

----------------------------------------------------------------------------

\* The queues hold elements and the network messages, of these types.
MdTypeOK ==
  /\ \A n \in MdNodes : Range(mdSnd[n]) \cup Range(mdRcv[n]) \subseteq MdElement
  /\ mdNet \subseteq MdMsg

\* Every session the caller opened is still in its queue, was ended by the
\* application, or ended with a callback that told it how: no request is forgotten.
MdEndReported ==
  \A id \in 1..mdOpened : MdHas(mdSnd["c"], id) \/ id \in mdEnded

\* However often a request is repeated or duplicated, the replier never has two
\* sessions for it at once.  It may have one after the other: the session ends when
\* the reply is sent, and a retry of a caller that never got that reply opens a new
\* one, so that the application serves the request again.
MdOneSession == IsInjective([i \in DOMAIN mdRcv["r"] |-> mdRcv["r"][i].sid])

MdBusy(id) == MdHas(mdSnd["c"], id)
\* Every session a caller opens leaves its send queue: a reply, an error, the
\* retries running out or a time-out ends it, whatever the network loses or repeats.
MdEnds == \A id \in 1..MdSessions : MdBusy(id) ~> ~MdBusy(id)

\* tlc_process calls trdp_mdSend and trdp_mdCheckTimeouts in every cycle, and time passes.
MdFair == /\ \A n \in MdNodes : WF_mdVars(MdSend(n)) /\ WF_mdVars(MdCheckTimeouts(n))
          /\ WF_mdVars(MdTick)

\* A request never has two sessions at once with its replier, and one end that its caller learns of,
\* though packets are lost, repeated and sent again (trdp_mdHandleRequest, trdp_mdCheckTimeouts).
MdSound == MdTypeOK /\ MdEndReported /\ MdOneSession
=============================================================================
