---------------------------- MODULE PtpTransparent ----------------------------
(***************************************************************************)
(* linuxptp as a transparent clock (tc.c, e2e_tc.c, p2p_tc.c): every        *)
(* message is passed on to the other ports, the time an event message       *)
(* stayed in the clock is kept in a descriptor of the egress port           *)
(* (tc_transmitted) and added to the correction of the Follow_Up or of the  *)
(* Delay_Resp that belongs to it, whichever of the two comes first.         *)
(*                                                                         *)
(* A residence time is what it was measured of: the message, the port it    *)
(* came in by and the port it left by.  A correction is the sequence of     *)
(* residence times that were added.                                         *)
(***************************************************************************)
EXTENDS Integers, Sequences, FiniteSets, SequencesExt

CONSTANTS XcPorts,      \* number of ports
          XcSources,    \* masters whose Sync messages pass
          XcSeqs,       \* sequence numbers
          XcArrivals,   \* messages that arrive (bound)
          XcModes       \* subset of {"E2E", "P2P"}

ASSUME XcAssumption == XcPorts \in Nat \ {0}

VARIABLES xcMode,       \* e2e_event or p2p_event
          xcTree,       \* tc_spanning_tree
          xcState,      \* state of each port: "SLAVE", "MASTER", "PASSIVE", "FAULTY"
          xcList,       \* tc_transmitted of each port
          xcSteps,      \* history: messages so far
          xcWrong,      \* history: a Follow_Up or Delay_Resp left with another correction than its own
          xcCorrupt     \* a descriptor was put back into the pool twice

xcVars == <<xcMode, xcTree, xcState, xcList, xcSteps, xcWrong, xcCorrupt>>

XcAll == [i \in 1 .. XcPorts |-> i]
\* The messages.  src is the master of a Sync or Follow_Up, the port that asks of a Delay_Req or Delay_Resp.
XcMsg(type, src, seq) == [type |-> type, src |-> src, seq |-> seq]
XcResidence(m, q, p) == [type |-> m.type, src |-> m.src, seq |-> m.seq, in |-> q, out |-> p]

\* tc_blocked, of the clock's own domain: does m that came in by q not leave by p?
XcBlocked(state, q, p, m) ==
  \/ q = p
  \/ /\ xcTree
     /\ \/ state[q] \in {"FAULTY", "PASSIVE"} \/ state[p] \in {"FAULTY", "PASSIVE"}
        \/ state[q] = "MASTER" /\ m.type # "DELAY_REQ"
        \/ state[p] = "SLAVE" /\ m.type # "DELAY_REQ"
        \/ state[p] = "MASTER" /\ m.type = "DELAY_REQ"

(***************************************************************************)
(* tc_complete.  s is the state of the clock while the loop over the ports  *)
(* runs: the lists, the ports' states and the correction of the message.    *)
(***************************************************************************)
\* tc_flush and port_disable, when port_dispatch takes the port out of service; it does nothing to a
\* port that is out of service already.
XcFault(s, p) == IF s.state[p] = "FAULTY" THEN s ELSE [s EXCEPT !.state[p] = "FAULTY", !.list[p] = << >>]
XcKeep(s, q, p, m, res) == [s EXCEPT !.list[p] = Append(@, [m |-> m, res |-> res, in |-> q])]
\* tc_match_syfup
XcMatchSyfup(q, m, txd) ==
  txd.in = q /\ txd.m.seq = m.seq /\ txd.m.src = m.src /\ {txd.m.type, m.type} = {"SYNC", "FOLLOW_UP"}
\* tc_match_delay: the request left by the port the response came in by
XcMatchDelay(p, m, txd) ==
  txd.in = p /\ txd.m.seq = m.seq /\ txd.m.src = m.src /\ txd.m.type = "DELAY_REQ" /\ m.type = "DELAY_RESP"
XcFirst(list, Match(_)) == {i \in DOMAIN list : Match(list[i]) /\ \A j \in 1 .. i - 1 : ~Match(list[j])}
\* Mutant: a message keeps what was added for one port when it is sent to the next.
XcRestoredNot(before, after) == after
\* The correction of the message after it has been sent
XcRestored(before, after) == before
\* What is sent by port p must bear the residence time of its own event message, and no other.
XcOwn(corr, m, q, p) ==
  corr = <<IF m.type = "DELAY_RESP" THEN XcResidence(XcMsg("DELAY_REQ", m.src, m.seq), p, q)
           ELSE XcResidence(XcMsg("SYNC", m.src, m.seq), q, p)>>
\* tc_complete_syfup: Sync and Follow_Up wait for each other.  When the Follow_Up cannot be sent the
\* fault of the port has already put the descriptor back into the pool, and it is put there again.
XcCompleteSyfup(s, q, p, m, res, sends) ==
  LET Match(txd) == XcMatchSyfup(q, m, txd)
      found == XcFirst(s.list[p], Match) IN
  IF found = {} THEN XcKeep(s, q, p, m, res)
  ELSE LET i == CHOOSE j \in found : TRUE
           txd == s.list[p][i]
           residence == IF m.type = "FOLLOW_UP" THEN txd.res ELSE res
           corr == Append(IF m.type = "FOLLOW_UP" THEN s.corr ELSE << >>, residence)
           t == [s EXCEPT !.corr = IF m.type = "FOLLOW_UP" THEN XcRestored(@, corr) ELSE @,
                          !.wrong = @ \/ (sends /\ ~XcOwn(corr, m, q, p))] IN
       IF sends \/ s.state[p] = "FAULTY" THEN [t EXCEPT !.list[p] = RemoveAt(@, i)]
       ELSE [XcFault(t, p) EXCEPT !.corrupt = TRUE]
\* tc_complete_request
XcCompleteRequest(s, q, p, m, res) == XcKeep(s, q, p, m, res)
\* tc_complete_response: only to the port the request came in by
XcCompleteResponse(s, q, p, m, sends) ==
  LET Match(txd) == XcMatchDelay(p, m, txd)
      found == XcFirst(s.list[q], Match) IN
  IF found = {} THEN s
  ELSE LET i == CHOOSE j \in found : TRUE
           corr == Append(s.corr, s.list[q][i].res)
           t == IF sends THEN s ELSE XcFault(s, p) IN
       [t EXCEPT !.list[q] = RemoveAt(@, i), !.corr = XcRestored(@, corr),
                 !.wrong = @ \/ (sends /\ ~XcOwn(corr, m, q, p))]
\* tc_complete
XcComplete(s, q, p, m, res, sends) ==
  CASE m.type \in {"SYNC", "FOLLOW_UP"} -> XcCompleteSyfup(s, q, p, m, res, sends)
    [] m.type = "DELAY_REQ" -> XcCompleteRequest(s, q, p, m, res)
    [] m.type = "DELAY_RESP" -> XcCompleteResponse(s, q, p, m, sends)

\* tc_fwd_event: sent by all ports, then the time stamps are fetched.  bad is the port where sending or
\* the time stamp fails (0 if none); without a spanning tree a FAULTY port is tried all the same.  lost
\* is the port where sending fails for a Follow_Up that waited for this Sync.
XcFwdEvent(s, q, m, bad, lost) ==
  LET step(t, p) ==
        IF XcBlocked(t.state, q, p, m) THEN t
        ELSE IF p = bad \/ t.state[p] = "FAULTY" THEN XcFault(t, p)
        ELSE XcComplete(t, q, p, m, XcResidence(m, q, p), p # lost) IN
  FoldLeft(step, s, XcAll)
\* tc_fwd_folup, tc_fwd_response
XcFwdGeneral(s, q, m, bad) ==
  LET step(t, p) ==
        IF XcBlocked(t.state, q, p, m) THEN t
        ELSE XcComplete(t, q, p, m, << >>, p # bad /\ t.state[p] # "FAULTY") IN
  FoldLeft(step, s, XcAll)
\* tc_fwd_sync: a one-step Sync becomes a two-step Sync with a Follow_Up.  lost is the port where a
\* Follow_Up, the one that waited or the one that is made, cannot be sent.
XcFwdSync(s, q, m, one, bad, lost) ==
  LET t == XcFwdEvent(s, q, m, bad, lost) IN
  IF one THEN XcFwdGeneral(t, q, XcMsg("FOLLOW_UP", m.src, m.seq), lost) ELSE t
\* tc_forward
XcForward(s, q, m, bad) == IF bad # 0 /\ ~XcBlocked(s.state, q, bad, m) THEN XcFault(s, bad) ELSE s

(***************************************************************************)
(* e2e_event, p2p_event: a message arrives at port q                       *)
(***************************************************************************)
XcNow == [list |-> xcList, state |-> xcState, corr |-> << >>, wrong |-> xcWrong, corrupt |-> FALSE]
XcThen(s) ==
  /\ xcList' = s.list /\ xcState' = s.state /\ xcWrong' = s.wrong /\ xcCorrupt' = s.corrupt
  /\ UNCHANGED <<xcMode, xcTree>>
XcArrives(q) ==
  /\ ~xcCorrupt /\ xcState[q] # "FAULTY"
  /\ xcSteps < XcArrivals /\ xcSteps' = xcSteps + 1
XcSync(q, src, seq, one, bad, lost) ==
  XcArrives(q) /\ XcThen(XcFwdSync(XcNow, q, XcMsg("SYNC", src, seq), one, bad, lost))
XcFollowUp(q, src, seq, bad) ==
  XcArrives(q) /\ XcThen(XcFwdGeneral(XcNow, q, XcMsg("FOLLOW_UP", src, seq), bad))
XcDelayReq(q, seq, bad) ==
  xcMode = "E2E" /\ XcArrives(q) /\ XcThen(XcFwdEvent(XcNow, q, XcMsg("DELAY_REQ", "slave", seq), bad, 0))
XcDelayResp(q, seq, bad) ==
  xcMode = "E2E" /\ XcArrives(q) /\ XcThen(XcFwdGeneral(XcNow, q, XcMsg("DELAY_RESP", "slave", seq), bad))
\* Announce, Signaling, Management
XcGeneral(q, bad) == XcArrives(q) /\ XcThen(XcForward(XcNow, q, XcMsg("ANNOUNCE", "m", 0), bad))
\* The delay timer of a port: tc_prune drops the descriptors that are older than a second
XcPrune(p, n) ==
  /\ ~xcCorrupt /\ xcState[p] # "FAULTY" /\ n \in 1 .. Len(xcList[p])
  /\ xcList' = [xcList EXCEPT ![p] = SubSeq(@, n + 1, Len(@))]
  /\ UNCHANGED <<xcMode, xcTree, xcState, xcSteps, xcWrong, xcCorrupt>>
\* e2e_dispatch, p2p_dispatch: the state machine (PtpBmc) takes the port to another state
XcDispatch(p, state) ==
  /\ ~xcCorrupt /\ state # xcState[p]
  /\ xcSteps < XcArrivals /\ xcSteps' = xcSteps + 1
  /\ xcState' = [xcState EXCEPT ![p] = state]
  /\ xcList' = [xcList EXCEPT ![p] = IF state = "FAULTY" THEN << >> ELSE @]
  /\ UNCHANGED <<xcMode, xcTree, xcWrong, xcCorrupt>>

XcInit ==
  /\ xcMode \in XcModes /\ xcTree \in BOOLEAN
  /\ xcState = [p \in 1 .. XcPorts |-> IF p = 1 THEN "SLAVE" ELSE "MASTER"]
  /\ xcList = [p \in 1 .. XcPorts |-> << >>]
  /\ xcSteps = 0 /\ xcWrong = FALSE /\ xcCorrupt = FALSE
XcNext ==
  \/ \E q \in 1 .. XcPorts, bad \in 0 .. XcPorts :
       \/ XcGeneral(q, bad)
       \/ \E seq \in XcSeqs : XcDelayReq(q, seq, bad) \/ XcDelayResp(q, seq, bad)
       \/ \E seq \in XcSeqs, src \in XcSources :
            \/ XcFollowUp(q, src, seq, bad)
            \/ \E one \in BOOLEAN, lost \in 0 .. XcPorts : XcSync(q, src, seq, one, bad, lost)
  \/ \E p \in 1 .. XcPorts : \/ \E n \in 1 .. XcArrivals : XcPrune(p, n)
                             \/ \E s \in {"SLAVE", "MASTER", "PASSIVE", "FAULTY"} : XcDispatch(p, s)

XcSpec == XcInit /\ [][XcNext]_xcVars

(***************************************************************************)
(* Properties                                                              *)
(***************************************************************************)
\* A Follow_Up or Delay_Resp leaves the clock with the residence time of its own Sync or Delay_Req,
\* measured between the same two ports, added exactly once: with several Sync messages and requests under way,
\* messages repeated and out of order, ports that fail in the middle (tc_complete_syfup,
\* tc_complete_response).
XcSound == ~xcWrong
==============================================================================
