------------------------------- MODULE TrdpTcp ------------------------------
(***************************************************************************)
(* Message data over TCP (trdp_mdcom.c, trdp_utils.c, vos_sock.c): the     *)
(* socket a caller's sessions share, sending in pieces, the time-outs of   *)
(* sending and of an unused connection; at the other end the accepted      *)
(* socket and the message put together in uncompletedTCP[].                *)
(*                                                                         *)
(* A message is TcpLen units, the first TcpHdr of them its header.  One    *)
(* corner calls, so there is one slot of iface[] at each end.              *)
(***************************************************************************)
EXTENDS Integers, Sequences, SequencesExt, FiniteSetsExt

CONSTANTS TcpCalls,    \* sessions the caller opens (bound)
          TcpLen, TcpHdr,
          TcpConns     \* connections set up in a behaviour (bound)

ASSUME TcpAssumption ==
  /\ TcpCalls \in Nat \ {0} /\ TcpHdr \in Nat \ {0} /\ TcpLen \in Nat /\ TcpHdr < TcpLen
  /\ TcpConns \in Nat \ {0}

VARIABLES
  tcQueue,  \* the caller's pMDSndQueue
  tcSock,   \* the caller's slot
  tcAt,     \* the element trdp_mdSend has come to, 0 outside it
  tcWire,   \* the units on the open connection
  tcConn,   \* [no, up]: the connection of the caller's socket
  tcSlot,   \* the replier's slot: the number of the connection it holds, or 0
  tcUnc,    \* uncompletedTCP[] of that slot
  tcGot,    \* the last message given to the replier's session
  tcOpened, \* sessions opened so far
  tcCut     \* a connection ended with a message or a session half done (history)

tcVars == <<tcQueue, tcSock, tcAt, tcWire, tcConn, tcSlot, tcUnc, tcGot, tcOpened, tcCut>>

TcpNoSock == [open |-> FALSE, usage |-> 0, notSend |-> FALSE, sendNotOk |-> "off",
              unused |-> "off"]
TcpNoConn == [no |-> 0, up |-> FALSE]

----------------------------------------------------------------------------

\* trdp_requestSocket for a caller: the open socket to the same corner, or a new one.
TcpRequestSocket == IF tcSock.open THEN [tcSock EXCEPT !.usage = @ + 1]
                    ELSE [TcpNoSock EXCEPT !.open = TRUE, !.usage = 1]

\* trdp_mdCall and trdp_mdConnectSocket: the first user of a socket connects it.
TcpCall ==
  /\ tcAt = 0 /\ tcOpened < TcpCalls
  /\ tcOpened' = tcOpened + 1
  /\ tcSock' = TcpRequestSocket
  /\ tcQueue' = Append(tcQueue, [id |-> tcOpened', sent |-> 0, doConnect |-> tcSock'.usage <= 1,
                                 part |-> FALSE, st |-> "arm", morituri |-> FALSE])
  /\ UNCHANGED <<tcAt, tcWire, tcConn, tcSlot, tcUnc, tcGot, tcCut>>

\* trdp_releaseSocket: the last user of a socket starts its time-out; a closed slot is left alone.
TcpRelease(sock) ==
  IF ~sock.open THEN sock
  ELSE IF sock.usage > 1 THEN [sock EXCEPT !.usage = @ - 1]
  ELSE [sock EXCEPT !.usage = 0, !.unused = "running"]

\* trdp_mdCloseSessions: a session that is to die leaves the queue and releases the socket.
TcpClosed(st, e) == IF e.morituri THEN [st EXCEPT !.sock = TcpRelease(@)]
                    ELSE [st EXCEPT !.queue = Append(@, e)]
TcpClosing(q, sock) == FoldLeft(TcpClosed, [queue |-> << >>, sock |-> sock], q)

\* With dead, the socket is closed first.
TcpClose(q, sock, dead) ==
  LET left == TcpClosing(q, IF dead THEN TcpNoSock ELSE sock)
  IN  /\ tcSock' = left.sock /\ tcQueue' = left.queue
      /\ tcConn' = IF dead THEN [tcConn EXCEPT !.up = FALSE] ELSE tcConn
      /\ tcCut' = (tcCut \/ (dead /\ tcConn.up /\ (tcWire \o tcUnc # << >>)))

TcpAllDie == [i \in DOMAIN tcQueue |-> [tcQueue[i] EXCEPT !.morituri = TRUE]]

----------------------------------------------------------------------------
\* trdp_mdSend, element by element.
TcpSendStart ==
  /\ tcAt = 0 /\ tcQueue # << >> /\ tcAt' = 1
  /\ UNCHANGED <<tcQueue, tcSock, tcWire, tcConn, tcSlot, tcUnc, tcGot, tcOpened, tcCut>>

TcpEle == tcQueue[tcAt]
TcpPassing == tcAt \in DOMAIN tcQueue
\* Mutant: an element does not wait for the message another one is in the middle of.
TcpSendsAnyway == TcpEle.st = "arm"

\* An element may send: nobody else is in the middle of a message.
TcpSends == TcpEle.st = "arm" /\ (~tcSock.notSend \/ TcpEle.part)

TcpSkip ==
  /\ TcpPassing /\ TcpEle.st # "arm"
  /\ tcAt' = tcAt + 1
  /\ UNCHANGED <<tcQueue, tcSock, tcWire, tcConn, tcSlot, tcUnc, tcGot, tcOpened, tcCut>>

\* vos_sockConnect: done, in progress (the element waits for the next pass), or
\* refused (the session ends and the sending time-out starts).
TcpConnect ==
  /\ TcpPassing /\ TcpEle.st = "arm" /\ TcpEle.doConnect /\ tcSock.open
  /\ \/ /\ tcQueue' = [tcQueue EXCEPT ![tcAt].doConnect = FALSE]
        /\ \/ tcConn.up /\ UNCHANGED <<tcConn, tcWire>>
           \/ /\ ~tcConn.up /\ tcConn.no < TcpConns
              /\ tcConn' = [no |-> tcConn.no + 1, up |-> TRUE] /\ tcWire' = << >>
        /\ \E progress \in {0, 1} : tcAt' = tcAt + progress
        /\ UNCHANGED tcSock
     \/ /\ ~tcConn.up
        /\ tcQueue' = [tcQueue EXCEPT ![tcAt].morituri = TRUE]
        /\ tcSock' = [tcSock EXCEPT !.sendNotOk = IF @ = "off" THEN "running" ELSE @]
        /\ tcAt' = tcAt + 1
        /\ UNCHANGED <<tcConn, tcWire>>
  /\ UNCHANGED <<tcSlot, tcUnc, tcGot, tcOpened, tcCut>>

\* Another element is in the middle of its message.
TcpHeldBack ==
  /\ TcpPassing /\ TcpEle.st = "arm" /\ ~TcpEle.doConnect /\ ~TcpSends
  /\ tcAt' = tcAt + 1
  /\ UNCHANGED <<tcQueue, tcSock, tcWire, tcConn, tcSlot, tcUnc, tcGot, tcOpened, tcCut>>

TcpUnits(e, n) == [j \in 1..n |-> <<e.id, e.sent + j>>]

\* trdp_mdSendPacket, vos_sockSendTCP: the rest of the message goes out.
TcpSendAll ==
  /\ TcpPassing /\ ~TcpEle.doConnect /\ TcpSends /\ tcConn.up
  /\ tcWire' = tcWire \o TcpUnits(TcpEle, TcpLen - TcpEle.sent)
  /\ tcQueue' = [tcQueue EXCEPT ![tcAt] = [@ EXCEPT !.sent = TcpLen, !.part = FALSE, !.st = "wait"]]
  /\ tcSock' = [tcSock EXCEPT !.notSend = FALSE, !.sendNotOk = "off"]
  /\ tcAt' = tcAt + 1
  /\ UNCHANGED <<tcConn, tcSlot, tcUnc, tcGot, tcOpened, tcCut>>

\* TRDP_IO_ERR: some units went out; the element goes on in the next pass.
TcpSendPart ==
  /\ TcpPassing /\ ~TcpEle.doConnect /\ TcpSends /\ tcConn.up
  /\ \E n \in 0..(TcpLen - TcpEle.sent - 1) :
        /\ tcWire' = tcWire \o TcpUnits(TcpEle, n)
        /\ tcQueue' = [tcQueue EXCEPT ![tcAt] = [@ EXCEPT !.sent = TcpEle.sent + n, !.part = TRUE]]
  /\ tcSock' = [tcSock EXCEPT !.notSend = TRUE,
                              !.sendNotOk = IF @ = "off" THEN "running" ELSE @]
  /\ tcAt' = tcAt + 1
  /\ UNCHANGED <<tcConn, tcSlot, tcUnc, tcGot, tcOpened, tcCut>>

\* Any other error, a full socket buffer included (TRDP_BLOCK_ERR): every session of
\* the socket ends, and the socket is closed at the end of the pass.
TcpSendFails ==
  /\ TcpPassing /\ TcpSends /\ ~(TcpEle.doConnect /\ tcSock.open)
  /\ tcAt' = 0
  /\ \E n \in IF tcConn.up THEN {0, TcpHdr} ELSE {0} :
        /\ n <= TcpLen - TcpEle.sent
        /\ tcWire' = tcWire \o TcpUnits(TcpEle, n)
        /\ tcCut' = (tcCut \/ TcpEle.sent + n > 0 \/ tcUnc # << >>)
  /\ tcQueue' = << >> /\ tcSock' = TcpNoSock /\ tcConn' = [tcConn EXCEPT !.up = FALSE]
  /\ UNCHANGED <<tcSlot, tcUnc, tcGot, tcOpened>>

TcpSendEnd ==
  /\ tcAt > Len(tcQueue) /\ tcAt' = 0
  /\ TcpClose(tcQueue, tcSock, FALSE)
  /\ UNCHANGED <<tcWire, tcSlot, tcUnc, tcGot, tcOpened>>

----------------------------------------------------------------------------
\* trdp_mdCheckTimeouts: reply time-outs, the unused connection, the stuck message;
\* trdp_mdTimeOutStateHandler ends a TCP session at once.
TcpReplyTimeout ==
  /\ tcAt = 0
  /\ \E i \in DOMAIN tcQueue :
        tcQueue[i].st = "wait" /\ TcpClose([tcQueue EXCEPT ![i].morituri = TRUE], tcSock, FALSE)
  /\ UNCHANGED <<tcAt, tcWire, tcSlot, tcUnc, tcGot, tcOpened>>

TcpUnusedTimeout ==
  /\ tcAt = 0 /\ tcSock.open /\ tcSock.usage = 0 /\ tcSock.unused = "over"
  /\ TcpClose(tcQueue, tcSock, TRUE)
  /\ UNCHANGED <<tcAt, tcWire, tcSlot, tcUnc, tcGot, tcOpened>>

TcpSendingTimeout ==
  /\ tcAt = 0 /\ tcSock.open /\ tcSock.sendNotOk = "over"
  /\ TcpClose(TcpAllDie, tcSock, TRUE)
  /\ UNCHANGED <<tcAt, tcWire, tcSlot, tcUnc, tcGot, tcOpened>>

TcpTick ==
  /\ tcAt = 0 /\ "running" \in {tcSock.unused, tcSock.sendNotOk}
  /\ tcSock' = [tcSock EXCEPT !.unused = IF @ = "running" THEN "over" ELSE @,
                              !.sendNotOk = IF @ = "running" THEN "over" ELSE @]
  /\ UNCHANGED <<tcQueue, tcAt, tcWire, tcConn, tcSlot, tcUnc, tcGot, tcOpened, tcCut>>

\* A reply comes back on the connection: trdp_mdRecv ends the session.
TcpReplied ==
  /\ tcAt = 0 /\ tcConn.up /\ tcSlot = tcConn.no
  /\ \E i \in DOMAIN tcQueue :
        tcQueue[i].st = "wait" /\ tcQueue' = [tcQueue EXCEPT ![i].morituri = TRUE, ![i].st = "replied"]
  /\ UNCHANGED <<tcSock, tcAt, tcWire, tcConn, tcSlot, tcUnc, tcGot, tcOpened, tcCut>>

\* tlm_abortSession
TcpAbort ==
  /\ tcAt = 0
  /\ \E i \in DOMAIN tcQueue :
        /\ ~tcQueue[i].morituri /\ tcQueue' = [tcQueue EXCEPT ![i].morituri = TRUE]
        /\ tcCut' = (tcCut \/ tcQueue[i].part)
  /\ UNCHANGED <<tcSock, tcAt, tcWire, tcConn, tcSlot, tcUnc, tcGot, tcOpened>>

----------------------------------------------------------------------------
\* trdp_mdCheckListenSocks, accepting: a connection of a corner that still has a
\* slot in use is neither stored nor closed.
TcpAccept ==
  /\ tcConn.up /\ tcSlot = 0 /\ tcSlot' = tcConn.no
  /\ UNCHANGED <<tcQueue, tcSock, tcAt, tcWire, tcConn, tcUnc, tcGot, tcOpened, tcCut>>

\* The replier's slot is closed.
TcpHangUp == tcSlot' = 0 /\ tcConn' = [tcConn EXCEPT !.up = FALSE]

TcpHeaderOK(u) == \A j \in 1..TcpHdr : u[j] = <<u[1][1], j>>

\* How many units trdp_mdRecvTCPPacket asks for and gets: what is missing of the
\* header, then what is missing of the data its length field announces.
TcpAvail == Min({Len(tcWire), TcpLen - Len(tcUnc)})

\* The header was completed by this read and is not one: the socket is given up,
\* what the slot holds stays.  What is checked is not what the slot holds but the
\* buffer of the session, pMDRcvEle, which all sockets share: mixed says that the
\* packet of another one was read into it since.
TcpLateHeader(got, mixed) ==
  /\ Len(tcUnc) \in 1..(TcpHdr - 1) /\ Len(got) >= TcpHdr
  /\ mixed \/ ~TcpHeaderOK(got)

\* A message is put together from what the slot held and what was read.
TcpStore(got) == tcUnc' = got /\ UNCHANGED <<tcSlot, tcConn, tcGot>>

\* trdp_mdRecvPacket: a complete message is checked, and given to its session or
\* the connection is closed.
TcpComplete(got) ==
  /\ tcUnc' = << >>
  /\ IF TcpHeaderOK(got) THEN tcGot' = got /\ UNCHANGED <<tcSlot, tcConn>>
                         ELSE TcpHangUp /\ UNCHANGED tcGot

\* trdp_mdRecvTCPPacket
TcpRead ==
  LET n == TcpAvail
      got == tcUnc \o SubSeq(tcWire, 1, n)
  IN  /\ tcSlot # 0 /\ tcSlot = tcConn.no /\ n > 0
      /\ tcWire' = SubSeq(tcWire, n + 1, Len(tcWire))
      /\ \E mixed \in BOOLEAN :
            /\ CASE TcpLateHeader(got, mixed) -> TcpHangUp /\ UNCHANGED <<tcUnc, tcGot>>
                 [] ~TcpLateHeader(got, mixed) /\ Len(got) < TcpLen -> TcpStore(got)
                 [] OTHER -> TcpComplete(got)
            /\ tcCut' = (tcCut \/ TcpLateHeader(got, mixed))
      /\ UNCHANGED <<tcQueue, tcSock, tcAt, tcOpened>>

\* TRDP_NODATA_ERR: the other corner closed; the slot is cleared, uncompletedTCP[] is not.
TcpEndOfStream ==
  /\ tcSlot # 0 /\ (tcSlot # tcConn.no \/ (~tcConn.up /\ tcWire = << >>))
  /\ tcSlot' = 0
  /\ tcCut' = (tcCut \/ tcUnc # << >>)
  /\ UNCHANGED <<tcQueue, tcSock, tcAt, tcWire, tcConn, tcUnc, tcGot, tcOpened>>

\* The caller reads the end of the stream: its slot is cleared, but the sessions keep
\* the slot's index until their own time-outs.
TcpCallerEof ==
  /\ tcAt = 0 /\ tcSock.open /\ tcConn.no > 0 /\ ~tcConn.up /\ tcSlot = 0
  /\ \A i \in DOMAIN tcQueue : ~tcQueue[i].doConnect
  /\ LET left == TcpClosing(tcQueue, TcpNoSock) IN tcSock' = left.sock /\ tcQueue' = left.queue
  /\ UNCHANGED <<tcAt, tcWire, tcConn, tcSlot, tcUnc, tcGot, tcOpened, tcCut>>

TcpInit ==
  /\ tcQueue = << >> /\ tcSock = TcpNoSock /\ tcAt = 0 /\ tcWire = << >>
  /\ tcConn = TcpNoConn /\ tcSlot = 0 /\ tcUnc = << >> /\ tcGot = << >>
  /\ tcOpened = 0 /\ tcCut = FALSE

TcpNext ==
  \/ TcpCall \/ TcpSendStart \/ TcpSkip \/ TcpConnect \/ TcpHeldBack
  \/ TcpSendAll \/ TcpSendPart \/ TcpSendFails \/ TcpSendEnd
  \/ TcpReplyTimeout \/ TcpUnusedTimeout \/ TcpSendingTimeout \/ TcpTick
  \/ TcpReplied \/ TcpAbort \/ TcpAccept \/ TcpRead \/ TcpEndOfStream \/ TcpCallerEof

TcpSpec == TcpInit /\ [][TcpNext]_tcVars

----------------------------------------------------------------------------
TcpWhole(u) == u = << >> \/ \A j \in 1..TcpLen : u[j] = <<u[1][1], j>>

\* While no connection is cut, the messages of the sessions that share a connection
\* never mix, however sending is broken up: each is received as it was sent.
TcpFraming == tcCut \/ TcpWhole(tcGot)

\* Not kept (the comment at trdp_mdcom.c:1281): whatever is received is a message as sent.  A
\* connection that is cut leaves the beginning of a message in uncompletedTCP.
TcpAlwaysWhole == TcpWhole(tcGot)

\* Until a connection is cut the socket's usage counter is the number of the sessions
\* that use it, so that it is closed as unused exactly when it is.
TcpUsageExact == ~tcCut /\ tcSock.open => tcSock.usage = Len(tcQueue)

\* Sessions may share a connection: their messages stay apart and the socket is open for exactly as
\* long as one of them uses it (trdp_mdSend, trdp_requestSocket, trdp_releaseSocket).
TcpSound == TcpFraming /\ TcpUsageExact
=============================================================================
