------------------------------ MODULE TrdpRecv ------------------------------
(***************************************************************************)
(* A process data subscription (trdp_if.c, trdp_pdcom.c, trdp_utils.c):    *)
(* tlp_subscribe, tlp_unsubscribe, tlp_request, tlp_get, and the receiving *)
(* thread's tlc_process_recv: first trdp_pdHandleTimeOuts, then            *)
(* trdp_pdCheckListenSocks, which calls trdp_pdReceive in a loop.          *)
(*                                                                         *)
(* All of it runs under the session's mutex; holder says which call is in  *)
(* its receive loop.  Times are relative to now, in ticks; -1 stands for   *)
(* every time in the past.  The subscription names one source address, so  *)
(* that the list of sequence counters has one entry per message type.      *)
(***************************************************************************)
EXTENDS TrdpPacket

CONSTANTS
  Timeout,   \* ticks; 0: TRDP_TIMER_FOREVER
  RecvPoll,  \* most ticks between two calls of tlc_process_recv
  Options    \* the values of TRDP_OPTION_BLOCK in use

ASSUME RecvAssumption ==
  /\ Timeout \in Nat /\ RecvPoll \in Nat \ {0}
  /\ Options \subseteq BOOLEAN /\ Options # {}

VARIABLES
  sub,      \* the subscription's element, or NoSub
  rx,       \* the packets in the socket buffer
  rwait,    \* ticks since the receiving thread ran
  holder,   \* "none", "recv" (tlc_process_recv) or "get" (tlp_get)
  blocking, \* TRDP_OPTION_BLOCK
  told      \* what the callback was last called with: "none", "data", "timeout"

recvVars == <<sub, rx, rwait, holder, blocking, told>>

NoSub == [on |-> FALSE]
Entries == [Types -> {-1} \cup Counters]

\* A packet.  ok: its checksum is right; age: ticks since it was sent; live: since
\* then nothing was lost and the publisher did not stop; no: which PD it was of
\* those the publisher sent, -1 for a PP or once the publisher stopped (history).
Pkt == [type : Types, seq : Counters, data : Data, ok : BOOLEAN, age : Nat, live : BOOLEAN,
        no : {-1} \cup Counters]

Sub == [on : {TRUE}, ttg : Int, timedOut : BOOLEAN, invalid : BOOLEAN,
        seqs : Entries, cur : Counters, missed : Counters,
        data : Data, age : Nat]

Subscribed == sub.on
HasTimer == Timeout # 0

----------------------------------------------------------------------------
\* trdp_resetSequenceCounter, called for counter 0, and then
\* trdp_checkSequenceCounter: a packet is ignored when its counter is the last
\* one of the same sender and type, unless that is 0.
Duplicate(m) ==
  LET last == sub.seqs[m.type]
  IN  last \notin {-1, 0} /\ m.seq = last

\* Mutant: a counter that ran over is taken for one that skipped nothing.
SkippedNoWrap(cur, new) ==
  IF new > 0 /\ new > Bump(cur) THEN (new - cur - 1) % CntMod ELSE 0

\* The packets counted as skipped between counters cur and new, unsigned.
Skipped(cur, new) ==
  IF new > 0 /\ new > Bump(cur) THEN (new - cur - 1) % CntMod
  ELSE IF cur > new THEN (CntMod - 1 - cur + new) % CntMod
  ELSE 0

\* Mutant: the timer is not restarted.
AcceptedNoTimer(m) ==
  [sub EXCEPT !.seqs[m.type] = m.seq,
              !.missed = (@ + Skipped(sub.cur, m.seq)) % CntMod,
              !.cur = m.seq, !.timedOut = FALSE, !.invalid = FALSE,
              !.data = m.data, !.age = m.age]

\* The subscription after trdp_pdReceive took the packet over.
Accepted(m) ==
  [sub EXCEPT !.seqs[m.type] = m.seq,
              !.missed = (@ + Skipped(sub.cur, m.seq)) % CntMod,
              !.cur = m.seq,
              !.ttg = Timeout,
              !.timedOut = FALSE, !.invalid = FALSE,
              !.data = m.data, !.age = m.age]

\* Mutant: only changed data are reported.
InformsChange(m) == m.data # sub.data

\* The callback (TRDP_FLAGS_CALLBACK): after a time-out, or for changed data.
Informs(m) == sub.timedOut \/ m.data # sub.data

----------------------------------------------------------------------------
RecvInit ==
  /\ sub = NoSub
  /\ rx = <<>> /\ rwait = 0 /\ holder = "none"
  /\ blocking \in Options
  /\ told = "none"

\* tlp_subscribe
Subscribe ==
  /\ holder = "none" /\ ~Subscribed
  /\ sub' = [on |-> TRUE, ttg |-> Timeout, timedOut |-> FALSE, invalid |-> TRUE,
             seqs |-> [k \in Types |-> -1], cur |-> 0, missed |-> 0,
             data |-> 0, age |-> 0]
  /\ told' = "none"
  /\ UNCHANGED <<rx, rwait, holder, blocking>>

\* tlp_unsubscribe; the socket is closed with its last user.
Unsubscribe ==
  /\ holder = "none" /\ Subscribed
  /\ sub' = NoSub /\ rx' = <<>>
  /\ told' = "none"
  /\ UNCHANGED <<rwait, holder, blocking>>

\* tlp_request: the time-out of the subscription starts afresh.
Request ==
  /\ holder = "none" /\ Subscribed
  /\ sub' = IF HasTimer THEN [sub EXCEPT !.ttg = Timeout, !.timedOut = FALSE] ELSE sub
  /\ UNCHANGED <<rx, rwait, holder, blocking, told>>

\* Mutant: a subscription that never got data does not time out.
LateValidOnly == Subscribed /\ HasTimer /\ sub.ttg <= 0 /\ ~sub.timedOut /\ ~sub.invalid

\* trdp_pdHandleTimeOuts: late and not yet reported.
Late == Subscribed /\ HasTimer /\ sub.ttg <= 0 /\ ~sub.timedOut

\* The sockets in the descriptor set are those of the subscriptions.
Readable == Subscribed /\ rx # <<>>

\* tlc_process_recv begins: time-outs, then the receive loop if the descriptor
\* is ready.  The callback is called before the flag is set, but under the
\* mutex: between the two only a callback could look, and the only one of the
\* repository, ttiPDCallback, does not ask for its subscription.
ProcessRecv ==
  /\ holder = "none"
  /\ sub' = IF Late THEN [sub EXCEPT !.timedOut = TRUE] ELSE sub
  /\ told' = IF Late THEN "timeout" ELSE told
  /\ holder' = IF Readable THEN "recv" ELSE "none"
  /\ rwait' = 0
  /\ UNCHANGED <<rx, blocking>>

\* Mutant: tlp_get trusts the receiving thread to flag what is late.
GetResultNoTime ==
  IF sub.invalid THEN "NODATA" ELSE IF sub.timedOut THEN "TIMEOUT" ELSE "NO_ERR"

\* What tlp_get returns.
GetResult ==
  IF HasTimer /\ sub.ttg < 0 THEN "TIMEOUT"
  ELSE IF sub.invalid THEN "NODATA"
  ELSE IF sub.timedOut THEN "TIMEOUT"
  ELSE "NO_ERR"

\* tlp_get returns GetResult; in non-blocking mode it first reads what it can.
Get ==
  /\ holder = "none" /\ Subscribed /\ ~blocking
  /\ holder' = "get"
  /\ UNCHANGED <<sub, rx, rwait, blocking, told>>

\* After a packet: go on reading in non-blocking mode unless there was an error.
AfterRead(ok) == holder' = IF ok /\ ~blocking THEN holder ELSE "none"

\* trdp_pdReceive: a bad checksum.
ReadCorrupt ==
  /\ holder \in {"recv", "get"} /\ rx # <<>> /\ ~Head(rx).ok
  /\ rx' = Tail(rx)
  /\ AfterRead(FALSE)
  /\ UNCHANGED <<sub, rwait, blocking, told>>

\* trdp_pdReceive: no memory for the list of senders.
ReadNoMem ==
  /\ holder \in {"recv", "get"} /\ rx # <<>> /\ Head(rx).ok
  /\ \A k \in Types : sub.seqs[k] = -1
  /\ rx' = Tail(rx)
  /\ AfterRead(FALSE)
  /\ UNCHANGED <<sub, rwait, blocking, told>>

\* trdp_pdReceive: ignored.
ReadDuplicate ==
  /\ holder \in {"recv", "get"} /\ rx # <<>> /\ Head(rx).ok /\ Duplicate(Head(rx))
  /\ rx' = Tail(rx)
  /\ AfterRead(TRUE)
  /\ UNCHANGED <<sub, rwait, blocking, told>>

\* trdp_pdReceive: taken over.
ReadAccept ==
  /\ holder \in {"recv", "get"} /\ rx # <<>> /\ Head(rx).ok /\ ~Duplicate(Head(rx))
  /\ sub' = Accepted(Head(rx))
  /\ told' = IF Informs(Head(rx)) THEN "data" ELSE told
  /\ rx' = Tail(rx)
  /\ AfterRead(TRUE)
  /\ UNCHANGED <<rwait, blocking>>

\* The socket is empty: the receive loop ends.
ReadEmpty ==
  /\ holder \in {"recv", "get"} /\ rx = <<>>
  /\ holder' = "none"
  /\ UNCHANGED <<sub, rx, rwait, blocking, told>>

\* One tick; the receiving thread is never more than RecvPoll ticks late.
RecvTick(maxAge) ==
  /\ holder = "none"
  /\ rwait < RecvPoll
  /\ rwait' = rwait + 1
  /\ sub' = IF ~Subscribed THEN sub
            ELSE [sub EXCEPT !.ttg = IF HasTimer /\ @ >= 0 THEN @ - 1 ELSE @,
                             !.age = IF @ < maxAge THEN @ + 1 ELSE @]
  /\ rx' = [i \in DOMAIN rx |-> [rx[i] EXCEPT !.age = IF @ < maxAge THEN @ + 1 ELSE @]]
  /\ UNCHANGED <<holder, blocking, told>>

=============================================================================
