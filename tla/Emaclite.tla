------------------------------ MODULE Emaclite ------------------------------
(***************************************************************************)
(* The EmacLite driver (xilinx_emaclite.c): two transmit and two receive    *)
(* buffers in the device, used alternately when they are ping-pong, one     *)
(* deferred skb when both transmit buffers are taken, one interrupt for     *)
(* both directions that takes no lock, and the MDIO registers behind a busy *)
(* bit.  The handler is one step: on one processor nothing but the device   *)
(* runs beside it, and what the device does counts as before or after it.   *)
(***************************************************************************)
EXTENDS Integers, Sequences, SequencesExt

CONSTANTS EmSmp,       \* the interrupt may run on another processor than the sender
          EmPong,      \* xlnx,tx-ping-pong and xlnx,rx-ping-pong
          EmLens,      \* what the frames on the wire carry after the Ethernet header
          EmSkbs,      \* frames handed over for sending (bound)
          EmFrames     \* frames received (bound)

VARIABLES emTx,        \* transmit buffers: "free", "busy", "active" (sent, not yet acknowledged)
          emNextTx,    \* next_tx_buf_to_use
          emDeferred,  \* deferred_skb, 0 when none
          emStopped,   \* the transmit queue is stopped
          emPc,        \* the sender: "idle", or "failed" between the failed try and the deferral
          emSent,      \* history: skbs the driver wrote to the device
          emGiven,     \* skbs the stack has handed over
          emRx,        \* receive buffers: << >> or <<frame>>
          emHwRx,      \* buffer the device fills next
          emNextRx,    \* next_rx_buf_to_use
          emUp,        \* history: the frame handed to the stack last, and the number of the one before it
          emCame,      \* frames that came over the wire
          emIrq,       \* the interrupt is asserted
          emMissed,    \* history: a buffer was sent while the interrupts were off, and no handler has run since
          emDev,       \* "none", "probed", "open"
          emMii,       \* an MDIO bus is registered
          emMdio,      \* MDIOSTS: the MDIO transfer is under way
          emLeft,      \* history: an skb was left behind by close
          emOff        \* history: device and driver did not start at the same receive buffer

emTxVars == <<emTx, emNextTx, emDeferred, emStopped, emPc, emSent, emGiven, emLeft>>
emRxVars == <<emRx, emHwRx, emNextRx, emUp, emCame, emOff>>
emVars == <<emTxVars, emRxVars, emIrq, emMissed, emDev, emMii, emMdio>>

EmOther(b) == 1 - b
EmHlen == 14
EmFcs == 4
EmDataLen == 1500

ASSUME EmAssumption == EmLens \subseteq 0..EmDataLen

\* xemaclite_send_data: the expected buffer, else the other one without turning; -1 is
\* when neither is free.
EmSendData(st, f) ==
  IF st.tx[st.next] = "free"
  THEN [st EXCEPT !.tx[st.next] = "busy", !.next = IF EmPong THEN EmOther(@) ELSE @, !.sent = Append(@, f), !.rc = 0]
  ELSE IF EmPong /\ st.tx[EmOther(st.next)] = "free"
       THEN [st EXCEPT !.tx[EmOther(st.next)] = "busy", !.sent = Append(@, f), !.rc = 0]
       ELSE [st EXCEPT !.rc = -1]
EmTxSt == [tx |-> emTx, next |-> emNextTx, sent |-> emSent, deferred |-> emDeferred, stopped |-> emStopped, rc |-> 0]
EmTxBecomes(st) ==
  /\ emTx' = st.tx /\ emNextTx' = st.next /\ emSent' = st.sent
  /\ emDeferred' = st.deferred /\ emStopped' = st.stopped

\* xemaclite_aligned_read: whole words are copied; of one to three bytes that remain only
\* the first is, because neither pointer moves.  Result: bytes that are right.
EmAlignedRead(len) == (len - (len % 4)) + (IF len % 4 = 0 THEN 0 ELSE 1)

\* The length of a frame from its type field: the IP header's length, an ARP packet, the
\* 802.3 length, or the longest frame.
EmRecvLength(f) ==
  CASE f.type = "ip" -> (IF f.len > EmDataLen THEN EmDataLen ELSE f.len) + EmHlen + EmFcs
    [] f.type = "arp" -> 28 + EmHlen + EmFcs
    [] f.type = "len" -> f.len + EmHlen + EmFcs
    [] OTHER -> EmDataLen + EmHlen + EmFcs

\* xemaclite_recv_data: the expected buffer when it is done, and then the other is expected;
\* else the other one, the same buffer staying expected.
EmRecvData(st) ==
  LET mine == st.rx[st.next] # << >>
      b == IF mine \/ ~EmPong THEN st.next ELSE EmOther(st.next)
  IN  IF st.rx[b] = << >> THEN st
      ELSE [st EXCEPT !.rx[b] = << >>, !.next = IF mine /\ EmPong THEN EmOther(@) ELSE @,
                      !.up = [frame |-> st.rx[b][1], before |-> @.frame.id,
                               good |-> EmAlignedRead(EmRecvLength(st.rx[b][1]))]]
EmRxSt == [rx |-> emRx, next |-> emNextRx, up |-> emUp]
\* xemaclite_rx_handler: one frame, or none when no skb can be had.
EmRxHandler(nomem) ==
  LET st == IF nomem \/ \A b \in 0..1 : emRx[b] = << >> THEN EmRxSt ELSE EmRecvData(EmRxSt)
  IN  emRx' = st.rx /\ emNextRx' = st.next /\ emUp' = st.up /\ UNCHANGED <<emHwRx, emCame, emOff>>

\* xemaclite_tx_handler: sends the deferred skb and wakes the queue.
EmTxHandler(st) ==
  IF st.deferred = 0 THEN st
  ELSE LET s == EmSendData(st, st.deferred)
       IN  IF s.rc # 0 THEN s ELSE [s EXCEPT !.deferred = 0, !.stopped = FALSE]

\* xemaclite_interrupt: a frame, then the buffers that are sent, then the deferred skb.
\* The sender holds its lock with the interrupts of its processor off.
EmInterrupt(nomem) ==
  /\ emIrq /\ emDev = "open" /\ (emPc = "idle" \/ EmSmp)
  /\ EmRxHandler(nomem)
  /\ LET acked == [EmTxSt EXCEPT !.tx = [b \in 0..1 |-> IF emTx[b] = "active" THEN "free" ELSE emTx[b]]]
     IN  EmTxBecomes(IF \E b \in 0..1 : emTx[b] = "active" THEN EmTxHandler(acked) ELSE EmTxSt)
  /\ emIrq' = FALSE /\ emMissed' = FALSE
  /\ UNCHANGED <<emPc, emGiven, emLeft, emDev, emMii, emMdio>>

\* xemaclite_send, in two steps: the try, and when it fails the deferral.
EmSend ==
  /\ emDev = "open" /\ ~emStopped /\ emPc = "idle" /\ emGiven < EmSkbs
  /\ LET st == EmSendData(EmTxSt, emGiven + 1)
     IN  EmTxBecomes(st) /\ emPc' = IF st.rc = 0 THEN "idle" ELSE "failed"
  /\ emGiven' = emGiven + 1 /\ UNCHANGED <<emLeft, emRxVars, emIrq, emMissed, emDev, emMii, emMdio>>
EmDefer ==
  /\ emPc = "failed" /\ emPc' = "idle" /\ emStopped' = TRUE
  /\ emLeft' = (emLeft \/ emDeferred # 0) /\ emDeferred' = emGiven
  /\ UNCHANGED <<emTx, emNextTx, emSent, emGiven, emRxVars, emIrq, emMissed, emDev, emMii, emMdio>>

\* xemaclite_enable_interrupts writes the receive status of the first buffer as a whole:
\* with the interrupt enable bit set the done bit is cleared, and a frame in it is given up.
EmIrqs ==
  /\ emRx' = [emRx EXCEPT ![0] = << >>] /\ emOff' = (emOff \/ emRx[0] # << >>)
  /\ UNCHANGED <<emHwRx, emNextRx, emUp, emCame>>

\* xemaclite_tx_timeout: frees the deferred skb, wakes the queue
EmTxTimeout ==
  /\ emDev = "open" /\ emStopped /\ emPc = "idle"
  /\ emDeferred' = 0 /\ emStopped' = FALSE /\ EmIrqs
  /\ UNCHANGED <<emTx, emNextTx, emSent, emGiven, emPc, emLeft, emIrq, emMissed, emDev, emMii, emMdio>>

\* xemaclite_update_address puts the address into the expected buffer, a frame being sent or not,
\* and waits until the device is done with it; the active bit stays.
EmAddressed == [emTx EXCEPT ![emNextTx] = IF @ = "busy" THEN "active" ELSE @]
EmUpdateAddress == emTx' = EmAddressed /\ emMissed' = (emMissed \/ emTx # EmAddressed)

\* xemaclite_set_mac_address of a closed device; the same is left of an xemaclite_open that gets no
\* interrupt.  One that finds no PHY leaves nothing.
EmSetAddress ==
  /\ emDev = "probed" /\ EmUpdateAddress
  /\ UNCHANGED <<emNextTx, emDeferred, emStopped, emPc, emSent, emGiven, emLeft, emRxVars, emIrq, emDev, emMii, emMdio>>

\* External: the device sends a buffer, and receives a frame into the next one when it is free; it
\* asserts the interrupt if the driver has enabled it.
EmHwSent(b) ==
  /\ emTx[b] = "busy" /\ emTx' = [emTx EXCEPT ![b] = "active"]
  /\ emIrq' = (emIrq \/ emDev = "open") /\ emMissed' = (emMissed \/ emDev # "open")
  /\ UNCHANGED <<emNextTx, emDeferred, emStopped, emPc, emSent, emGiven, emLeft, emRxVars, emDev, emMii, emMdio>>
EmHwReceived(type, len) ==
  /\ emCame < EmFrames /\ emRx[emHwRx] = << >>
  /\ emRx' = [emRx EXCEPT ![emHwRx] = <<[id |-> emCame + 1, type |-> type, len |-> len]>>]
  /\ emHwRx' = IF EmPong THEN EmOther(emHwRx) ELSE emHwRx
  /\ emCame' = emCame + 1 /\ emIrq' = (emIrq \/ emDev = "open")
  /\ UNCHANGED <<emTxVars, emNextRx, emUp, emOff, emMissed, emDev, emMii, emMdio>>

\* xemaclite_mdio_setup: no bus of its own without a parent node, when the PHY hangs on the
\* bus of another device, or when the bus cannot be allocated or registered.
EmBus(node, own, ok) == node /\ own /\ ok
\* xemaclite_of_probe: the transmit status is cleared and the address set; what mdio_setup answers
\* is ignored, but enabling the bus overwrites its status.  When register_netdev fails the bus stays,
\* the device does not; failures before that touch nothing.
EmProbe(node, own, ok, registered) ==
  /\ emDev = "none" /\ emDev' = IF registered THEN "probed" ELSE "none"
  /\ emMii' = (emMii \/ EmBus(node, own, ok)) /\ emMdio' = (emMdio /\ ~(node /\ own))
  /\ emTx' = [b \in 0..1 |-> "free"] /\ emMissed' = FALSE /\ emNextTx' = 0 /\ emNextRx' = 0
  /\ emDeferred' = 0 /\ emOff' = (emOff \/ emHwRx # 0 \/ emRx[1] # << >>)
  /\ UNCHANGED <<emStopped, emPc, emSent, emGiven, emLeft, emRx, emHwRx, emUp, emCame, emIrq>>
\* xemaclite_open, when PHY and interrupt can be had: the address, the interrupts, the queue.
EmOpen == /\ emDev = "probed" /\ emDev' = "open" /\ EmUpdateAddress /\ EmIrqs /\ emStopped' = FALSE
          /\ UNCHANGED <<emNextTx, emDeferred, emPc, emSent, emGiven, emLeft, emIrq, emMii, emMdio>>
\* xemaclite_close: a deferred skb stays where it is.  An interrupt that is asserted is lost, or kept
\* by the interrupt controller until the next open.
EmClose == /\ emDev = "open" /\ emPc = "idle" /\ emDev' = "probed" /\ emStopped' = TRUE
           /\ emLeft' = (emLeft \/ emDeferred # 0) /\ emIrq' \in {FALSE, emIrq}
           /\ emMissed' = (emMissed \/ (emIrq /\ ~emIrq'))
           /\ UNCHANGED <<emTx, emNextTx, emDeferred, emPc, emSent, emGiven, emRxVars, emMii, emMdio>>

\* xemaclite_of_remove: the bus is taken down before the device.
EmRemove == /\ emDev = "probed" /\ emDev' = "none" /\ emMii' = FALSE
            /\ UNCHANGED <<emTxVars, emRxVars, emIrq, emMissed, emMdio>>

\* xemaclite_mdio_read and xemaclite_mdio_write both start a transfer when the last is over
\* (xemaclite_mdio_wait); the write does not wait for its own.
EmMdioStart == emMii /\ ~emMdio /\ emMdio' = TRUE /\ UNCHANGED <<emTxVars, emRxVars, emIrq, emMissed, emDev, emMii>>
EmMdioOver == emMdio /\ emMdio' = FALSE /\ UNCHANGED <<emTxVars, emRxVars, emIrq, emMissed, emDev, emMii>>

EmNothing == [frame |-> [id |-> 0, type |-> "arp", len |-> 0], before |-> -1, good |-> EmHlen + 28]
EmInit ==
  /\ emTx = [b \in 0..1 |-> "free"] /\ emNextTx = 0 /\ emDeferred = 0 /\ emStopped = TRUE /\ emPc = "idle"
  /\ emSent = << >> /\ emGiven = 0 /\ emRx = [b \in 0..1 |-> << >>] /\ emHwRx \in 0..1 /\ emNextRx = 0
  /\ emUp = EmNothing /\ emCame = 0 /\ emIrq = FALSE /\ emMissed = FALSE
  /\ emDev = "none" /\ emMii = FALSE /\ emMdio = FALSE /\ emLeft = FALSE /\ emOff = FALSE

EmNext ==
  \/ \E node, own, ok, registered \in BOOLEAN : EmProbe(node, own, ok, registered)
  \/ \E nomem \in BOOLEAN : EmInterrupt(nomem)
  \/ EmOpen \/ EmSetAddress \/ EmClose \/ EmRemove \/ EmSend \/ EmDefer \/ EmTxTimeout \/ EmMdioStart \/ EmMdioOver
  \/ \E b \in 0..1 : EmHwSent(b)
  \/ \E type \in {"ip", "arp", "len", "other"}, len \in EmLens : EmHwReceived(type, len)

\* With interrupts off the stopped queue is sure to be woken by the next completion: the
\* deferred skb waits for a buffer that is busy, or sent with its interrupt asserted
\* (xemaclite_send against xemaclite_interrupt).  Unless a buffer was sent while the device was
\* closed: nobody acknowledges it until the next frame is received.  On two processors this fails and only
\* xemaclite_tx_timeout helps; that instance is not claimed.
EmNotStuck ==
  (emDev = "open" /\ emStopped /\ ~EmSmp /\ ~emMissed) =>
    emDeferred # 0 /\ \E b \in 0..1 : emTx[b] = "busy" \/ (emTx[b] = "active" /\ emIrq)

\* Frames come up in the order of the wire, none twice, unless the device does not fill the
\* buffer that xemaclite_recv_data expects (after a probe of a running device, or when
\* xemaclite_enable_interrupts has freed a buffer); and all bytes before the check sequence
\* are right although the copy loop of the last bytes does not advance.
EmReceived ==
  /\ ~emOff => emUp.before < emUp.frame.id
  /\ emUp.good >= EmHlen + (IF emUp.frame.type = "arp" THEN 28 ELSE emUp.frame.len)

\* Frames go out in the order in which the stack handed them over, none twice (xemaclite_send,
\* xemaclite_tx_handler), unless a deferred skb was left behind by xemaclite_close.
EmSentInOrder == ~emLeft => \A i, j \in 1..Len(emSent) : i < j => emSent[i] < emSent[j]
=============================================================================
