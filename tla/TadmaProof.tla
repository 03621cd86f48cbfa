----------------------------- MODULE TadmaProof -----------------------------
(***************************************************************************)
(* Proofs about the TADMA transmit rings, for every ring size, every       *)
(* number of streams, with or without a second CPU and with or without     *)
(* down/up cycles.  The ring facts are proved for single-buffer frames     *)
(* (MaxFrag = 0): with fragments they do not hold.  What the hardware's    *)
(* queue holds is proved with fragments too, on one CPU and without        *)
(* down/up cycles (HwQueueIsSound).                                        *)
(***************************************************************************)
EXTENDS Tadma, TLAPS

----------------------------------------------------------------------------
(* Ring arithmetic.                                                         *)

\* Inc wraps to 0 after the last slot and is the successor elsewhere.
LEMMA IncFacts ==
  ASSUME NEW i \in Slots
  PROVE  /\ Inc(i) \in Slots
         /\ Inc(i) = IF i = N - 1 THEN 0 ELSE i + 1
  BY NAssumption, Z3 DEF Inc, Slots

\* Dist stays below N, is 0 exactly between a slot and itself.
LEMMA DistFacts ==
  ASSUME NEW a \in Slots, NEW b \in Slots
  PROVE  /\ Dist(a, b) \in 0 .. N - 1
         /\ (Dist(a, b) = 0) <=> (a = b)
  BY NAssumption DEF Dist, Slots

\* Advancing the far end by one slot adds one to the distance unless it
\* meets the near end.
LEMMA DistInc ==
  ASSUME NEW a \in Slots, NEW b \in Slots, Inc(b) # a
  PROVE  Dist(a, Inc(b)) = Dist(a, b) + 1
  BY IncFacts, NAssumption DEF Dist, Slots

\* Going Dist(a, b) slots forward from a leads to b.
LEMMA DistReach ==
  ASSUME NEW a \in Slots, NEW b \in Slots
  PROVE  (a + Dist(a, b)) % N = b
  BY NAssumption, Z3 DEF Dist, Slots

\* The slot written last for write pointer wr is a slot of the ring.
LEMMA AlmSlotType ==
  ASSUME NEW wr \in Slots
  PROVE  AlmSlot(wr) \in Slots
  BY NAssumption, Z3 DEF AlmSlot, Slots

\* A window that grows at its far end gains exactly that slot.
LEMMA WindowGrows ==
  ASSUME NEW a \in Slots, NEW b \in Slots, Inc(b) # a
  PROVE  Window(a, Inc(b)) = Window(a, b) \cup {b}
<1>1. ASSUME NEW i \in Slots
      PROVE  (Dist(a, i) < Dist(a, b) + 1) <=> (Dist(a, i) < Dist(a, b) \/ i = b)
  BY NAssumption DEF Dist, Slots
<1>2. QED
  BY <1>1, DistInc, IncFacts DEF Window

\* Cutting the first part of a window leaves the rest of it.
LEMMA WindowShrinks ==
  ASSUME NEW a \in Slots, NEW b \in Slots, NEW c \in Slots,
         Dist(a, b) <= Dist(a, c)
  PROVE  Window(a, c) \ Window(a, b) = Window(b, c)
<1>1. ASSUME NEW i \in Slots
      PROVE  (Dist(a, i) < Dist(a, c) /\ ~(Dist(a, i) < Dist(a, b)))
               <=> (Dist(b, i) < Dist(b, c))
  BY NAssumption DEF Dist, Slots
<1>2. QED
  BY <1>1 DEF Window

----------------------------------------------------------------------------
(* Type correctness, for frames with any number of fragments.               *)

\* The initial state is well typed.
LEMMA InitTypeOK == Init => TypeOK
<1>1. 0 \in Slots /\ 1 \in Slots /\ 0 \in Streams /\ 0 \in 0 .. MaxFrag /\ 0 \in 0 .. N
  BY NAssumption, NumStreamsAssumption, MaxFragAssumption DEF Slots, Streams
<1>2. XmIdle \in XmType /\ IrqIdle \in IrqType /\ OpnIdle \in OpnType
  BY <1>1 DEF XmIdle, XmType, IrqIdle, IrqType, OpnIdle, OpnType
<1>3. /\ [s \in Streams |-> [i \in Slots |-> FALSE]] \in [Streams -> [Slots -> BOOLEAN]]
      /\ [s \in Streams |-> FALSE] \in [Streams -> BOOLEAN]
  OBVIOUS
<1>4. QED
  BY <1>1, <1>2, <1>3 DEF Init, TypeOK

\* Every step keeps the state well typed.
LEMMA StepTypeOK == TypeOK /\ [Next]_vars => TypeOK'
<1> SUFFICES ASSUME TypeOK, [Next]_vars PROVE TypeOK'
  OBVIOUS
<1>0. 0 \in Slots /\ 1 \in Slots /\ 0 \in Streams /\ 0 \in 0 .. MaxFrag /\ 0 \in 0 .. N
  BY NAssumption, NumStreamsAssumption, MaxFragAssumption DEF Slots, Streams
<1>1. XmIdle \in XmType
  BY <1>0 DEF XmIdle, XmType
<1>2. IrqIdle \in IrqType
  BY <1>0 DEF IrqIdle, IrqType
<1>3. ASSUME NEW s \in Streams, NEW nf \in 0 .. MaxFrag, XmitBusy(s, nf)
      PROVE  TypeOK'
  BY <1>3 DEF TypeOK, XmitBusy, hw
<1>4. ASSUME NEW s \in Streams, NEW nf \in 0 .. MaxFrag, XmitFirstBd(s, nf)
      PROVE  TypeOK'
  <2>1. Inc(head[s]) \in Slots /\ AlmSlot(pmWr[s]) \in Slots
    BY IncFacts, AlmSlotType DEF TypeOK
  <2>2. head' \in [Streams -> Slots] /\ live' \in [Streams -> SUBSET Slots]
    BY <1>4, <2>1 DEF TypeOK, XmitFirstBd
  <2>3. xm' \in XmType
    BY <1>4, <2>1 DEF TypeOK, XmType, XmitFirstBd
  <2>4. QED
    BY <1>4, <2>2, <2>3 DEF TypeOK, XmitFirstBd, hw
<1>5. CASE XmitFrag
  <2> DEFINE s == xm.sid
             w == Inc(xm.wr)
  <2>1. s \in Streams /\ xm.wr \in Slots /\ w \in Slots /\ Inc(head[s]) \in Slots
        /\ AlmSlot(w) \in Slots
    BY IncFacts, AlmSlotType DEF TypeOK, XmType
  <2>2. xm.frags \in 0 .. MaxFrag /\ xm.frags > 0
    BY <1>5 DEF TypeOK, XmType, XmitFrag
  <2>3. xm.frags - 1 \in 0 .. MaxFrag
    BY <2>2, MaxFragAssumption
  <2>4. head' \in [Streams -> Slots] /\ live' \in [Streams -> SUBSET Slots]
    BY <1>5, <2>1 DEF TypeOK, XmType, XmitFrag
  <2>5. uff' \in [Streams -> [Slots -> BOOLEAN]]
    BY <1>5, <2>1 DEF TypeOK, XmType, XmitFrag
  <2>6. xm' \in XmType
    BY <1>5, <2>1, <2>3 DEF TypeOK, XmType, XmitFrag
  <2>7. QED
    BY <1>5, <2>4, <2>5, <2>6 DEF TypeOK, XmType, XmitFrag
<1>6. CASE XmitFirstAlm
  <2>1. uff' \in [Streams -> [Slots -> BOOLEAN]]
    BY <1>6 DEF TypeOK, XmType, XmitFirstAlm
  <2>2. QED
    BY <1>6, <2>1 DEF TypeOK, XmType, XmitFirstAlm, driver
<1>7. CASE XmitPm
  <2>1. Inc(xm.wr) \in Slots
    BY IncFacts DEF TypeOK, XmType
  <2>2. QED
    BY <1>1, <1>7, <2>1 DEF TypeOK, XmType, XmitPm, driver
<1>8. ASSUME NEW s \in Streams, HwFetch(s)
      PROVE  TypeOK'
  <2>1. Inc(pmRd[s]) \in Slots
    BY IncFacts DEF TypeOK
  <2>2. uff' \in [Streams -> [Slots -> BOOLEAN]]
    BY <1>8 DEF TypeOK, HwFetch
  <2>3. QED
    BY <1>8, <2>1, <2>2 DEF TypeOK, HwFetch, driver
<1>9. CASE IrqStatus
  BY <1>2, <1>9 DEF TypeOK, IrqType, IrqStatus, driver, hw
<1>10. CASE IrqClear
  BY <1>10 DEF TypeOK, IrqType, IrqClear, driver
<1>11. CASE IrqRead
  <2>1. uff[irq.sid][rd[irq.sid]] \in BOOLEAN
    BY DEF TypeOK, IrqType
  <2>2. irq' \in IrqType
    BY <1>11, <2>1 DEF TypeOK, IrqRead, IrqType
  <2>3. QED
    BY <1>11, <2>2 DEF TypeOK, IrqRead, driver, hw
<1>12. CASE IrqAdvance
  <2>1. irq.cnt + 1 \in 0 .. N /\ Inc(rd[irq.sid]) \in Slots
    BY <1>12, NAssumption, IncFacts DEF TypeOK, IrqType, IrqAdvance, ScanGoesOn
  <2>2. QED
    BY <1>12, <2>1 DEF TypeOK, IrqType, IrqAdvance, hw
<1>13. NextStream(irq) \in IrqType
  <2>1. CASE irq.sid + 1 < NumStreams
    <3>1. irq.sid + 1 \in Streams
      BY <2>1, NumStreamsAssumption DEF TypeOK, IrqType, Streams
    <3>2. QED
      BY <1>0, <2>1, <3>1 DEF NextStream, TypeOK, IrqType
  <2>2. CASE ~(irq.sid + 1 < NumStreams)
    BY <1>0, <2>2 DEF NextStream, TypeOK, IrqType
  <2>3. QED
    BY <2>1, <2>2
<1>14. CASE IrqScanned
  BY <1>13, <1>14 DEF TypeOK, IrqType, IrqScanned, driver, hw
<1>15. CASE XmitDone
  <2> DEFINE t == (tail[irq.sid] + FreedCount(irq.sid, irq.cnt)) % N
  <2>1. irq.sid \in Streams /\ irq.cnt \in 0 .. N /\ tail[irq.sid] \in Slots
        /\ head[irq.sid] \in Slots
    BY DEF TypeOK, IrqType
  <2>2. FreedCount(irq.sid, irq.cnt) \in 0 .. N
    BY <2>1, DistFacts, NAssumption DEF FreedCount
  <2>3. t \in Slots
    BY <2>1, <2>2, NAssumption, Z3 DEF Slots
  <2>4. live' \in [Streams -> SUBSET Slots] /\ tail' \in [Streams -> Slots]
    BY <1>15, <2>1, <2>3 DEF TypeOK, XmitDone
  <2>5. QED
    BY <1>13, <1>15, <2>4 DEF TypeOK, XmitDone, hw
<1>16. CASE IrqWake
  BY <1>2, <1>16 DEF TypeOK, IrqWake, hw
<1>17. CASE Stop \/ StopFreeIrq
  BY <1>17 DEF TypeOK, Stop, StopFreeIrq, driver, hw
<1>18. CASE Open
  <2>1. OpnIdle \in OpnType /\ opn \in OpnType /\ opn.sid \in Streams
    BY <1>0 DEF TypeOK, OpnIdle, OpnType
  <2>2. CASE OpenIrq
    BY <2>1, <2>2 DEF TypeOK, OpenIrq, driver, hw
  <2>3. CASE OpenHead
    <3>1. torn' \in [Streams -> BOOLEAN]
      BY <2>1, <2>3 DEF TypeOK, OpenHead, Scanning
    <3>2. opn' \in OpnType
      BY <2>1, <2>3 DEF OpenHead, OpnType
    <3> QED
      BY <1>0, <2>1, <2>3, <3>1, <3>2 DEF TypeOK, OpenHead, hw
  <2>4. CASE OpenTail
    <3>1. torn' \in [Streams -> BOOLEAN]
      BY <2>1, <2>4 DEF TypeOK, OpenTail, Scanning
    <3>2. opn' \in OpnType
      BY <2>1, <2>4 DEF OpenTail, OpnType
    <3> QED
      BY <1>0, <2>1, <2>4, <3>1, <3>2 DEF TypeOK, OpenTail, hw
  <2>5. CASE OpenRd
    <3>1. torn' \in [Streams -> BOOLEAN]
      BY <2>1, <2>5 DEF TypeOK, OpenRd, Scanning
    <3>2. rd' \in [Streams -> Slots] /\ live' \in [Streams -> SUBSET Slots]
      BY <1>0, <2>1, <2>5 DEF TypeOK, OpenRd
    <3>3. CASE opn.sid + 1 < NumStreams
      <4>1. opn.sid + 1 \in Streams
        BY <2>1, <3>3, NumStreamsAssumption DEF Streams
      <4>2. opn' \in OpnType
        BY <2>5, <3>3, <4>1 DEF OpenRd, OpnType
      <4> QED
        BY <2>5, <3>1, <3>2, <3>3, <4>2 DEF TypeOK, OpenRd, hw
    <3>4. CASE ~(opn.sid + 1 < NumStreams)
      BY <2>1, <2>5, <3>1, <3>2, <3>4 DEF TypeOK, OpenRd, hw
    <3> QED
      BY <3>3, <3>4
  <2> QED
    BY <1>18, <2>2, <2>3, <2>4, <2>5 DEF Open
<1>19. CASE UNCHANGED vars
  BY <1>19 DEF TypeOK, vars
<1>20. QED
  BY <1>3, <1>4, <1>5, <1>6, <1>7, <1>8, <1>9, <1>10, <1>11, <1>12, <1>14, <1>15,
     <1>16, <1>17, <1>18, <1>19 DEF Next, Xmit, XmitStep, IrqStep

\* The driver's indices, the interrupt handler's locals and the hardware's
\* registers keep their ranges in every reachable state.
THEOREM TypeCorrect == Spec => []TypeOK
  BY InitTypeOK, StepTypeOK, PTL DEF Spec

----------------------------------------------------------------------------
(* The ring invariant, for single-buffer frames.  LiveIsWindow alone is not *)
(* inductive: tadma_xmit_done frees cnt slots, and that this ends at        *)
(* tx_bd_rd, not beyond tx_bd_head, is what ScanMatchesTail adds; IrqSane   *)
(* says that the count is 0 when a scan begins, OpenSane that what an open  *)
(* has reset stays reset while it resets the rest.                          *)

IrqSane ==
  /\ irq.pc \in {"idle", "clear", "wake"} => irq.cnt = 0
  /\ dev = "down" => irq.pc = "idle"

ScanInv == TypeOK /\ ScanMatchesTail /\ IrqSane

OpenSane ==
  dev = "opening" /\ ~torn[opn.sid] =>
    /\ opn.at # "head" => head[opn.sid] = 0
    /\ opn.at = "rd" => tail[opn.sid] = 0

IndInv == ScanInv /\ OpenSane /\ LiveIsWindow

\* No scan runs in the initial state.
LEMMA InitScanInv == Init => ScanInv
<1> SUFFICES ASSUME Init PROVE ScanInv
  OBVIOUS
<1>1. TypeOK
  BY InitTypeOK
<1>2. ScanMatchesTail
  BY NAssumption DEF Init, ScanMatchesTail, Dist, IrqIdle
<1>3. IrqSane
  BY DEF Init, IrqSane, IrqIdle
<1>4. QED
  BY <1>1, <1>2, <1>3 DEF ScanInv

\* The scan claims one more descriptor, and never comes round to the tail.
LEMMA AdvanceKeepsScan ==
  ASSUME ScanInv, IrqAdvance
  PROVE  ScanMatchesTail' /\ IrqSane' /\ (Settled(irq.sid) => Inc(rd[irq.sid]) # tail[irq.sid])
<1> DEFINE s == irq.sid
<1>0. /\ TypeOK /\ s \in Streams /\ irq.cnt \in 0 .. N /\ irq.pc = "test"
      /\ head[s] \in Slots /\ tail[s] \in Slots /\ rd[s] \in Slots
  BY DEF ScanInv, TypeOK, IrqType, IrqAdvance
<1>1. /\ rd' = [rd EXCEPT ![s] = Inc(rd[s])] /\ tail' = tail /\ head' = head
      /\ live' = live /\ dev' = dev /\ opn' = opn /\ torn' = torn
      /\ irq' = [irq EXCEPT !.pc = "read", !.cnt = irq.cnt + 1]
  BY DEF IrqAdvance
<1>2. irq'.pc = "read" /\ irq'.sid = s /\ irq'.cnt = irq.cnt + 1
  BY <1>0, <1>1 DEF TypeOK, IrqType
<1>3. ASSUME Settled(s)
      PROVE  /\ rd[s] # head[s] /\ Dist(tail[s], rd[s]) <= Dist(tail[s], head[s])
             /\ Dist(tail[s], rd[s]) = irq.cnt
  BY <1>0, <1>3 DEF IrqAdvance, ScanGoesOn, ScanInv, ScanMatchesTail, Scanning
<1>4. ASSUME Settled(s)
      PROVE  Dist(tail[s], rd[s]) < Dist(tail[s], head[s])
  BY <1>0, <1>3, <1>4, NAssumption DEF Dist, Slots
<1>5. ASSUME Settled(s)
      PROVE  Inc(rd[s]) # tail[s]
  BY <1>0, <1>4, <1>5, IncFacts, NAssumption DEF Dist, Slots
<1>6. ASSUME Settled(s)
      PROVE  Dist(tail[s], Inc(rd[s])) = Dist(tail[s], rd[s]) + 1
  BY <1>0, <1>5, <1>6, DistInc
<1>7. ScanMatchesTail'
  <2> SUFFICES ASSUME NEW u \in Streams, Settled(u)
               PROVE  /\ Dist(tail[u], rd'[u]) <= Dist(tail[u], head[u])
                      /\ Dist(tail[u], rd'[u]) = IF u = s THEN irq.cnt + 1 ELSE 0
    BY <1>1, <1>2 DEF ScanMatchesTail, Dist, Settled, Scanning
  <2>1. /\ Dist(tail[u], rd[u]) <= Dist(tail[u], head[u])
        /\ Dist(tail[u], rd[u]) = IF u = s THEN irq.cnt ELSE 0
    BY <1>0 DEF ScanInv, ScanMatchesTail, Scanning
  <2>2. CASE u = s
    <3>1. rd'[u] = Inc(rd[s])
      BY <1>0, <1>1, <2>2 DEF TypeOK
    <3>2. Dist(tail[s], rd[s]) \in Int /\ Dist(tail[s], head[s]) \in Int
      BY <1>0, DistFacts
    <3>3. QED
      BY <1>3, <1>4, <1>6, <2>2, <3>1, <3>2
  <2>3. CASE u # s
    BY <1>0, <1>1, <2>1, <2>3 DEF TypeOK
  <2>4. QED
    BY <2>2, <2>3
<1>8. IrqSane'
  BY <1>0, <1>1, <1>2 DEF ScanInv, IrqSane
<1>9. QED
  BY <1>5, <1>7, <1>8

\* What follows a scan leaves no count behind.
LEMMA NextStreamFacts ==
  ASSUME TypeOK
  PROVE  /\ NextStream(irq).pc \in {"read", "wake"}
         /\ NextStream(irq).cnt = 0
  BY DEF TypeOK, IrqType, NextStream

\* Reclaiming ends exactly where the scan ended.
LEMMA XmitDoneKeepsScan ==
  ASSUME ScanInv, XmitDone
  PROVE  /\ ScanMatchesTail' /\ IrqSane'
         /\ Settled(irq.sid) =>
              /\ tail' = [tail EXCEPT ![irq.sid] = rd[irq.sid]]
              /\ live' = [live EXCEPT ![irq.sid] =
                            live[irq.sid] \ Window(tail[irq.sid], rd[irq.sid])]
<1> DEFINE s == irq.sid
           t == (tail[s] + FreedCount(s, irq.cnt)) % N
<1>0. /\ TypeOK /\ s \in Streams /\ irq.cnt \in 0 .. N /\ irq.pc = "done"
      /\ head[s] \in Slots /\ tail[s] \in Slots /\ rd[s] \in Slots
  BY DEF ScanInv, TypeOK, IrqType, XmitDone
<1>1. ASSUME Settled(s)
      PROVE  /\ Dist(tail[s], rd[s]) <= Dist(tail[s], head[s])
             /\ Dist(tail[s], rd[s]) = irq.cnt
  BY <1>0, <1>1 DEF ScanInv, ScanMatchesTail, Scanning
<1>2. Settled(s) => t = rd[s]
  BY <1>0, <1>1, DistReach DEF FreedCount
<1>3. /\ live' = [live EXCEPT ![s] = live[s] \ Window(tail[s], t)]
      /\ tail' = [tail EXCEPT ![s] = t]
      /\ irq' = NextStream(irq)
      /\ rd' = rd /\ head' = head /\ dev' = dev /\ opn' = opn /\ torn' = torn
  BY DEF XmitDone
<1> HIDE DEF t
<1>4. ScanMatchesTail'
  <2> SUFFICES ASSUME NEW u \in Streams, Settled(u)
               PROVE  /\ Dist(tail'[u], rd[u]) <= Dist(tail'[u], head[u])
                      /\ Dist(tail'[u], rd[u]) = 0
    BY <1>0, <1>3, NextStreamFacts DEF ScanMatchesTail, Dist, Settled, Scanning
  <2>1. tail'[u] = rd[u]
    <3>1. CASE u = s
      BY <1>0, <1>2, <1>3, <3>1 DEF TypeOK
    <3>2. CASE u # s
      <4>1. Dist(tail[u], rd[u]) = 0
        BY <3>2 DEF ScanInv, ScanMatchesTail, Scanning
      <4>2. tail[u] = rd[u]
        BY <1>0, <4>1, DistFacts DEF TypeOK
      <4>3. QED
        BY <1>0, <1>3, <3>2, <4>2 DEF TypeOK
    <3>3. QED
      BY <3>1, <3>2
  <2>2. rd[u] \in Slots /\ head[u] \in Slots
    BY <1>0 DEF TypeOK
  <2>3. Dist(tail'[u], rd[u]) = 0 /\ Dist(tail'[u], head[u]) \in 0 .. N - 1
    BY <2>1, <2>2, DistFacts
  <2>4. QED
    BY <2>3, NAssumption
<1>5. IrqSane'
  BY <1>0, <1>3, NextStreamFacts DEF ScanInv, IrqSane
<1>6. QED
  BY <1>2, <1>3, <1>4, <1>5

\* Steps that move no driver index and keep the scanned stream and its count.
LEMMA QuietKeepsScan ==
  ASSUME ScanInv, UNCHANGED <<head, tail, rd>>,
         \A s \in Streams :
           /\ Settled(s)' => Settled(s)
           /\ (IF Scanning(s) THEN irq.cnt ELSE 0) = (IF Scanning(s)' THEN irq'.cnt ELSE 0)
  PROVE  ScanMatchesTail'
<1> SUFFICES ASSUME NEW s \in Streams, Settled(s)'
             PROVE  /\ Dist(tail[s], rd[s]) <= Dist(tail[s], head[s])
                    /\ Dist(tail[s], rd[s]) = IF Scanning(s)' THEN irq'.cnt ELSE 0
  BY DEF ScanMatchesTail, Dist
<1>1. Settled(s)
  OBVIOUS
<1>2. QED
  BY <1>1 DEF ScanInv, ScanMatchesTail

\* The steps of the handler that neither claim nor free a descriptor.
IrqQuiet == IrqStatus \/ IrqClear \/ IrqRead \/ IrqScanned \/ IrqWake

LEMMA IrqQuietKeepsScan ==
  ASSUME ScanInv, IrqQuiet
  PROVE  /\ ScanMatchesTail' /\ IrqSane'
         /\ UNCHANGED <<dev, opn, torn, head, tail, rd, live, xm, uff, pmRd, pmWr>>
<1>0. TypeOK
  BY DEF ScanInv
<1>1. CASE IrqStatus
  <2>1. irq'.pc = "clear" /\ irq'.cnt = 0 /\ irq.pc = "idle" /\ dev # "down"
    BY <1>1 DEF IrqStatus, IrqIdle
  <2>2. QED
    BY <1>1, <2>1, QuietKeepsScan DEF IrqStatus, driver, hw, Scanning, Settled, ScanInv, IrqSane
<1>2. CASE IrqClear
  <2>1. irq'.pc \in {"read", "wake"} /\ irq'.cnt = irq.cnt /\ irq.pc = "clear"
    BY <1>0, <1>2 DEF IrqClear, TypeOK, IrqType
  <2>2. irq.cnt = 0 /\ dev' = dev /\ dev # "down"
    BY <1>2, <2>1 DEF IrqClear, ScanInv, IrqSane
  <2>3. QED
    BY <1>2, <2>1, <2>2, QuietKeepsScan DEF IrqClear, driver, Scanning, Settled, IrqSane
<1>3. CASE IrqRead
  <2>1. irq'.pc = "test" /\ irq'.cnt = irq.cnt /\ irq'.sid = irq.sid /\ irq.pc = "read"
    BY <1>0, <1>3 DEF IrqRead, TypeOK, IrqType
  <2>2. QED
    BY <1>3, <2>1, QuietKeepsScan DEF IrqRead, driver, hw, Scanning, Settled, ScanInv, IrqSane
<1>4. CASE IrqScanned
  <2>1. CASE irq.cnt > 0
    <3>1. irq'.pc = "done" /\ irq'.cnt = irq.cnt /\ irq'.sid = irq.sid /\ irq.pc = "test"
      BY <1>0, <1>4, <2>1 DEF IrqScanned, TypeOK, IrqType
    <3>2. QED
      BY <1>4, <3>1, QuietKeepsScan DEF IrqScanned, driver, hw, Scanning, Settled, ScanInv, IrqSane
  <2>2. CASE ~(irq.cnt > 0)
    <3>1. irq' = NextStream(irq) /\ irq.pc = "test" /\ irq.cnt = 0
      BY <1>0, <1>4, <2>2 DEF IrqScanned, TypeOK, IrqType
    <3>2. irq'.pc \in {"read", "wake"} /\ irq'.cnt = 0
      BY <1>0, <3>1, NextStreamFacts
    <3>3. QED
      BY <1>4, <3>1, <3>2, QuietKeepsScan DEF IrqScanned, driver, hw, Scanning, Settled, ScanInv, IrqSane
  <2>3. QED
    BY <2>1, <2>2
<1>5. CASE IrqWake
  <2>1. irq'.pc = "idle" /\ irq'.cnt = 0 /\ irq.pc = "wake"
    BY <1>5 DEF IrqWake, IrqIdle
  <2>2. QED
    BY <1>5, <2>1, QuietKeepsScan DEF IrqWake, hw, Scanning, Settled, IrqSane
<1>6. QED
  BY <1>1, <1>2, <1>3, <1>4, <1>5 DEF IrqQuiet

----------------------------------------------------------------------------
(* Single-buffer frames: the ring is a window.                              *)

\* The initial rings are empty.
LEMMA InitIndInv == Init => IndInv
<1> SUFFICES ASSUME Init PROVE IndInv
  OBVIOUS
<1>1. LiveIsWindow
  BY NAssumption DEF Init, LiveIsWindow, Window, Dist, Slots
<1>2. OpenSane
  BY DEF Init, OpenSane
<1>3. QED
  BY <1>1, <1>2, InitScanInv DEF IndInv

\* What an open has reset stays 0: no frame is queued before it ends, and
\* tadma_xmit_done frees nothing of a ring whose head meets its tail.
LEMMA StepOpenSane ==
  ASSUME MaxFrag = 0
  PROVE  TypeOK /\ OpenSane /\ [Next]_vars => OpenSane'
<1> SUFFICES ASSUME TypeOK, OpenSane, [Next]_vars PROVE OpenSane'
  OBVIOUS
<1>0. opn \in OpnType /\ opn.sid \in Streams
  BY DEF TypeOK, OpnType
<1>1. ASSUME UNCHANGED <<dev, opn, torn, head, tail>>
      PROVE  OpenSane'
  BY <1>1 DEF OpenSane
<1>2. ASSUME dev = "up", dev' = dev
      PROVE  OpenSane'
  BY <1>2 DEF OpenSane
<1>3. ASSUME NEW s \in Streams, NEW nf \in 0 .. MaxFrag, XmitBusy(s, nf) \/ XmitFirstBd(s, nf)
      PROVE  OpenSane'
  BY <1>2, <1>3 DEF XmitBusy, XmitFirstBd, XmitEntered
<1>4. ~XmitFrag
  BY DEF XmitFrag, TypeOK, XmType
<1>5. CASE XmitFirstAlm \/ XmitPm \/ \E s \in Streams : HwFetch(s)
  BY <1>1, <1>5 DEF XmitFirstAlm, XmitPm, HwFetch, driver
<1>6. CASE IrqStatus \/ IrqClear \/ IrqRead \/ IrqAdvance \/ IrqScanned \/ IrqWake
  BY <1>1, <1>6 DEF IrqStatus, IrqClear, IrqRead, IrqAdvance, IrqScanned, IrqWake, driver, hw
<1>7. CASE XmitDone
  <2>1. PICK s \in Streams : s = irq.sid
    BY DEF TypeOK, IrqType
  <2>2. /\ tail' = [tail EXCEPT ![s] = (tail[s] + FreedCount(s, irq.cnt)) % N]
        /\ UNCHANGED <<dev, opn, torn, head>>
    BY <1>7, <2>1 DEF XmitDone
  <2>3. tail[s] = 0 /\ head[s] = 0 => (tail[s] + FreedCount(s, irq.cnt)) % N = 0
    <3> SUFFICES ASSUME tail[s] = 0, head[s] = 0
                 PROVE  (tail[s] + FreedCount(s, irq.cnt)) % N = 0
      OBVIOUS
    <3>1. FreedCount(s, irq.cnt) = 0
      BY NAssumption DEF FreedCount, Dist, TypeOK, IrqType
    <3> QED
      BY <3>1, NAssumption, Z3
  <2>4. \A u \in Streams : tail'[u] = IF u = s THEN (tail[s] + FreedCount(s, irq.cnt)) % N
                                               ELSE tail[u]
    BY <2>2 DEF TypeOK
  <2>5. ASSUME dev = "opening", ~torn[opn.sid], opn.at = "rd"
        PROVE  tail'[opn.sid] = 0
    <3>1. head[opn.sid] = 0 /\ tail[opn.sid] = 0
      BY <2>5 DEF OpenSane
    <3> QED
      BY <1>0, <2>3, <2>4, <3>1
  <2> QED
    BY <2>2, <2>5 DEF OpenSane
<1>8. CASE Stop \/ StopFreeIrq
  BY <1>8 DEF Stop, StopFreeIrq, OpenSane
<1>9. CASE OpenIrq
  BY <1>9 DEF OpenIrq, OpnIdle, OpenSane
<1>10. CASE OpenHead
  <2>1. opn'.sid = opn.sid /\ opn'.at = "tail" /\ head'[opn.sid] = 0
    BY <1>0, <1>10 DEF OpenHead, OpnType, TypeOK
  <2> QED
    BY <2>1 DEF OpenSane
<1>11. CASE OpenTail
  <2>1. /\ opn'.sid = opn.sid /\ opn'.at = "rd" /\ head' = head /\ dev' = dev
        /\ dev = "opening" /\ opn.at = "tail"
    BY <1>0, <1>11 DEF OpenTail, OpnType
  <2>2. tail'[opn.sid] = 0
    BY <1>0, <1>11 DEF OpenTail, TypeOK
  <2>3. ~torn'[opn.sid] => ~torn[opn.sid]
    BY <1>0, <1>11 DEF OpenTail, TypeOK
  <2> QED
    BY <2>1, <2>2, <2>3 DEF OpenSane
<1>12. CASE OpenRd
  <2>1. opn'.at = "head"
    BY <1>12 DEF OpenRd, OpnIdle
  <2> QED
    BY <2>1 DEF OpenSane
<1>13. CASE UNCHANGED vars
  BY <1>1, <1>13 DEF vars
<1>14. QED
  BY <1>3, <1>4, <1>5, <1>6, <1>7, <1>8, <1>9, <1>10, <1>11, <1>12, <1>13
  DEF Next, Xmit, XmitStep, IrqStep, Open

\* A step of the sender that fills one descriptor keeps the ring invariant.
LEMMA FirstBdKeepsRing ==
  ASSUME IndInv, NEW s \in Streams, XmitFirstBd(s, 0)
  PROVE  LiveIsWindow' /\ ScanMatchesTail' /\ IrqSane'
<1>0. TypeOK /\ head[s] \in Slots /\ tail[s] \in Slots /\ rd[s] \in Slots
  BY DEF IndInv, ScanInv, TypeOK
<1>1. Inc(head[s]) # tail[s]
  BY <1>0, NAssumption DEF XmitFirstBd, RingFull, Inc, Slots
<1>2. /\ Dist(tail[s], Inc(head[s])) = Dist(tail[s], head[s]) + 1
      /\ Window(tail[s], Inc(head[s])) = Window(tail[s], head[s]) \cup {head[s]}
  BY <1>0, <1>1, DistInc, WindowGrows
<1>3. /\ tail' = tail /\ rd' = rd /\ irq' = irq /\ dev' = dev /\ opn' = opn /\ torn' = torn
      /\ head' = [head EXCEPT ![s] = Inc(head[s])]
      /\ live' = [live EXCEPT ![s] = live[s] \cup {head[s]}]
  BY DEF XmitFirstBd
<1>4. LiveIsWindow'
  <2> SUFFICES ASSUME NEW u \in Streams, Settled(u)
               PROVE  live'[u] = Window(tail'[u], head'[u])
    BY <1>3 DEF LiveIsWindow, Window, Settled
  <2>1. live[u] = Window(tail[u], head[u])
    BY DEF IndInv, LiveIsWindow
  <2>2. CASE u = s
    BY <1>0, <1>2, <1>3, <2>1, <2>2 DEF TypeOK
  <2>3. CASE u # s
    BY <1>0, <1>3, <2>1, <2>3 DEF TypeOK
  <2>4. QED
    BY <2>2, <2>3
<1>5. ScanMatchesTail'
  <2>1. \A u \in Streams : Dist(tail[u], head[u]) \in Int /\ Dist(tail[u], rd[u]) \in Int
    BY <1>0, DistFacts DEF TypeOK
  <2>2. \A u \in Streams : Dist(tail[u], head'[u]) >= Dist(tail[u], head[u])
    BY <1>0, <1>2, <1>3, <2>1 DEF TypeOK
  <2>3. \A u \in Streams : Dist(tail[u], head'[u]) \in Int
    BY <1>0, <1>2, <1>3, <2>1 DEF TypeOK
  <2>4. \A u \in Streams : (Settled(u)' <=> Settled(u)) /\ (Scanning(u)' <=> Scanning(u))
    BY <1>3 DEF Settled, Scanning
  <2>5. ASSUME NEW u \in Streams, Settled(u)
        PROVE  /\ Dist(tail[u], rd[u]) <= Dist(tail[u], head'[u])
               /\ Dist(tail[u], rd[u]) = IF Scanning(u) THEN irq.cnt ELSE 0
    <3>1. /\ Dist(tail[u], rd[u]) <= Dist(tail[u], head[u])
          /\ Dist(tail[u], rd[u]) = IF Scanning(u) THEN irq.cnt ELSE 0
      BY <2>5 DEF IndInv, ScanInv, ScanMatchesTail
    <3> QED
      BY <2>1, <2>2, <2>3, <3>1
  <2>6. QED
    BY <1>3, <2>4, <2>5 DEF ScanMatchesTail, Dist
<1>6. QED
  BY <1>3, <1>4, <1>5 DEF IndInv, ScanInv, IrqSane

\* What tadma_xmit_done frees is cut off the front of the window.
LEMMA XmitDoneKeepsRing ==
  ASSUME IndInv, XmitDone
  PROVE  LiveIsWindow' /\ ScanMatchesTail' /\ IrqSane'
<1> DEFINE s == irq.sid
<1>0. /\ TypeOK /\ s \in Streams /\ irq.pc = "done"
      /\ head[s] \in Slots /\ tail[s] \in Slots /\ rd[s] \in Slots
  BY DEF IndInv, ScanInv, TypeOK, IrqType, XmitDone
<1>1. Settled(s) => Dist(tail[s], rd[s]) <= Dist(tail[s], head[s])
  BY <1>0 DEF IndInv, ScanInv, ScanMatchesTail
<1>2. /\ ScanMatchesTail' /\ IrqSane'
      /\ Settled(s) => /\ live' = [live EXCEPT ![s] = live[s] \ Window(tail[s], rd[s])]
                       /\ tail' = [tail EXCEPT ![s] = rd[s]]
      /\ UNCHANGED <<dev, opn, torn, head>>
  BY XmitDoneKeepsScan DEF IndInv, XmitDone
<1>3. \A u \in Streams : u # s => tail'[u] = tail[u] /\ live'[u] = live[u]
  BY <1>0 DEF XmitDone, TypeOK
<1>4. LiveIsWindow'
  <2> SUFFICES ASSUME NEW u \in Streams, Settled(u)
               PROVE  live'[u] = Window(tail'[u], head[u])
    BY <1>2 DEF LiveIsWindow, Window, Dist, Settled
  <2>1. live[u] = Window(tail[u], head[u])
    BY DEF IndInv, LiveIsWindow
  <2>2. CASE u = s
    <3>1. Window(tail[s], head[s]) \ Window(tail[s], rd[s]) = Window(rd[s], head[s])
      BY <1>0, <1>1, <2>2, WindowShrinks
    <3>2. live'[s] = live[s] \ Window(tail[s], rd[s]) /\ tail'[s] = rd[s]
      BY <1>0, <1>2, <2>2 DEF TypeOK
    <3>3. QED
      BY <2>1, <2>2, <3>1, <3>2
  <2>3. CASE u # s
    BY <1>3, <2>1, <2>3
  <2>4. QED
    BY <2>2, <2>3
<1>5. QED
  BY <1>2, <1>4

\* A step that leaves the indices and the buffers alone keeps the window.
LEMMA SameWindow ==
  ASSUME LiveIsWindow, UNCHANGED <<head, tail, live>>, \A s \in Streams : Settled(s)' => Settled(s)
  PROVE  LiveIsWindow'
  BY DEF LiveIsWindow, Window, Dist

\* An assignment of the loop of axienet_tadma_open: the streams before it
\* keep their rings, and the one it finishes has an empty one.
LEMMA OpenKeepsRing ==
  ASSUME IndInv, Open
  PROVE  LiveIsWindow' /\ ScanMatchesTail' /\ IrqSane'
<1>0. TypeOK /\ ScanInv /\ OpenSane /\ LiveIsWindow /\ opn \in OpnType /\ opn.sid \in Streams
  BY DEF IndInv, ScanInv, TypeOK, OpnType
<1>1. CASE OpenIrq
  <2>1. \A s \in Streams : ~Settled(s)'
    BY <1>1, NumStreamsAssumption DEF OpenIrq, OpnIdle, Settled, Streams
  <2>2. irq' = irq /\ irq.pc = "idle"
    BY <1>0, <1>1 DEF OpenIrq, ScanInv, IrqSane
  <2> QED
    BY <1>0, <1>1, <2>1, <2>2 DEF OpenIrq, LiveIsWindow, ScanMatchesTail, ScanInv, IrqSane
<1>2. CASE OpenHead \/ OpenTail
  <2>1. /\ irq' = irq /\ dev' = dev /\ dev = "opening" /\ opn'.sid = opn.sid
        /\ \A u \in Streams : u # opn.sid =>
             /\ head'[u] = head[u] /\ tail'[u] = tail[u] /\ rd'[u] = rd[u] /\ live'[u] = live[u]
             /\ torn'[u] = torn[u]
    BY <1>0, <1>2 DEF OpenHead, OpenTail, TypeOK, OpnType
  <2>2. ASSUME NEW u \in Streams, Settled(u)'
        PROVE  /\ Settled(u) /\ u # opn.sid
               /\ head'[u] = head[u] /\ tail'[u] = tail[u] /\ rd'[u] = rd[u] /\ live'[u] = live[u]
    <3>1. u < opn.sid /\ u # opn.sid
      BY <1>0, <2>1, <2>2 DEF Settled, Streams
    <3> QED
      BY <2>1, <2>2, <3>1 DEF Settled
  <2>3. LiveIsWindow'
    BY <1>0, <2>2 DEF LiveIsWindow, Window, Dist
  <2>4. ScanMatchesTail'
    BY <1>0, <2>1, <2>2 DEF ScanInv, ScanMatchesTail, Scanning, Dist
  <2>5. IrqSane'
    BY <1>0, <2>1 DEF ScanInv, IrqSane
  <2> QED
    BY <2>3, <2>4, <2>5
<1>3. CASE OpenRd
  <2>0. PICK o \in Streams : o = opn.sid
    BY <1>0
  <2>1. /\ irq' = irq /\ dev = "opening" /\ dev' \in {"opening", "up"} /\ head' = head
        /\ tail' = tail /\ opn.at = "rd"
        /\ rd' = [rd EXCEPT ![o] = 0] /\ live' = [live EXCEPT ![o] = {}]
        /\ torn' = [torn EXCEPT ![o] = torn[o] \/ Scanning(o)]
    BY <1>3, <2>0 DEF OpenRd
  <2>2. ASSUME NEW u \in Streams, Settled(u)', u # o
        PROVE  Settled(u) /\ rd'[u] = rd[u] /\ live'[u] = live[u]
    <3>1. u < o
      <4>1. CASE opn.sid + 1 < NumStreams
        <5>1. dev' = dev /\ opn'.sid = o + 1
          BY <1>3, <2>0, <4>1 DEF OpenRd
        <5> QED
          BY <2>1, <2>2, <5>1 DEF Settled, Streams
      <4>2. CASE ~(opn.sid + 1 < NumStreams)
        BY <2>0, <2>2, <4>2, NumStreamsAssumption DEF Streams
      <4> QED
        BY <4>1, <4>2
    <3>2. torn'[u] = torn[u]
      BY <1>0, <2>1, <2>2 DEF TypeOK
    <3>3. rd'[u] = rd[u] /\ live'[u] = live[u]
      BY <1>0, <2>1, <2>2 DEF TypeOK
    <3> QED
      BY <2>0, <2>2, <3>1, <3>2, <3>3 DEF Settled
  <2>3. ASSUME Settled(o)'
        PROVE  /\ ~Scanning(o) /\ head[o] = 0 /\ tail[o] = 0
               /\ rd'[o] = 0 /\ live'[o] = {}
    <3>1. ~torn'[o]
      BY <2>3 DEF Settled
    <3>2. ~torn[o] /\ ~Scanning(o)
      BY <1>0, <2>1, <3>1 DEF TypeOK
    <3>3. rd'[o] = 0 /\ live'[o] = {}
      BY <1>0, <2>1 DEF TypeOK
    <3> QED
      BY <1>0, <2>0, <2>1, <3>2, <3>3 DEF OpenSane
  <2>4. Dist(0, 0) = 0 /\ Window(0, 0) = {}
    BY NAssumption DEF Dist, Window, Slots
  <2>5. ASSUME NEW u \in Streams, Settled(u)'
        PROVE  live'[u] = Window(tail[u], head[u])
    <3>1. CASE u = o
      BY <2>3, <2>4, <2>5, <3>1
    <3>2. CASE u # o
      BY <1>0, <2>2, <2>5, <3>2 DEF LiveIsWindow
    <3> QED
      BY <3>1, <3>2
  <2>6. ASSUME NEW u \in Streams, Settled(u)'
        PROVE  /\ Dist(tail[u], rd'[u]) <= Dist(tail[u], head[u])
               /\ Dist(tail[u], rd'[u]) = IF Scanning(u) THEN irq.cnt ELSE 0
    <3>1. CASE u = o
      BY <2>3, <2>4, <2>6, <3>1
    <3>2. CASE u # o
      BY <1>0, <2>2, <2>6, <3>2 DEF ScanInv, ScanMatchesTail
    <3> QED
      BY <3>1, <3>2
  <2>7. LiveIsWindow' /\ ScanMatchesTail'
    BY <2>1, <2>5, <2>6 DEF LiveIsWindow, ScanMatchesTail, Scanning, Window, Dist
  <2>8. IrqSane'
    BY <1>0, <2>1 DEF ScanInv, IrqSane
  <2> QED
    BY <2>7, <2>8
<1>4. QED
  BY <1>1, <1>2, <1>3 DEF Open

\* Every step keeps the ring invariant when no frame has fragments.
LEMMA StepIndInv ==
  ASSUME MaxFrag = 0
  PROVE  IndInv /\ [Next]_vars => IndInv'
<1> SUFFICES ASSUME IndInv, [Next]_vars PROVE IndInv'
  OBVIOUS
<1>0. TypeOK /\ TypeOK' /\ ScanInv /\ LiveIsWindow /\ OpenSane'
  BY StepTypeOK, StepOpenSane DEF IndInv, ScanInv
<1> SUFFICES LiveIsWindow' /\ ScanMatchesTail' /\ IrqSane'
  BY <1>0 DEF IndInv, ScanInv
<1>1. ASSUME NEW s \in Streams, NEW nf \in 0 .. MaxFrag, XmitBusy(s, nf)
      PROVE  LiveIsWindow' /\ ScanMatchesTail' /\ IrqSane'
  BY <1>0, <1>1, QuietKeepsScan, SameWindow DEF XmitBusy, Scanning, Settled, ScanInv, IrqSane
<1>2. ASSUME NEW s \in Streams, NEW nf \in 0 .. MaxFrag, XmitFirstBd(s, nf)
      PROVE  LiveIsWindow' /\ ScanMatchesTail' /\ IrqSane'
  BY <1>2, FirstBdKeepsRing
<1>3. ~XmitFrag
  BY <1>0 DEF XmitFrag, TypeOK, XmType
<1>4. CASE XmitFirstAlm \/ XmitPm
  BY <1>0, <1>4, QuietKeepsScan, SameWindow
  DEF XmitFirstAlm, XmitPm, driver, Scanning, Settled, ScanInv, IrqSane
<1>5. ASSUME NEW s \in Streams, HwFetch(s)
      PROVE  LiveIsWindow' /\ ScanMatchesTail' /\ IrqSane'
  BY <1>0, <1>5, QuietKeepsScan, SameWindow
  DEF HwFetch, driver, Scanning, Settled, ScanInv, IrqSane
<1>6. CASE IrqQuiet
  BY <1>0, <1>6, IrqQuietKeepsScan, SameWindow DEF Settled
<1>7. CASE IrqAdvance
  <2>1. UNCHANGED <<dev, opn, torn, head, tail, live>>
    BY <1>7 DEF IrqAdvance
  <2>2. QED
    BY <1>0, <1>7, <2>1, AdvanceKeepsScan, SameWindow DEF Settled
<1>8. CASE XmitDone
  BY <1>8, XmitDoneKeepsRing
<1>9. CASE Stop \/ StopFreeIrq
  <2>1. \A s \in Streams : Settled(s)' => Settled(s)
    BY <1>9 DEF Stop, StopFreeIrq, Settled
  <2> QED
    BY <1>0, <1>9, <2>1, QuietKeepsScan, SameWindow
    DEF Stop, StopFreeIrq, driver, Scanning, ScanInv, IrqSane
<1>10. CASE Open
  BY <1>10, OpenKeepsRing
<1>11. CASE UNCHANGED vars
  BY <1>0, <1>11, QuietKeepsScan, SameWindow DEF vars, Scanning, Settled, ScanInv, IrqSane
<1>12. QED
  BY <1>1, <1>2, <1>3, <1>4, <1>5, <1>6, <1>7, <1>8, <1>9, <1>10, <1>11
  DEF Next, Xmit, XmitStep, IrqStep, IrqQuiet

\* With single-buffer frames the driver holds exactly the descriptors between
\* tail and head, on any number of CPUs: none is overwritten, none freed twice.
THEOREM RingIsConsistent ==
  ASSUME MaxFrag = 0
  PROVE  Spec => []LiveIsWindow
<1>1. IndInv => LiveIsWindow
  BY DEF IndInv
<1>2. QED
  BY <1>1, InitIndInv, StepIndInv, PTL DEF Spec

\* What tadma_irq claimed without the lock is what tadma_xmit_done frees.
THEOREM ScanIsExact ==
  ASSUME MaxFrag = 0
  PROVE  Spec => []ScanMatchesTail
<1>1. IndInv => ScanMatchesTail
  BY DEF IndInv, ScanInv
<1>2. QED
  BY <1>1, InitIndInv, StepIndInv, PTL DEF Spec

\* On one CPU, or without down/up cycles, no ring is ever torn: LiveIsWindow
\* and ScanMatchesTail then speak of every ring that is open, for the handler
\* never stands in the middle of a scan when an open resets the indices.
THEOREM NeverTorn ==
  ASSUME SMP = FALSE \/ Reopen = FALSE
  PROVE  Spec => [](\A s \in Streams : ~torn[s])
<1> DEFINE Whole == TypeOK /\ (Reopen = FALSE => dev = "up") /\ \A s \in Streams : ~torn[s]
<1>1. Init => Whole
  BY InitTypeOK DEF Init
<1>2. Whole /\ [Next]_vars => Whole'
  <2> SUFFICES ASSUME Whole, [Next]_vars PROVE Whole'
    OBVIOUS
  <2>1. TypeOK' /\ opn.sid \in Streams
    BY StepTypeOK DEF TypeOK, OpnType
  <2>2. CASE OpenHead \/ OpenTail \/ OpenRd
    <3>1. Reopen # FALSE /\ irq.pc = "idle"
      BY <2>2 DEF OpenHead, OpenTail, OpenRd, XmitMayRun
    <3>2. PICK o \in Streams : o = opn.sid
      BY <2>1
    <3>3. ~Scanning(o) /\ ~torn[o]
      BY <3>1 DEF Scanning
    <3>4. \/ torn' = [torn EXCEPT ![o] = Scanning(o)]
          \/ torn' = [torn EXCEPT ![o] = torn[o] \/ Scanning(o)]
      BY <2>2, <3>2 DEF OpenHead, OpenTail, OpenRd
    <3>5. \A s \in Streams : ~torn'[s]
      BY <3>3, <3>4 DEF TypeOK
    <3> QED
      BY <2>1, <3>1, <3>5
  <2>3. CASE Xmit \/ XmitStep \/ \E s \in Streams : HwFetch(s)
    BY <2>1, <2>3 DEF Xmit, XmitStep, XmitBusy, XmitFirstBd, XmitFrag, XmitFirstAlm, XmitPm, HwFetch
  <2>4. CASE IrqStatus \/ IrqStep
    BY <2>1, <2>4 DEF IrqStatus, IrqStep, IrqClear, IrqRead, IrqAdvance, IrqScanned, XmitDone, IrqWake
  <2>5. CASE Stop \/ StopFreeIrq \/ OpenIrq
    BY <2>1, <2>5 DEF Stop, StopFreeIrq, OpenIrq
  <2>6. CASE UNCHANGED vars
    BY <2>1, <2>6 DEF vars
  <2> QED
    BY <2>2, <2>3, <2>4, <2>5, <2>6 DEF Next, Open
<1>3. QED
  BY <1>1, <1>2, PTL DEF Spec

----------------------------------------------------------------------------
(* One CPU, no down/up cycle, frames with any number of fragments.  The     *)
(* sender may then overrun tx_bd_tail, so the driver's own ring is not a    *)
(* window any more, but the hardware's queue is safe: the scan stops at an  *)
(* entry that was not fetched (QueueIsFlagged), so it never claims one that *)
(* the hardware still owns (ClaimIsFetched), and the PM space test keeps    *)
(* the queue from running into itself (SendHasRoom).                        *)

Sending(s) == Locked /\ xm.sid = s

\* The lock is held with interrupts disabled: no handler runs meanwhile.
LockExcludesIrq ==
  /\ dev = "up" /\ (Locked => irq.pc = "idle")
  /\ torn = [s \in Streams |-> FALSE]

\* The sender's local copy of the write pointer follows tx_bd_head.
SendFollowsHead(s) ==
  IF Sending(s) THEN Inc(AlmSlot(xm.wr)) = head[s] /\ xm.first = AlmSlot(pmWr[s])
                ELSE AlmSlot(pmWr[s]) = head[s]

\* The slots of the frame being sent fit between the queue and its front.
SendHasRoom(s) ==
  /\ Dist(pmRd[s], AlmSlot(pmWr[s])) <= Dist(pmRd[s], head[s])
  /\ Sending(s) => Dist(pmRd[s], head[s]) + xm.frags <= N - 1

\* All from the hardware's read pointer to tx_bd_head is mapped.
QueueIsMapped(s) == Window(pmRd[s], head[s]) \subseteq live[s]

\* What was not fetched has its UFF bit set, but for the first entry of the
\* frame being sent, which is written last.
QueueIsFlagged(s) ==
  \A i \in Window(pmRd[s], head[s]) :
    uff[s][i] \/ (Sending(s) /\ xm.pc = "frags" /\ i = xm.first)

\* What the scan claimed, and the slot it is about to claim, was fetched.
ClaimIsFetched(s) ==
  /\ \A i \in Window(tail[s], rd[s]) : i \notin Window(pmRd[s], head[s])
  /\ irq.pc = "test" /\ irq.sid = s /\ ~irq.uff => rd[s] \notin Window(pmRd[s], head[s])

StreamInv(s) ==
  /\ SendFollowsHead(s) /\ SendHasRoom(s)
  /\ QueueIsMapped(s) /\ QueueIsFlagged(s) /\ ClaimIsFetched(s)

QueueInv ==
  /\ ScanInv /\ LockExcludesIrq
  /\ \A s \in Streams : StreamInv(s)

\* The ALM slot of a write pointer is the one before it.
LEMMA AlmSlotFacts ==
  ASSUME NEW wr \in Slots
  PROVE  /\ AlmSlot(wr) = IF wr = 0 THEN N - 1 ELSE wr - 1
         /\ AlmSlot(Inc(wr)) = Inc(AlmSlot(wr))
<1>1. AlmSlot(wr) = IF wr = 0 THEN N - 1 ELSE wr - 1
  BY NAssumption, Z3 DEF AlmSlot, Slots
<1>2. AlmSlot(Inc(wr)) = wr
  <2>1. Inc(wr) \in Slots /\ Inc(wr) = IF wr = N - 1 THEN 0 ELSE wr + 1
    BY IncFacts
  <2>2. CASE wr = N - 1
    BY <2>1, <2>2, NAssumption, Z3 DEF AlmSlot, Slots
  <2>3. CASE wr # N - 1
    BY <2>1, <2>3, NAssumption, Z3 DEF AlmSlot, Slots
  <2> QED
    BY <2>2, <2>3
<1>3. Inc(AlmSlot(wr)) = wr
  BY <1>1, AlmSlotType, IncFacts, NAssumption DEF Slots
<1>4. QED
  BY <1>1, <1>2, <1>3

\* axienet_check_pm_space leaves room for the frame and one empty slot.
LEMMA PmSpace ==
  ASSUME NEW wr \in Slots, NEW r \in Slots, NEW nf \in 0 .. MaxFrag, CheckPmSpace(nf + 1, wr, r)
  PROVE  Dist(r, AlmSlot(wr)) + nf + 1 <= N - 1
  BY AlmSlotFacts, NAssumption, MaxFragAssumption DEF CheckPmSpace, Dist, Slots

\* Room for one more slot: the far end does not meet the near one.
LEMMA RoomFacts ==
  ASSUME NEW a \in Slots, NEW b \in Slots, Dist(a, b) + 1 <= N - 1
  PROVE  /\ Inc(b) \in Slots
         /\ Dist(a, Inc(b)) = Dist(a, b) + 1
         /\ Window(a, Inc(b)) = Window(a, b) \cup {b}
<1>1. Inc(b) # a
  BY IncFacts, NAssumption DEF Dist, Slots
<1>2. QED
  BY <1>1, IncFacts, DistInc, WindowGrows

\* The hardware takes the first slot of a window that is not empty.
LEMMA FetchFacts ==
  ASSUME NEW a \in Slots, NEW b \in Slots, Dist(a, b) > 0
  PROVE  /\ Dist(Inc(a), b) = Dist(a, b) - 1
         /\ \A i \in Window(Inc(a), b) : i \in Window(a, b) /\ i # a
<1>1. Inc(a) \in Slots /\ Inc(a) = IF a = N - 1 THEN 0 ELSE a + 1
  BY IncFacts
<1>2. Dist(Inc(a), b) = Dist(a, b) - 1
  BY <1>1, NAssumption DEF Dist, Slots
<1>3. ASSUME NEW i \in Slots, Dist(Inc(a), i) < Dist(Inc(a), b)
      PROVE  Dist(a, i) < Dist(a, b) /\ i # a
  BY <1>1, <1>3, NAssumption DEF Dist, Slots
<1>4. QED
  BY <1>2, <1>3 DEF Window

\* An empty distance is an empty window.
LEMMA EmptyWindow ==
  ASSUME NEW a \in Slots, NEW b \in Slots, Dist(a, b) = 0
  PROVE  Window(a, b) = {}
  BY DistFacts, NAssumption DEF Window

\* The rings of a stream that a step leaves alone.
LEMMA SameStream ==
  ASSUME NEW u \in Streams, StreamInv(u),
         head'[u] = head[u], tail'[u] = tail[u], rd'[u] = rd[u], live'[u] = live[u],
         uff'[u] = uff[u], pmRd'[u] = pmRd[u], pmWr'[u] = pmWr[u],
         Sending(u)' <=> Sending(u), Sending(u) => xm' = xm,
         irq'.pc = "test" /\ irq'.sid = u /\ ~irq'.uff
           => irq.pc = "test" /\ irq.sid = u /\ ~irq.uff
  PROVE  StreamInv(u)'
<1>1. SendFollowsHead(u)' /\ SendHasRoom(u)'
  BY DEF StreamInv, SendFollowsHead, SendHasRoom, Dist, AlmSlot, Inc
<1>2. QueueIsMapped(u)'
  BY DEF StreamInv, QueueIsMapped, Window, Dist
<1>3. QueueIsFlagged(u)'
  BY DEF StreamInv, QueueIsFlagged, Window, Dist
<1>4. ClaimIsFetched(u)'
  BY DEF StreamInv, ClaimIsFetched, Window, Dist
<1>5. QED
  BY <1>1, <1>2, <1>3, <1>4 DEF StreamInv

\* Without down/up cycles every ring is in use.
LEMMA AllSettled ==
  ASSUME QueueInv
  PROVE  \A u \in Streams : Settled(u)
  BY DEF QueueInv, LockExcludesIrq, Settled

\* While no handler runs, nothing is claimed.
LEMMA NothingClaimed ==
  ASSUME ScanInv, irq.pc = "idle", NEW u \in Streams, Settled(u)
  PROVE  tail[u] = rd[u] /\ Window(tail[u], rd[u]) = {}
<1>1. Dist(tail[u], rd[u]) = 0 /\ tail[u] \in Slots /\ rd[u] \in Slots
  BY DEF ScanInv, ScanMatchesTail, Scanning, TypeOK
<1>2. QED
  BY <1>1, DistFacts, EmptyWindow

\* A step of the sender leaves the scan where it is.
LEMMA SenderKeepsScan ==
  ASSUME ScanInv, irq.pc = "idle", UNCHANGED <<dev, opn, torn, tail, rd, irq>>,
         head' \in [Streams -> Slots]
  PROVE  ScanMatchesTail' /\ IrqSane'
<1>1. ASSUME NEW u \in Streams, Settled(u)
      PROVE  Dist(tail[u], rd[u]) = 0 /\ Dist(tail[u], head'[u]) >= 0
  <2>1. tail[u] \in Slots /\ rd[u] \in Slots /\ head'[u] \in Slots /\ tail[u] = rd[u]
    BY <1>1, NothingClaimed DEF ScanInv, TypeOK
  <2> QED
    BY <2>1, DistFacts, NAssumption
<1>2. QED
  BY <1>1 DEF ScanInv, ScanMatchesTail, Settled, Scanning, IrqSane, Dist

\* One descriptor is added at tx_bd_head for the frame being sent: the room
\* was checked, the slot becomes live, and either it is the first of its frame
\* or its ALM entry is written.
LEMMA SendKeepsStream ==
  ASSUME ScanInv, irq.pc = "idle", irq' = irq, NEW s \in Streams, StreamInv(s), Settled(s),
         head'[s] = Inc(head[s]), tail'[s] = tail[s], rd'[s] = rd[s],
         live'[s] = live[s] \cup {head[s]}, pmRd'[s] = pmRd[s], pmWr'[s] = pmWr[s],
         Sending(s)', xm'.pc = "frags", xm'.frags \in Nat,
         Dist(pmRd[s], head[s]) + 1 + xm'.frags <= N - 1,
         Inc(AlmSlot(xm'.wr)) = Inc(head[s]), xm'.first = AlmSlot(pmWr[s]),
         \A i \in Window(pmRd[s], head[s]) : uff'[s][i] \/ i = xm'.first,
         uff'[s][head[s]] \/ head[s] = xm'.first
  PROVE  StreamInv(s)'
<1>0. head[s] \in Slots /\ pmRd[s] \in Slots /\ pmWr[s] \in Slots /\ AlmSlot(pmWr[s]) \in Slots
  BY AlmSlotType DEF ScanInv, TypeOK
<1>1. Dist(pmRd[s], head[s]) \in 0 .. N - 1 /\ Dist(pmRd[s], AlmSlot(pmWr[s])) \in 0 .. N - 1
  BY <1>0, DistFacts
<1>2. Dist(pmRd[s], head[s]) + 1 <= N - 1
  BY <1>1, NAssumption
<1>3. /\ Dist(pmRd[s], Inc(head[s])) = Dist(pmRd[s], head[s]) + 1
      /\ Window(pmRd[s], Inc(head[s])) = Window(pmRd[s], head[s]) \cup {head[s]}
  BY <1>0, <1>2, RoomFacts
<1>4. SendFollowsHead(s)'
  BY DEF SendFollowsHead, Inc, AlmSlot
<1>5. SendHasRoom(s)'
  <2>1. Dist(pmRd[s], AlmSlot(pmWr[s])) <= Dist(pmRd[s], head[s])
    BY DEF StreamInv, SendHasRoom
  <2>2. Dist(pmRd[s], AlmSlot(pmWr[s])) <= Dist(pmRd[s], Inc(head[s]))
    BY <1>1, <1>3, <2>1, NAssumption
  <2>3. Dist(pmRd[s], Inc(head[s])) + xm'.frags <= N - 1
    BY <1>1, <1>3, NAssumption
  <2> QED
    BY <2>2, <2>3 DEF SendHasRoom, Dist, AlmSlot
<1>6. QueueIsMapped(s)'
  <2>1. Window(pmRd[s], Inc(head[s])) \subseteq live'[s]
    BY <1>3 DEF StreamInv, QueueIsMapped
  <2> QED
    BY <2>1 DEF QueueIsMapped, Window, Dist
<1>7. QueueIsFlagged(s)'
  <2>1. \A i \in Window(pmRd[s], Inc(head[s])) : uff'[s][i] \/ i = xm'.first
    BY <1>3
  <2> QED
    BY <2>1 DEF QueueIsFlagged, Window, Dist
<1>8. ClaimIsFetched(s)'
  <2>1. Window(tail[s], rd[s]) = {}
    BY NothingClaimed
  <2> QED
    BY <2>1 DEF ClaimIsFetched, Window, Dist
<1>9. QED
  BY <1>4, <1>5, <1>6, <1>7, <1>8 DEF StreamInv

LEMMA XmitFirstBdKeepsQueue ==
  ASSUME QueueInv, SMP = FALSE, NEW s \in Streams, NEW nf \in 0 .. MaxFrag, XmitFirstBd(s, nf)
  PROVE  ScanMatchesTail' /\ IrqSane' /\ LockExcludesIrq' /\ \A u \in Streams : StreamInv(u)'
<1>0. /\ TypeOK /\ ScanInv /\ irq.pc = "idle" /\ dev = "up" /\ ~Locked /\ StreamInv(s)
      /\ head[s] \in Slots /\ pmRd[s] \in Slots /\ pmWr[s] \in Slots
  BY DEF QueueInv, ScanInv, TypeOK, LockExcludesIrq, XmitFirstBd, XmitEntered, XmitMayRun
<1>1. /\ live' = [live EXCEPT ![s] = live[s] \cup {head[s]}]
      /\ head' = [head EXCEPT ![s] = Inc(head[s])]
      /\ xm' = [pc |-> "frags", sid |-> s, frags |-> nf, wr |-> pmWr[s],
                first |-> AlmSlot(pmWr[s])]
      /\ UNCHANGED <<dev, opn, torn, stopped, tail, rd, irq, uff, pmRd, pmWr, ffi>>
  BY DEF XmitFirstBd, hw
<1>2. AlmSlot(pmWr[s]) = head[s] /\ ~Sending(s)
  BY <1>0 DEF StreamInv, SendFollowsHead, Sending
<1>3. Dist(pmRd[s], head[s]) + nf + 1 <= N - 1
  BY <1>0, <1>2, PmSpace DEF XmitFirstBd, XmitEntered
<1>4. head' \in [Streams -> Slots]
  BY <1>0, <1>1, IncFacts DEF TypeOK
<1>5. ScanMatchesTail' /\ IrqSane'
  BY <1>0, <1>1, <1>4, SenderKeepsScan
<1>6. LockExcludesIrq'
  BY <1>0, <1>1 DEF LockExcludesIrq, QueueInv
<1>7. StreamInv(s)'
  <2>1. Sending(s)' /\ xm'.pc = "frags" /\ xm'.frags = nf /\ xm'.wr = pmWr[s]
        /\ xm'.first = AlmSlot(pmWr[s])
    BY <1>1 DEF Sending, Locked
  <2>2. head'[s] = Inc(head[s]) /\ live'[s] = live[s] \cup {head[s]}
    BY <1>0, <1>1 DEF TypeOK
  <2>3. Dist(pmRd[s], head[s]) \in Int /\ nf \in Nat
    BY <1>0, DistFacts, MaxFragAssumption
  <2>4. Dist(pmRd[s], head[s]) + 1 + xm'.frags <= N - 1
    BY <1>3, <2>1, <2>3, NAssumption
  <2>5. \A i \in Window(pmRd[s], head[s]) : uff'[s][i]
    BY <1>0, <1>1, <1>2 DEF StreamInv, QueueIsFlagged
  <2>6. Inc(AlmSlot(xm'.wr)) = Inc(head[s])
    BY <1>2, <2>1
  <2> QED
    BY <1>0, <1>1, <1>2, <2>1, <2>2, <2>3, <2>4, <2>5, <2>6, AllSettled, SendKeepsStream
<1>8. ASSUME NEW u \in Streams, u # s PROVE StreamInv(u)'
  <2>1. ~Sending(u) /\ ~Sending(u)'
    BY <1>0, <1>1, <1>8 DEF Sending
  <2>2. head'[u] = head[u] /\ live'[u] = live[u]
    BY <1>0, <1>1, <1>8 DEF TypeOK
  <2>3. StreamInv(u)
    BY DEF QueueInv
  <2> QED
    BY <1>1, <2>1, <2>2, <2>3, SameStream
<1>9. QED
  BY <1>5, <1>6, <1>7, <1>8

LEMMA XmitFragKeepsQueue ==
  ASSUME QueueInv, XmitFrag
  PROVE  ScanMatchesTail' /\ IrqSane' /\ LockExcludesIrq' /\ \A u \in Streams : StreamInv(u)'
<1> DEFINE w == Inc(xm.wr)
<1>a. PICK s \in Streams : s = xm.sid
  BY DEF QueueInv, ScanInv, TypeOK, XmType
<1>0. /\ TypeOK /\ ScanInv /\ dev = "up" /\ Locked /\ s \in Streams /\ xm.wr \in Slots
      /\ xm.pc = "frags" /\ xm.frags \in 0 .. MaxFrag /\ xm.frags > 0
      /\ head[s] \in Slots /\ pmRd[s] \in Slots
  BY <1>a DEF QueueInv, ScanInv, TypeOK, XmType, LockExcludesIrq, XmitFrag, Locked
<1>1. irq.pc = "idle" /\ StreamInv(s) /\ Sending(s)
  BY <1>a, <1>0 DEF QueueInv, LockExcludesIrq, Sending
<1>2. /\ live' = [live EXCEPT ![s] = live[s] \cup {head[s]}]
      /\ head' = [head EXCEPT ![s] = Inc(head[s])]
      /\ uff' = [uff EXCEPT ![s][AlmSlot(w)] = TRUE]
      /\ xm' = [xm EXCEPT !.frags = xm.frags - 1, !.wr = w]
      /\ UNCHANGED <<dev, opn, torn, stopped, tail, rd, irq, pmRd, pmWr, ffi>>
  BY <1>a DEF XmitFrag
<1>3. AlmSlot(w) = head[s] /\ xm.first = AlmSlot(pmWr[s])
  BY <1>0, <1>1, AlmSlotFacts DEF StreamInv, SendFollowsHead
<1>4. /\ xm'.pc = "frags" /\ xm'.sid = s /\ xm'.frags = xm.frags - 1 /\ xm'.wr = w
      /\ xm'.first = xm.first
  BY <1>a, <1>0, <1>2 DEF TypeOK, XmType
<1>5. head' \in [Streams -> Slots]
  BY <1>0, <1>2, IncFacts DEF TypeOK
<1>6. ScanMatchesTail' /\ IrqSane'
  BY <1>0, <1>1, <1>2, <1>5, SenderKeepsScan
<1>7. LockExcludesIrq'
  BY <1>0, <1>1, <1>2 DEF LockExcludesIrq, QueueInv
<1>8. StreamInv(s)'
  <2>1. Sending(s)'
    BY <1>4 DEF Sending, Locked
  <2>2. head'[s] = Inc(head[s]) /\ live'[s] = live[s] \cup {head[s]}
    BY <1>0, <1>2 DEF TypeOK
  <2>3. \A i \in Slots : uff'[s][i] = IF i = head[s] THEN TRUE ELSE uff[s][i]
    BY <1>0, <1>2, <1>3 DEF TypeOK
  <2>4. Dist(pmRd[s], head[s]) + xm.frags <= N - 1
    BY <1>1 DEF StreamInv, SendHasRoom
  <2>5. Dist(pmRd[s], head[s]) \in Int /\ xm.frags - 1 \in Nat
    BY <1>0, DistFacts, MaxFragAssumption
  <2>6. Dist(pmRd[s], head[s]) + 1 + xm'.frags <= N - 1 /\ xm'.frags \in Nat
    BY <1>0, <1>4, <2>4, <2>5, NAssumption
  <2>7. \A i \in Window(pmRd[s], head[s]) : uff'[s][i] \/ i = xm'.first
    BY <1>1, <1>4, <2>3 DEF StreamInv, QueueIsFlagged, Window
  <2>8. uff'[s][head[s]]
    BY <1>0, <2>3
  <2>9. Inc(AlmSlot(xm'.wr)) = Inc(head[s]) /\ xm'.first = AlmSlot(pmWr[s])
    BY <1>3, <1>4
  <2> QED
    BY <1>0, <1>1, <1>2, <1>4, <2>1, <2>2, <2>6, <2>7, <2>8, <2>9, AllSettled, SendKeepsStream
<1>9. ASSUME NEW u \in Streams, u # s PROVE StreamInv(u)'
  <2>1. ~Sending(u) /\ ~Sending(u)'
    BY <1>a, <1>4, <1>9 DEF Sending
  <2>2. head'[u] = head[u] /\ live'[u] = live[u] /\ uff'[u] = uff[u]
    BY <1>0, <1>2, <1>9 DEF TypeOK
  <2>3. StreamInv(u)
    BY DEF QueueInv
  <2> QED
    BY <1>2, <2>1, <2>2, <2>3, SameStream
<1>10. QED
  BY <1>6, <1>7, <1>8, <1>9

\* The first ALM entry is written: the whole frame is flagged.
LEMMA XmitFirstAlmKeepsQueue ==
  ASSUME QueueInv, XmitFirstAlm
  PROVE  ScanMatchesTail' /\ IrqSane' /\ LockExcludesIrq' /\ \A u \in Streams : StreamInv(u)'
<1>a. PICK s \in Streams : s = xm.sid
  BY DEF QueueInv, ScanInv, TypeOK, XmType
<1>0. /\ TypeOK /\ ScanInv /\ dev = "up" /\ Locked /\ xm.first \in Slots
      /\ irq.pc = "idle" /\ StreamInv(s) /\ Sending(s)
  BY <1>a DEF QueueInv, ScanInv, TypeOK, XmType, LockExcludesIrq, XmitFirstAlm, Locked, Sending
<1>1. /\ uff' = [uff EXCEPT ![s][xm.first] = TRUE]
      /\ xm' = [xm EXCEPT !.pc = "pm"]
      /\ UNCHANGED <<dev, opn, torn, stopped, head, tail, rd, live, irq, pmRd, pmWr, ffi>>
  BY <1>a DEF XmitFirstAlm, driver
<1>2. /\ xm'.pc = "pm" /\ xm'.sid = s /\ xm'.frags = xm.frags /\ xm'.wr = xm.wr
      /\ xm'.first = xm.first
  BY <1>a, <1>0, <1>1 DEF TypeOK, XmType
<1>3. ScanMatchesTail' /\ IrqSane'
  BY <1>0, <1>1, SenderKeepsScan DEF TypeOK
<1>4. LockExcludesIrq'
  BY <1>0, <1>1 DEF LockExcludesIrq, QueueInv
<1>5. StreamInv(s)'
  <2>1. Sending(s)'
    BY <1>2 DEF Sending, Locked
  <2>2. SendFollowsHead(s)' /\ SendHasRoom(s)'
    BY <1>0, <1>1, <1>2, <2>1 DEF StreamInv, SendFollowsHead, SendHasRoom, Inc, AlmSlot, Dist
  <2>3. QueueIsMapped(s)' /\ ClaimIsFetched(s)'
    BY <1>0, <1>1 DEF StreamInv, QueueIsMapped, ClaimIsFetched, Window, Dist
  <2>4. \A i \in Slots : uff'[s][i] = IF i = xm.first THEN TRUE ELSE uff[s][i]
    BY <1>0, <1>1 DEF TypeOK
  <2>5. \A i \in Window(pmRd[s], head[s]) : uff'[s][i]
    BY <1>0, <2>4 DEF StreamInv, QueueIsFlagged, Window
  <2>6. QueueIsFlagged(s)'
    BY <1>1, <2>5 DEF QueueIsFlagged, Window, Dist
  <2> QED
    BY <2>2, <2>3, <2>6 DEF StreamInv
<1>6. ASSUME NEW u \in Streams, u # s PROVE StreamInv(u)'
  <2>1. ~Sending(u) /\ ~Sending(u)'
    BY <1>a, <1>2, <1>6 DEF Sending
  <2>2. uff'[u] = uff[u]
    BY <1>0, <1>1, <1>6 DEF TypeOK
  <2>3. StreamInv(u)
    BY DEF QueueInv
  <2> QED
    BY <1>1, <2>1, <2>2, <2>3, SameStream
<1>7. QED
  BY <1>3, <1>4, <1>5, <1>6

\* The PM write pointer hands the frame to the hardware.
LEMMA XmitPmKeepsQueue ==
  ASSUME QueueInv, XmitPm
  PROVE  ScanMatchesTail' /\ IrqSane' /\ LockExcludesIrq' /\ \A u \in Streams : StreamInv(u)'
<1>a. PICK s \in Streams : s = xm.sid
  BY DEF QueueInv, ScanInv, TypeOK, XmType
<1>0. /\ TypeOK /\ ScanInv /\ dev = "up" /\ Locked /\ xm.wr \in Slots /\ xm.pc = "pm"
      /\ irq.pc = "idle" /\ StreamInv(s) /\ Sending(s)
      /\ head[s] \in Slots /\ pmRd[s] \in Slots
  BY <1>a DEF QueueInv, ScanInv, TypeOK, XmType, LockExcludesIrq, XmitPm, Locked, Sending
<1>1. /\ pmWr' = [pmWr EXCEPT ![s] = Inc(xm.wr)] /\ xm' = XmIdle
      /\ UNCHANGED <<dev, opn, torn, stopped, head, tail, rd, live, irq, uff, pmRd, ffi>>
  BY <1>a DEF XmitPm, driver
<1>2. \A u \in Streams : ~Sending(u)'
  BY <1>1 DEF Sending, Locked, XmIdle
<1>3. ScanMatchesTail' /\ IrqSane'
  BY <1>0, <1>1, SenderKeepsScan DEF TypeOK
<1>4. LockExcludesIrq'
  BY <1>0, <1>1 DEF LockExcludesIrq, QueueInv
<1>5. StreamInv(s)'
  <2>1. pmWr'[s] = Inc(xm.wr) /\ AlmSlot(Inc(xm.wr)) = head[s]
    BY <1>0, <1>1, AlmSlotFacts DEF TypeOK, StreamInv, SendFollowsHead
  <2>2. SendFollowsHead(s)'
    BY <1>1, <1>2, <2>1 DEF SendFollowsHead, AlmSlot
  <2>3. Dist(pmRd[s], head[s]) \in Int
    BY <1>0, DistFacts
  <2>4. Dist(pmRd[s], AlmSlot(Inc(xm.wr))) <= Dist(pmRd[s], head[s])
    BY <2>1, <2>3
  <2>5. SendHasRoom(s)'
    BY <1>1, <1>2, <2>1, <2>4 DEF SendHasRoom, Dist, AlmSlot
  <2>6. QueueIsMapped(s)' /\ ClaimIsFetched(s)'
    BY <1>0, <1>1 DEF StreamInv, QueueIsMapped, ClaimIsFetched, Window, Dist
  <2>7. \A i \in Window(pmRd[s], head[s]) : uff[s][i]
    BY <1>0 DEF StreamInv, QueueIsFlagged
  <2>8. QueueIsFlagged(s)'
    BY <1>1, <2>7 DEF QueueIsFlagged, Window, Dist
  <2> QED
    BY <2>2, <2>5, <2>6, <2>8 DEF StreamInv
<1>6. ASSUME NEW u \in Streams, u # s PROVE StreamInv(u)'
  <2>1. ~Sending(u) /\ pmWr'[u] = pmWr[u] /\ StreamInv(u)
    BY <1>a, <1>0, <1>1, <1>6 DEF Sending, TypeOK, QueueInv
  <2> QED
    BY <1>1, <1>2, <2>1, SameStream
<1>7. QED
  BY <1>3, <1>4, <1>5, <1>6

\* The hardware takes the first slot of its queue.
LEMMA HwFetchKeepsQueue ==
  ASSUME QueueInv, NEW s \in Streams, HwFetch(s)
  PROVE  ScanMatchesTail' /\ IrqSane' /\ LockExcludesIrq' /\ \A u \in Streams : StreamInv(u)'
<1>0. /\ TypeOK /\ ScanInv /\ LockExcludesIrq /\ StreamInv(s)
      /\ head[s] \in Slots /\ pmRd[s] \in Slots /\ pmWr[s] \in Slots /\ AlmSlot(pmWr[s]) \in Slots
  BY AlmSlotType DEF QueueInv, ScanInv, TypeOK
<1>1. /\ uff' = [uff EXCEPT ![s][pmRd[s]] = FALSE]
      /\ pmRd' = [pmRd EXCEPT ![s] = Inc(pmRd[s])]
      /\ UNCHANGED <<dev, opn, torn, stopped, head, tail, rd, live, xm, irq, pmWr>>
  BY DEF HwFetch, driver
<1>2. ScanMatchesTail' /\ IrqSane'
  BY <1>0, <1>1, QuietKeepsScan DEF Scanning, Settled, ScanInv, IrqSane
<1>3. LockExcludesIrq'
  BY <1>0, <1>1 DEF LockExcludesIrq, Locked
<1>4. StreamInv(s)'
  <2> DEFINE p == pmRd[s]
             h == head[s]
             a == AlmSlot(pmWr[s])
  <2>1. Dist(p, a) \in 0 .. N - 1 /\ Dist(p, h) \in 0 .. N - 1
    BY <1>0, DistFacts
  <2>2. Dist(p, a) > 0
    <3>1. Window(p, a) # {}
      BY DEF HwFetch, HwQueue
    <3> QED
      BY <1>0, <2>1, <3>1, EmptyWindow, NAssumption
  <2>3. Dist(p, a) <= Dist(p, h)
    BY <1>0 DEF StreamInv, SendHasRoom
  <2>4. Dist(p, h) > 0
    BY <2>1, <2>2, <2>3, NAssumption
  <2>5. Dist(Inc(p), a) = Dist(p, a) - 1 /\ Dist(Inc(p), h) = Dist(p, h) - 1
    BY <1>0, <2>2, <2>4, FetchFacts
  <2>6. \A i \in Window(Inc(p), h) : i \in Window(p, h) /\ i # p /\ i \in Slots
    BY <1>0, <2>4, FetchFacts DEF Window
  <2>7. pmRd'[s] = Inc(p) /\ \A i \in Slots \ {p} : uff'[s][i] = uff[s][i]
    BY <1>0, <1>1 DEF TypeOK
  <2>8. SendFollowsHead(s)'
    BY <1>0, <1>1 DEF StreamInv, SendFollowsHead, Sending, Locked, Inc, AlmSlot
  <2>9. SendHasRoom(s)'
    <3>1. Dist(Inc(p), a) <= Dist(Inc(p), h)
      BY <2>1, <2>3, <2>5, NAssumption
    <3>2. Sending(s) => Dist(p, h) + xm.frags <= N - 1
      BY <1>0 DEF StreamInv, SendHasRoom
    <3>3. xm.frags \in Int
      BY <1>0, MaxFragAssumption DEF TypeOK, XmType
    <3>4. Sending(s) => Dist(Inc(p), h) + xm.frags <= N - 1
      BY <2>1, <2>5, <3>2, <3>3, NAssumption
    <3> QED
      BY <1>1, <2>7, <3>1, <3>4 DEF SendHasRoom, Sending, Locked, Dist, AlmSlot
  <2>10. QueueIsMapped(s)'
    <3>1. Window(Inc(p), h) \subseteq live[s]
      BY <1>0, <2>6 DEF StreamInv, QueueIsMapped
    <3> QED
      BY <1>1, <2>7, <3>1 DEF QueueIsMapped, Window, Dist
  <2>11. QueueIsFlagged(s)'
    <3>1. \A i \in Window(Inc(p), h) :
            uff'[s][i] \/ (Sending(s) /\ xm.pc = "frags" /\ i = xm.first)
      BY <1>0, <2>6, <2>7 DEF StreamInv, QueueIsFlagged
    <3> QED
      BY <1>1, <2>7, <3>1 DEF QueueIsFlagged, Sending, Locked, Window, Dist
  <2>12. ClaimIsFetched(s)'
    <3>1. /\ \A i \in Window(tail[s], rd[s]) : i \notin Window(Inc(p), h)
          /\ irq.pc = "test" /\ irq.sid = s /\ ~irq.uff => rd[s] \notin Window(Inc(p), h)
      BY <1>0, <2>6 DEF StreamInv, ClaimIsFetched
    <3> QED
      BY <1>1, <2>7, <3>1 DEF ClaimIsFetched, Window, Dist
  <2> QED
    BY <2>8, <2>9, <2>10, <2>11, <2>12 DEF StreamInv
<1>5. ASSUME NEW u \in Streams, u # s PROVE StreamInv(u)'
  <2>1. uff'[u] = uff[u] /\ pmRd'[u] = pmRd[u] /\ StreamInv(u)
    BY <1>0, <1>1, <1>5 DEF TypeOK, QueueInv
  <2>2. Sending(u)' <=> Sending(u)
    BY <1>1 DEF Sending, Locked
  <2> QED
    BY <1>1, <2>1, <2>2, SameStream
<1>6. QED
  BY <1>2, <1>3, <1>4, <1>5

\* The handler runs with the lock free, and reads the flags as they are.
LEMMA IrqQuietKeepsQueue ==
  ASSUME QueueInv, SMP = FALSE, IrqQuiet
  PROVE  ScanMatchesTail' /\ IrqSane' /\ LockExcludesIrq' /\ \A u \in Streams : StreamInv(u)'
<1>0. TypeOK /\ ScanInv /\ ~Locked /\ dev = "up"
  BY DEF QueueInv, ScanInv, LockExcludesIrq, IrqQuiet, IrqStatus, IrqClear, IrqRead, IrqScanned,
         IrqWake, IrqMayRun
<1>1. ScanMatchesTail' /\ IrqSane' /\ UNCHANGED <<dev, opn, torn, head, tail, rd, live, xm, uff, pmRd, pmWr>>
  BY <1>0, IrqQuietKeepsScan
<1>2. LockExcludesIrq'
  BY <1>0, <1>1 DEF LockExcludesIrq, QueueInv, Locked
<1>3. ASSUME NEW u \in Streams PROVE StreamInv(u)'
  <2>1. StreamInv(u) /\ ~Sending(u) /\ ~Sending(u)'
    BY <1>0, <1>1 DEF QueueInv, Sending, Locked
  <2>2. CASE IrqRead
    <3>1. irq'.uff = uff[irq.sid][rd[irq.sid]] /\ irq'.sid = irq.sid
      BY <1>0, <2>2 DEF IrqRead, TypeOK, IrqType
    <3>2. irq'.sid = u /\ ~irq'.uff => rd[u] \notin Window(pmRd[u], head[u])
      BY <2>1, <3>1 DEF StreamInv, QueueIsFlagged
    <3>3. ClaimIsFetched(u)'
      BY <1>1, <2>1, <3>2 DEF StreamInv, ClaimIsFetched, Window, Dist
    <3>4. SendFollowsHead(u)' /\ SendHasRoom(u)' /\ QueueIsMapped(u)' /\ QueueIsFlagged(u)'
      BY <1>1, <2>1 DEF StreamInv, SendFollowsHead, SendHasRoom, QueueIsMapped, QueueIsFlagged,
                        Window, Dist, AlmSlot, Inc
    <3> QED
      BY <3>3, <3>4 DEF StreamInv
  <2>3. CASE ~IrqRead
    <3>1. irq'.pc # "test"
      <4>1. CASE IrqStatus \/ IrqWake
        <5>1. IrqStatus => irq'.pc = "clear"
          BY DEF IrqStatus, IrqIdle
        <5>2. IrqWake => irq'.pc = "idle"
          BY DEF IrqWake, IrqIdle
        <5> QED
          BY <4>1, <5>1, <5>2
      <4>2. CASE IrqClear
        BY <1>0, <4>2 DEF IrqClear, TypeOK, IrqType
      <4>3. CASE IrqScanned
        <5>1. NextStream(irq).pc # "test"
          BY <1>0, NextStreamFacts
        <5>2. [irq EXCEPT !.pc = "done"].pc = "done"
          BY <1>0 DEF TypeOK, IrqType
        <5> QED
          BY <4>3, <5>1, <5>2 DEF IrqScanned
      <4> QED
        BY <2>3, <4>1, <4>2, <4>3 DEF IrqQuiet
    <3> QED
      BY <1>1, <2>1, <3>1, SameStream
  <2> QED
    BY <2>2, <2>3
<1>4. QED
  BY <1>1, <1>2, <1>3

\* The scan claims a slot whose UFF bit it read as clear.
LEMMA IrqAdvanceKeepsQueue ==
  ASSUME QueueInv, SMP = FALSE, IrqAdvance
  PROVE  ScanMatchesTail' /\ IrqSane' /\ LockExcludesIrq' /\ \A u \in Streams : StreamInv(u)'
<1>a. PICK s \in Streams : s = irq.sid
  BY DEF QueueInv, ScanInv, TypeOK, IrqType
<1>0. /\ TypeOK /\ ScanInv /\ ~Locked /\ dev = "up" /\ StreamInv(s)
      /\ tail[s] \in Slots /\ rd[s] \in Slots
  BY DEF QueueInv, ScanInv, LockExcludesIrq, IrqAdvance, IrqMayRun, TypeOK
<1>1. /\ rd' = [rd EXCEPT ![s] = Inc(rd[s])]
      /\ irq' = [irq EXCEPT !.pc = "read", !.cnt = irq.cnt + 1]
      /\ UNCHANGED <<dev, opn, torn, head, tail, live, xm, uff, pmRd, pmWr>>
  BY <1>a DEF IrqAdvance, hw
<1>2. ScanMatchesTail' /\ IrqSane' /\ Inc(rd[s]) # tail[s]
  BY <1>a, <1>0, AllSettled, AdvanceKeepsScan
<1>3. LockExcludesIrq' /\ irq'.pc = "read"
  BY <1>0, <1>1 DEF LockExcludesIrq, QueueInv, Locked, TypeOK, IrqType
<1>4. \A u \in Streams : ~Sending(u) /\ ~Sending(u)'
  BY <1>0, <1>1 DEF Sending, Locked
<1>5. StreamInv(s)'
  <2>1. Window(tail[s], Inc(rd[s])) = Window(tail[s], rd[s]) \cup {rd[s]} /\ rd'[s] = Inc(rd[s])
    BY <1>0, <1>1, <1>2, WindowGrows DEF TypeOK
  <2>2. rd[s] \notin Window(pmRd[s], head[s])
    BY <1>a, <1>0 DEF StreamInv, ClaimIsFetched, IrqAdvance, ScanGoesOn
  <2>3. \A i \in Window(tail[s], Inc(rd[s])) : i \notin Window(pmRd[s], head[s])
    BY <1>0, <2>1, <2>2 DEF StreamInv, ClaimIsFetched
  <2>4. ClaimIsFetched(s)'
    BY <1>1, <1>3, <2>1, <2>3 DEF ClaimIsFetched, Window, Dist
  <2>5. SendFollowsHead(s)' /\ SendHasRoom(s)' /\ QueueIsMapped(s)' /\ QueueIsFlagged(s)'
    BY <1>0, <1>1, <1>4 DEF StreamInv, SendFollowsHead, SendHasRoom, QueueIsMapped,
                            QueueIsFlagged, Window, Dist, AlmSlot, Inc
  <2> QED
    BY <2>4, <2>5 DEF StreamInv
<1>6. ASSUME NEW u \in Streams, u # s PROVE StreamInv(u)'
  <2>1. rd'[u] = rd[u] /\ StreamInv(u)
    BY <1>0, <1>1, <1>6 DEF TypeOK, QueueInv
  <2> QED
    BY <1>1, <1>3, <1>4, <2>1, SameStream
<1>7. QED
  BY <1>2, <1>3, <1>5, <1>6

\* Only what the scan claimed is freed, and that was fetched.
LEMMA XmitDoneKeepsQueue ==
  ASSUME QueueInv, SMP = FALSE, XmitDone
  PROVE  ScanMatchesTail' /\ IrqSane' /\ LockExcludesIrq' /\ \A u \in Streams : StreamInv(u)'
<1>a. PICK s \in Streams : s = irq.sid
  BY DEF QueueInv, ScanInv, TypeOK, IrqType
<1>0. /\ TypeOK /\ ScanInv /\ ~Locked /\ dev = "up" /\ StreamInv(s)
      /\ tail[s] \in Slots /\ rd[s] \in Slots
  BY DEF QueueInv, ScanInv, LockExcludesIrq, XmitDone, TypeOK
<1>1. /\ ScanMatchesTail' /\ IrqSane'
      /\ live' = [live EXCEPT ![s] = live[s] \ Window(tail[s], rd[s])]
      /\ tail' = [tail EXCEPT ![s] = rd[s]]
      /\ irq' = NextStream(irq)
      /\ UNCHANGED <<dev, opn, torn, head, rd, xm, uff, pmRd, pmWr>>
  BY <1>a, <1>0, AllSettled, XmitDoneKeepsScan DEF XmitDone, hw
<1>2. LockExcludesIrq' /\ irq'.pc # "test"
  BY <1>0, <1>1, NextStreamFacts DEF LockExcludesIrq, QueueInv, Locked
<1>3. \A u \in Streams : ~Sending(u) /\ ~Sending(u)'
  BY <1>0, <1>1 DEF Sending, Locked
<1>4. StreamInv(s)'
  <2>1. live'[s] = live[s] \ Window(tail[s], rd[s]) /\ tail'[s] = rd[s]
    BY <1>0, <1>1 DEF TypeOK
  <2>2. Window(pmRd[s], head[s]) \subseteq live'[s]
    BY <1>0, <2>1 DEF StreamInv, QueueIsMapped, ClaimIsFetched
  <2>3. QueueIsMapped(s)'
    BY <1>1, <2>2 DEF QueueIsMapped, Window, Dist
  <2>4. Window(rd[s], rd[s]) = {}
    BY <1>0, DistFacts, EmptyWindow
  <2>5. ClaimIsFetched(s)'
    BY <1>1, <1>2, <2>1, <2>4 DEF ClaimIsFetched, Window, Dist
  <2>6. SendFollowsHead(s)' /\ SendHasRoom(s)' /\ QueueIsFlagged(s)'
    BY <1>0, <1>1, <1>3 DEF StreamInv, SendFollowsHead, SendHasRoom, QueueIsFlagged, Window,
                            Dist, AlmSlot, Inc
  <2> QED
    BY <2>3, <2>5, <2>6 DEF StreamInv
<1>5. ASSUME NEW u \in Streams, u # s PROVE StreamInv(u)'
  <2>1. tail'[u] = tail[u] /\ live'[u] = live[u] /\ StreamInv(u)
    BY <1>0, <1>1, <1>5 DEF TypeOK, QueueInv
  <2> QED
    BY <1>1, <1>2, <1>3, <2>1, SameStream
<1>6. QED
  BY <1>1, <1>2, <1>4, <1>5

\* Every step on one CPU keeps the queue invariant, with any fragments.
LEMMA StepQueueInv ==
  ASSUME SMP = FALSE, Reopen = FALSE
  PROVE  QueueInv /\ [Next]_vars => QueueInv'
<1> SUFFICES ASSUME QueueInv, [Next]_vars PROVE QueueInv'
  OBVIOUS
<1>0. TypeOK' /\ ScanInv
  BY StepTypeOK DEF QueueInv, ScanInv
<1> SUFFICES ScanMatchesTail' /\ IrqSane' /\ LockExcludesIrq' /\ \A u \in Streams : StreamInv(u)'
  BY <1>0 DEF QueueInv, ScanInv
<1>1. ASSUME NEW s \in Streams, NEW nf \in 0 .. MaxFrag, XmitBusy(s, nf)
      PROVE  ScanMatchesTail' /\ IrqSane' /\ LockExcludesIrq' /\ \A u \in Streams : StreamInv(u)'
  <2>1. UNCHANGED <<dev, opn, torn, head, tail, rd, live, xm, irq, uff, pmRd, pmWr, ffi>>
    BY <1>1 DEF XmitBusy, hw
  <2>2. ScanMatchesTail' /\ IrqSane' /\ LockExcludesIrq'
    BY <1>0, <2>1, QuietKeepsScan
    DEF Scanning, Settled, ScanInv, IrqSane, QueueInv, LockExcludesIrq, Locked
  <2>3. ASSUME NEW u \in Streams PROVE StreamInv(u)'
    <3>1. (Sending(u)' <=> Sending(u)) /\ StreamInv(u)
      BY <2>1 DEF Sending, Locked, QueueInv
    <3> QED
      BY <2>1, <3>1, SameStream
  <2> QED
    BY <2>2, <2>3
<1>2. ASSUME NEW s \in Streams, NEW nf \in 0 .. MaxFrag, XmitFirstBd(s, nf)
      PROVE  ScanMatchesTail' /\ IrqSane' /\ LockExcludesIrq' /\ \A u \in Streams : StreamInv(u)'
  BY <1>2, XmitFirstBdKeepsQueue
<1>3. CASE XmitFrag
  BY <1>3, XmitFragKeepsQueue
<1>4. CASE XmitFirstAlm
  BY <1>4, XmitFirstAlmKeepsQueue
<1>5. CASE XmitPm
  BY <1>5, XmitPmKeepsQueue
<1>6. ASSUME NEW s \in Streams, HwFetch(s)
      PROVE  ScanMatchesTail' /\ IrqSane' /\ LockExcludesIrq' /\ \A u \in Streams : StreamInv(u)'
  BY <1>6, HwFetchKeepsQueue
<1>7. CASE IrqQuiet
  BY <1>7, IrqQuietKeepsQueue
<1>8. CASE IrqAdvance
  BY <1>8, IrqAdvanceKeepsQueue
<1>9. CASE XmitDone
  BY <1>9, XmitDoneKeepsQueue
<1>10. ~Stop /\ ~StopFreeIrq /\ ~Open
  BY DEF Stop, StopFreeIrq, Open, OpenIrq, OpenHead, OpenTail, OpenRd, QueueInv, LockExcludesIrq
<1>11. CASE UNCHANGED vars
  <2>1. ScanMatchesTail' /\ IrqSane' /\ LockExcludesIrq'
    BY <1>0, <1>11, QuietKeepsScan
    DEF vars, Scanning, Settled, ScanInv, IrqSane, QueueInv, LockExcludesIrq, Locked
  <2>2. ASSUME NEW u \in Streams PROVE StreamInv(u)'
    <3>1. (Sending(u)' <=> Sending(u)) /\ StreamInv(u)
      BY <1>11 DEF vars, Sending, Locked, QueueInv
    <3> QED
      BY <1>11, <3>1, SameStream DEF vars
  <2> QED
    BY <2>1, <2>2
<1>12. QED
  BY <1>1, <1>2, <1>3, <1>4, <1>5, <1>6, <1>7, <1>8, <1>9, <1>10, <1>11
  DEF Next, Xmit, XmitStep, IrqStep, IrqQuiet

\* All queues are empty in the initial state.
LEMMA InitQueueInv == Init => QueueInv
<1> SUFFICES ASSUME Init PROVE QueueInv
  OBVIOUS
<1>1. ScanInv
  BY InitScanInv
<1>2. LockExcludesIrq /\ ~Locked
  BY DEF Init, LockExcludesIrq, Locked, XmIdle
<1>3. ASSUME NEW s \in Streams PROVE StreamInv(s)
  <2>1. 0 \in Slots /\ 1 \in Slots
    BY NAssumption DEF Slots
  <2>2. AlmSlot(1) = 0 /\ Dist(0, 0) = 0 /\ Window(0, 0) = {}
    BY <2>1, AlmSlotFacts, DistFacts, EmptyWindow
  <2>3. /\ head[s] = 0 /\ tail[s] = 0 /\ rd[s] = 0 /\ pmRd[s] = 0 /\ pmWr[s] = 1
        /\ ~Sending(s) /\ irq.pc = "idle"
    BY <1>2 DEF Init, Sending, IrqIdle
  <2> QED
    BY <2>2, <2>3 DEF StreamInv, SendFollowsHead, SendHasRoom, QueueIsMapped, QueueIsFlagged,
                      ClaimIsFetched
<1>4. QED
  BY <1>1, <1>2, <1>3 DEF QueueInv

\* On one CPU, for every ring size, number of streams and number of fragments,
\* the hardware only holds mapped buffers and agrees with the driver on where
\* the next one goes, although a long frame may overrun tx_bd_tail.
THEOREM HwQueueIsSound ==
  ASSUME SMP = FALSE, Reopen = FALSE
  PROVE  Spec => []QueueIsSound
<1>1. QueueInv => QueueIsSound
  <2> SUFFICES ASSUME QueueInv PROVE HwQueueIsLive /\ IndicesAgree
    BY DEF QueueIsSound
  <2>1. ASSUME NEW s \in Streams PROVE HwQueue(s) \subseteq live[s]
    <3>1. pmRd[s] \in Slots /\ head[s] \in Slots /\ AlmSlot(pmWr[s]) \in Slots
      BY AlmSlotType DEF QueueInv, ScanInv, TypeOK
    <3>2. Dist(pmRd[s], AlmSlot(pmWr[s])) <= Dist(pmRd[s], head[s])
      BY DEF QueueInv, StreamInv, SendHasRoom
    <3>3. ASSUME NEW i \in Slots, Dist(pmRd[s], i) < Dist(pmRd[s], AlmSlot(pmWr[s]))
          PROVE  Dist(pmRd[s], i) < Dist(pmRd[s], head[s])
      <4>1. /\ Dist(pmRd[s], i) \in 0 .. N - 1 /\ Dist(pmRd[s], head[s]) \in 0 .. N - 1
            /\ Dist(pmRd[s], AlmSlot(pmWr[s])) \in 0 .. N - 1
        BY <3>1, DistFacts
      <4> QED
        BY <3>2, <3>3, <4>1, NAssumption
    <3> QED
      BY <3>3 DEF HwQueue, Window, QueueInv, StreamInv, QueueIsMapped
  <2>2. ASSUME ~Locked, NEW s \in Streams PROVE AlmSlot(pmWr[s]) = head[s]
    BY <2>2 DEF QueueInv, StreamInv, SendFollowsHead, Sending
  <2> QED
    BY <2>1, <2>2 DEF HwQueueIsLive, IndicesAgree
<1>2. QED
  BY <1>1, InitQueueInv, StepQueueInv, PTL DEF Spec

=============================================================================
