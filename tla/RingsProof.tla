----------------------------- MODULE RingsProof -----------------------------
(***************************************************************************)
(* Proofs about the descriptor rings and buffers of the network drivers     *)
(* (AxiDma, Emaclite, LlTemac), for rings of any size and any number of     *)
(* frames.  What a ring holds is a window of slots: the driver reclaims at  *)
(* its tail, the device works in the middle, and the driver fills at its    *)
(* head.  Each part has its inductive invariant: its types, its window, and *)
(* the properties that the window makes inductive.                          *)
(***************************************************************************)
EXTENDS AxiDma, Emaclite, LlTemac, FiniteSetTheorems, TLAPS

----------------------------------------------------------------------------
(* Rings of n slots: the slot j places behind slot c.                      *)

RgSlot(c, j, n) == IF c + j < n THEN c + j ELSE c + j - n

LEMMA SlotFacts ==
  ASSUME NEW n \in Nat \ {0}, NEW c \in 0 .. (n - 1), NEW j \in 0 .. n
  PROVE  /\ (c + j) % n = RgSlot(c, j, n) /\ RgSlot(c, j, n) \in 0 .. (n - 1)
         /\ (c + 1) % n = RgSlot(c, 1, n) /\ (c + n) % n = c
         /\ RgSlot(c, 0, n) = c
<1>1. ASSUME NEW i \in 0 .. n PROVE (c + i) % n = RgSlot(c, i, n) /\ RgSlot(c, i, n) \in 0 .. (n - 1)
  <2>1. CASE c + i < n
    <3>1. c + i \in 0 .. (n - 1)
      BY <2>1
    <3>2. QED
      BY <2>1, <3>1 DEF RgSlot
  <2>2. CASE ~(c + i < n)
    <3>1. c + i - n \in 0 .. (n - 1)
      BY <2>2
    <3>2. c + i = n * 1 + (c + i - n)
      OBVIOUS
    <3>3. (c + i) % n = c + i - n
      BY <3>1, <3>2
    <3>4. QED
      BY <2>2, <3>1, <3>3 DEF RgSlot
  <2>3. QED
    BY <2>1, <2>2
<1>2. RgSlot(c, n, n) = c /\ RgSlot(c, 0, n) = c
  BY DEF RgSlot
<1>3. 1 \in 0 .. n /\ n \in 0 .. n
  OBVIOUS
<1>4. QED
  BY <1>1, <1>2, <1>3

LEMMA SlotUnique ==
  ASSUME NEW n \in Nat \ {0}, NEW c \in 0 .. (n - 1), NEW i \in 0 .. (n - 1), NEW j \in 0 .. (n - 1),
         RgSlot(c, i, n) = RgSlot(c, j, n)
  PROVE  i = j
BY DEF RgSlot

LEMMA SlotOf ==
  ASSUME NEW n \in Nat \ {0}, NEW c \in 0 .. (n - 1), NEW x \in 0 .. (n - 1)
  PROVE  \E j \in 0 .. (n - 1) : x = RgSlot(c, j, n)
<1>1. CASE x >= c
  <2>1. x - c \in 0 .. (n - 1) /\ x = RgSlot(c, x - c, n)
    BY <1>1 DEF RgSlot
  <2>2. QED
    BY <2>1
<1>2. CASE ~(x >= c)
  <2>1. x - c + n \in 0 .. (n - 1) /\ x = RgSlot(c, x - c + n, n)
    BY <1>2 DEF RgSlot
  <2>2. QED
    BY <2>1
<1>3. QED
  BY <1>1, <1>2

LEMMA SlotSum ==
  ASSUME NEW n \in Nat \ {0}, NEW c \in 0 .. (n - 1), NEW i \in 0 .. n, NEW j \in 0 .. n, i + j <= n
  PROVE  RgSlot(RgSlot(c, i, n), j, n) = RgSlot(c, i + j, n)
BY DEF RgSlot

LEMMA SlotWrap ==
  ASSUME NEW n \in Nat \ {0}, NEW c \in 0 .. (n - 1), NEW i \in 0 .. n, NEW j \in 0 .. n, i + j >= n
  PROVE  RgSlot(RgSlot(c, i, n), j, n) = RgSlot(c, i + j - n, n)
BY DEF RgSlot

LEMMA SlotBack ==
  ASSUME NEW n \in Nat \ {0}, NEW r \in 0 .. (n - 1) PROVE r % n = r /\ (r - n) % n = r
<1>1. r - n = n * (-1) + r
  OBVIOUS
<1>2. QED
  BY <1>1

LEMMA SlotsCount ==
  ASSUME NEW n \in Nat \ {0}, NEW c \in 0 .. (n - 1), NEW k \in 0 .. n
  PROVE  LET S == {RgSlot(c, j, n) : j \in 0 .. (k - 1)}
         IN  IsFiniteSet(S) /\ Cardinality(S) = k /\ S \subseteq 0 .. (n - 1)
<1> DEFINE S == {RgSlot(c, j, n) : j \in 0 .. (k - 1)}
           f == [j \in 0 .. (k - 1) |-> RgSlot(c, j, n)]
<1>1. \A j \in 0 .. (k - 1) : j \in 0 .. (n - 1) /\ j \in 0 .. n
  OBVIOUS
<1>2. S \subseteq 0 .. (n - 1)
  BY <1>1, SlotFacts
<1>3. f \in [0 .. (k - 1) -> S]
  OBVIOUS
<1>4. IsInjective(f)
  BY <1>1, SlotUnique DEF IsInjective
<1>5. \A x \in S : \E j \in 0 .. (k - 1) : f[j] = x
  OBVIOUS
<1>6. ExistsBijection(0 .. (k - 1), S)
  BY <1>3, <1>4, <1>5 DEF ExistsBijection, Bijection, Injection, Surjection
<1>7. IsFiniteSet(0 .. (k - 1)) /\ Cardinality(0 .. (k - 1)) = k
  BY FS_Interval
<1>8. IsFiniteSet(S) /\ Cardinality(S) = k
  BY <1>6, <1>7, FS_Bijection
<1>9. QED
  BY <1>2, <1>8

----------------------------------------------------------------------------
(* The receive ring of the AXI Ethernet driver (AxiDma).                    *)

ArRing == 0 .. (ArN - 1)

ArTypes ==
  /\ arBd \in [ArRing -> Nat] /\ arCi \in ArRing /\ arHw \in ArRing /\ arLeft \in Int
  /\ arCount \in Nat /\ arUp \in Seq(Nat)
  /\ arStatus \subseteq {"ioc", "err"} /\ arIrqOn \subseteq {"ioc", "err"}
  /\ arTasklet \in BOOLEAN /\ arPc \in {"idle", "sched", "loop", "recv", "end"}
  /\ arWork \in Nat /\ arLast \in {-1} \cup ArRing

\* Who enables the interrupt again: the poll routine and the error handler.
ArEnabled == ~arTasklet => "err" \in arIrqOn /\ (arPc = "idle" => "ioc" \in arIrqOn)

\* A frame that waits has its interrupt pending, unless the poll routine is to look at the
\* ring before it ends.
ArPending ==
  ~arTasklet /\ arCut = {} /\ arAgain = {} /\ arBd[arCi] # 0 =>
    \/ "ioc" \in arStatus
    \/ arPc = "recv"
    \/ arPc \in {"loop", "end"} /\ arWork >= ArQuota

\* The ring holds the last w frames that came, in their order, from rx_bd_ci on; those handed
\* up came before them.
ArOrder(w) ==
  /\ w <= arCount /\ arHw = RgSlot(arCi, w, ArN)
  /\ \A j \in 0 .. (ArN - 1) :
        arBd[RgSlot(arCi, j, ArN)] = IF j < w THEN arCount - w + 1 + j ELSE 0
  /\ arUp # << >> => arUp[Len(arUp)] \in arAgain \/ arUp[Len(arUp)] <= arCount - w

ArInv == ArTypes /\ ArEnabled /\ ArPending /\ ArInOrder /\ \E w \in 0 .. ArN : ArOrder(w)

LEMMA ArConsts == ArN \in Nat \ {0} /\ ArQuota \in Nat \ {0} /\ ArFrames \in Nat
BY AxAssumption

\* A frame handed up after the last one that came before it.
LEMMA ArHandUp ==
  ASSUME ArTypes, ArInOrder, NEW x \in Nat, arUp' = Append(arUp, x), arAgain \subseteq arAgain',
         arUp # << >> => arUp[Len(arUp)] \in arAgain \/ arUp[Len(arUp)] < x
  PROVE  ArInOrder' /\ arUp' \in Seq(Nat) /\ arUp' # << >> /\ arUp'[Len(arUp')] = x
<1>1. arUp \in Seq(Nat) /\ Len(arUp) \in Nat
  BY DEF ArTypes
<1>2. /\ arUp' \in Seq(Nat) /\ Len(arUp') = Len(arUp) + 1 /\ arUp'[Len(arUp) + 1] = x
      /\ \A i \in 1 .. Len(arUp) : arUp'[i] = arUp[i]
  BY <1>1
<1>3. ASSUME NEW i \in 1 .. (Len(arUp') - 1)
      PROVE  arUp'[i] < arUp'[i + 1] \/ arUp'[i] \in arAgain'
  <2>1. CASE i = Len(arUp)
    <3>1. arUp # << >>
      BY <1>1, <1>2, <2>1
    <3>2. QED
      BY <1>1, <1>2, <2>1, <3>1
  <2>2. CASE i # Len(arUp)
    <3>1. i \in 1 .. (Len(arUp) - 1) /\ i \in 1 .. Len(arUp) /\ i + 1 \in 1 .. Len(arUp)
      BY <1>1, <1>2, <2>2
    <3>2. arUp[i] < arUp[i + 1] \/ arUp[i] \in arAgain
      BY <3>1 DEF ArInOrder
    <3>3. QED
      BY <1>2, <3>1, <3>2
  <2>3. QED
    BY <2>1, <2>2
<1>4. ArInOrder'
  BY <1>3 DEF ArInOrder
<1>5. QED
  BY <1>1, <1>2, <1>4

LEMMA ArStarts == ArInit => ArInv
<1> SUFFICES ASSUME ArInit PROVE ArInv
  OBVIOUS
<1>1. ArTypes
  BY ArConsts DEF ArInit, ArTypes, ArRing
<1>2. ArEnabled /\ ArInOrder
  BY DEF ArInit, ArEnabled, ArInOrder
<1>3. 0 \in 0 .. (ArN - 1)
  BY ArConsts
<1>4. ArPending
  BY <1>3 DEF ArInit, ArPending
<1>5. ArOrder(0) /\ 0 \in 0 .. ArN
  <2>1. \A j \in 0 .. (ArN - 1) : RgSlot(0, j, ArN) \in 0 .. (ArN - 1)
    BY ArConsts, <1>3, SlotFacts
  <2>2. RgSlot(0, 0, ArN) = 0
    BY ArConsts, <1>3, SlotFacts
  <2>3. QED
    BY ArConsts, <2>1, <2>2 DEF ArInit, ArOrder
<1>6. QED
  BY <1>1, <1>2, <1>4, <1>5 DEF ArInv

LEMMA ArHwRecvInv == ASSUME ArInv, ArHwRecv PROVE ArInv'
<1>1. PICK w \in 0 .. ArN : ArOrder(w)
  BY DEF ArInv
<1>2. ArTypes /\ ArN \in Nat \ {0}
  BY ArConsts DEF ArInv
<1>3. arCi \in 0 .. (ArN - 1) /\ arHw \in 0 .. (ArN - 1) /\ arBd \in [0 .. (ArN - 1) -> Nat] /\ arCount \in Nat
  BY <1>2 DEF ArTypes, ArRing
<1>4. w < ArN
  <2>1. CASE w = ArN
    <3>1. arHw = arCi
      BY <1>1, <1>2, <1>3, <2>1 DEF ArOrder, RgSlot
    <3>2. 0 \in 0 .. (ArN - 1) /\ RgSlot(arCi, 0, ArN) = arCi
      BY <1>2, <1>3, SlotFacts
    <3>3. arBd[arCi] = arCount - w + 1
      <4>1. arBd[RgSlot(arCi, 0, ArN)] = IF 0 < w THEN arCount - w + 1 + 0 ELSE 0
        BY <1>1, <3>2 DEF ArOrder
      <4>2. QED
        BY <1>2, <1>3, <2>1, <3>2, <4>1
    <3>4. QED
      BY <1>1, <1>3, <3>1, <3>3 DEF ArHwRecv, ArOrder
  <2>2. QED
    BY <1>2, <2>1
<1>5. /\ arCount' = arCount + 1 /\ arBd' = [arBd EXCEPT ![arHw] = arCount + 1]
      /\ arHw' = (arHw + 1) % ArN /\ arStatus' = arStatus \cup {"ioc"} /\ arLeft' = arLeft - 1
      /\ arCi' = arCi /\ arUp' = arUp /\ arAgain' = arAgain /\ arIrqOn' = arIrqOn
      /\ arTasklet' = arTasklet /\ arPc' = arPc /\ arWork' = arWork /\ arLast' = arLast /\ arCut' = arCut
  BY DEF ArHwRecv
<1>6. arHw' = RgSlot(arCi, w + 1, ArN) /\ arHw' \in 0 .. (ArN - 1)
  <2>1. arHw' = RgSlot(arHw, 1, ArN) /\ arHw = RgSlot(arCi, w, ArN)
    BY <1>1, <1>2, <1>3, <1>5, SlotFacts DEF ArOrder
  <2>2. RgSlot(RgSlot(arCi, w, ArN), 1, ArN) = RgSlot(arCi, w + 1, ArN)
    BY <1>2, <1>3, <1>4, SlotSum
  <2>3. w + 1 \in 0 .. ArN
    BY <1>2, <1>4
  <2>4. RgSlot(arCi, w + 1, ArN) \in 0 .. (ArN - 1)
    BY <1>2, <1>3, <2>3, SlotFacts
  <2>5. QED
    BY <2>1, <2>2, <2>4
<1>7. ArTypes'
  BY <1>2, <1>3, <1>5, <1>6 DEF ArTypes, ArRing
<1>8. ArEnabled' /\ ArPending' /\ ArInOrder'
  BY <1>5 DEF ArInv, ArEnabled, ArPending, ArInOrder
<1>9. ArOrder(w + 1)' /\ w + 1 \in 0 .. ArN
  <2>1. ASSUME NEW j \in 0 .. (ArN - 1)
        PROVE  arBd'[RgSlot(arCi, j, ArN)] = IF j < w + 1 THEN arCount + 1 - (w + 1) + 1 + j ELSE 0
    <3>1. arBd[RgSlot(arCi, j, ArN)] = IF j < w THEN arCount - w + 1 + j ELSE 0
      BY <1>1 DEF ArOrder
    <3>2. RgSlot(arCi, j, ArN) \in 0 .. (ArN - 1) /\ arHw = RgSlot(arCi, w, ArN) /\ w \in 0 .. (ArN - 1)
      <4>1. j \in 0 .. ArN
        BY <1>2
      <4>2. QED
        <5>1. RgSlot(arCi, j, ArN) \in 0 .. (ArN - 1)
          BY <1>2, <1>3, <4>1, SlotFacts
        <5>2. w \in 0 .. (ArN - 1)
          BY <1>2, <1>4
        <5>3. QED
          BY <1>1, <5>1, <5>2 DEF ArOrder
    <3>3. CASE j = w
      BY <1>3, <1>5, <3>2, <3>3
    <3>4. CASE j # w
      <4>1. RgSlot(arCi, j, ArN) # arHw
        BY <1>2, <1>3, <3>2, <3>4, SlotUnique
      <4>2. arBd'[RgSlot(arCi, j, ArN)] = arBd[RgSlot(arCi, j, ArN)]
        BY <1>3, <1>5, <3>2, <4>1
      <4>3. QED
        BY <1>3, <3>1, <3>4, <4>2
    <3>5. QED
      BY <3>3, <3>4
  <2>2. arCount + 1 - (w + 1) = arCount - w
    BY <1>3
  <2>3. w + 1 <= arCount + 1
    BY <1>1, <1>3 DEF ArOrder
  <2>4. arUp # << >> => arUp[Len(arUp)] \in arAgain \/ arUp[Len(arUp)] <= arCount - w
    BY <1>1 DEF ArOrder
  <2>5. w + 1 \in 0 .. ArN
    BY <1>2, <1>4
  <2> DEFINE v == w + 1
  <2> HIDE DEF v
  <2>6. ArOrder(v)'
    <3>1. \A j \in 0 .. (ArN - 1) :
             arBd'[RgSlot(arCi', j, ArN)] = IF j < v THEN arCount' - v + 1 + j ELSE 0
      BY <1>2, <1>3, <1>5, <2>1 DEF v
    <3>2. v <= arCount' /\ arHw' = RgSlot(arCi', v, ArN)
      BY <1>5, <1>6, <2>3 DEF v
    <3>3. arUp' # << >> => arUp'[Len(arUp')] \in arAgain' \/ arUp'[Len(arUp')] <= arCount' - v
      <4>1. arCount' - v = arCount - w
        BY <1>2, <1>3, <1>5, <2>2 DEF v
      <4>2. QED
        BY <1>5, <2>4, <4>1
    <3>4. QED
      BY <3>1, <3>2, <3>3 DEF ArOrder
  <2>7. QED
    BY <2>5, <2>6 DEF v
<1>10. QED
  <2> DEFINE v == w + 1
  <2>1. v \in 0 .. ArN /\ ArOrder(v)'
    BY <1>9
  <2> HIDE DEF v
  <2>2. \E x \in 0 .. ArN : ArOrder(x)'
    BY <2>1
  <2>3. QED
    BY <1>7, <1>8, <2>2 DEF ArInv

LEMMA ArSameRing ==
  ASSUME ArInv, UNCHANGED <<arBd, arCi, arHw, arCount, arUp>>, arAgain' = arAgain
  PROVE  ArInOrder' /\ \E w \in 0 .. ArN : ArOrder(w)'
<1>1. PICK w \in 0 .. ArN : ArOrder(w)
  BY DEF ArInv
<1>2. /\ arBd' = arBd /\ arCi' = arCi /\ arHw' = arHw /\ arCount' = arCount /\ arUp' = arUp
      /\ arAgain' = arAgain
  OBVIOUS
<1>3. ArInOrder' /\ ArOrder(w)'
  BY <1>1, <1>2 DEF ArInv, ArInOrder, ArOrder
<1>4. QED
  BY <1>3

LEMMA ArHwErrorInv == ASSUME ArInv, ArHwError PROVE ArInv'
<1>1. UNCHANGED <<arBd, arCi, arHw, arCount, arUp>> /\ arAgain' = arAgain
  BY DEF ArHwError
<1>2. ArInOrder' /\ \E w \in 0 .. ArN : ArOrder(w)'
  BY <1>1, ArSameRing
<1>3. ArTypes' /\ ArEnabled' /\ ArPending'
  BY DEF ArInv, ArHwError, ArTypes, ArEnabled, ArPending
<1>4. QED
  BY <1>2, <1>3 DEF ArInv

LEMMA ArIrqInv == ASSUME ArInv, ArIrq PROVE ArInv'
<1>1. UNCHANGED <<arBd, arCi, arHw, arCount, arUp>> /\ arAgain' = arAgain
  BY DEF ArIrq, ArQueueUnchanged
<1>2. ArInOrder' /\ \E w \in 0 .. ArN : ArOrder(w)'
  BY <1>1, ArSameRing
<1>3. CASE "err" \in arStatus
  <2>1. arStatus' = {} /\ arIrqOn' = {} /\ arTasklet' = TRUE
    BY <1>3 DEF ArIrq
  <2>2. ArTypes'
    <3>1. arTasklet' \in BOOLEAN
      BY <2>1
    <3>2. /\ arPc' \in {"idle", "sched", "loop", "recv", "end"}
          /\ arWork' = arWork /\ arLast' = arLast /\ arLeft' = arLeft
      BY DEF ArInv, ArIrq, ArQueueUnchanged, ArTypes
    <3>3. arStatus' \subseteq {"ioc", "err"} /\ arIrqOn' \subseteq {"ioc", "err"}
      BY <2>1
    <3>4. QED
      BY <1>1, <3>1, <3>2, <3>3 DEF ArInv, ArTypes
  <2>3. ArEnabled' /\ ArPending'
    BY <2>1 DEF ArEnabled, ArPending
  <2>4. QED
    BY <1>2, <2>2, <2>3 DEF ArInv
<1>4. CASE "err" \notin arStatus
  <2>1. "ioc" \in arStatus
    BY <1>4 DEF ArInv, ArIrq, ArTypes
  <2>2. /\ arPc' = IF arPc = "idle" THEN "sched" ELSE arPc
        /\ arIrqOn' = arIrqOn \ {"ioc"} /\ arStatus' = arStatus /\ arTasklet' = arTasklet
        /\ arWork' = arWork /\ arLast' = arLast /\ arCut' = arCut
    BY <1>4, <2>1 DEF ArIrq
  <2>3. ArTypes'
    <3>1. ArTypes
      BY DEF ArInv
    <3>2. arPc' \in {"idle", "sched", "loop", "recv", "end"} /\ arIrqOn' \subseteq {"ioc", "err"}
      BY <2>2, <3>1 DEF ArTypes
    <3>3. arTasklet' \in BOOLEAN
      BY <2>2, <3>1 DEF ArTypes
    <3>4. /\ arStatus' = arStatus /\ arWork' = arWork /\ arLast' = arLast /\ arLeft' = arLeft
      BY <2>2 DEF ArIrq, ArQueueUnchanged
    <3>5. QED
      BY <1>1, <3>1, <3>2, <3>3, <3>4 DEF ArTypes
  <2>4. ArEnabled'
    BY <2>2 DEF ArInv, ArEnabled, ArTypes
  <2>5. ArPending'
    BY <2>1, <2>2 DEF ArPending
  <2>6. QED
    BY <1>2, <2>3, <2>4, <2>5 DEF ArInv
<1>5. QED
  BY <1>3, <1>4

LEMMA ArErrHandlerInv == ASSUME ArInv, ArErrHandler PROVE ArInv'
<1>1. /\ arTasklet' = FALSE /\ arBd' = [i \in DOMAIN arBd |-> 0] /\ arCi' = 0 /\ arHw' = 0
      /\ arLeft' = ArN /\ arStatus' = {} /\ arIrqOn' = {"ioc", "err"}
      /\ UNCHANGED <<arCount, arUp, arPc, arWork, arLast, arAgain, arCut>>
  BY DEF ArErrHandler
<1>2. ArTypes /\ ArN \in Nat \ {0} /\ DOMAIN arBd = ArRing /\ 0 \in ArRing
  BY ArConsts DEF ArInv, ArTypes, ArRing
<1>3. ArTypes'
  <2>1. arBd' \in [ArRing -> Nat]
    BY <1>1, <1>2
  <2>2. arTasklet' \in BOOLEAN
    BY <1>1
  <2>3. QED
    BY <1>1, <1>2, <2>1, <2>2 DEF ArTypes
<1>4. ArEnabled'
  BY <1>1 DEF ArEnabled
<1>5. ArPending'
  BY <1>1, <1>2 DEF ArPending
<1>6. ArInOrder'
  BY <1>1 DEF ArInv, ArInOrder
<1>7. ArOrder(0)' /\ 0 \in 0 .. ArN
  <2>1. PICK w \in 0 .. ArN : ArOrder(w)
    BY DEF ArInv
  <2>2. arCount \in Nat /\ arUp \in Seq(Nat)
    BY <1>2 DEF ArTypes
  <2>3. arUp # << >> => arUp[Len(arUp)] \in arAgain \/ arUp[Len(arUp)] <= arCount
    <3>1. HAVE arUp # << >>
    <3>2. arUp[Len(arUp)] \in Nat
      BY <2>2, <3>1
    <3>3. QED
      BY <1>2, <2>1, <2>2, <3>1, <3>2 DEF ArOrder
  <2>4. \A j \in 0 .. (ArN - 1) : RgSlot(0, j, ArN) \in ArRing
    <3>1. 0 \in 0 .. (ArN - 1) /\ 0 .. (ArN - 1) \subseteq 0 .. ArN
      BY <1>2
    <3>2. QED
      BY <1>2, <3>1, SlotFacts DEF ArRing
  <2>5. \A j \in 0 .. (ArN - 1) : arBd'[RgSlot(0, j, ArN)] = IF j < 0 THEN arCount - 0 + 1 + j ELSE 0
    BY <1>1, <1>2, <2>4
  <2>6. 0 = RgSlot(0, 0, ArN) /\ 0 <= arCount
    BY <1>2, <2>2 DEF RgSlot
  <2>7. arCount - 0 = arCount
    BY <2>2
  <2>8. QED
    BY <1>1, <1>2, <2>2, <2>3, <2>5, <2>6, <2>7 DEF ArOrder
<1>8. \E w \in 0 .. ArN : ArOrder(w)'
  BY <1>7
<1>9. QED
  BY <1>3, <1>4, <1>5, <1>6, <1>8 DEF ArInv

LEMMA ArPollStartInv == ASSUME ArInv, ArPollStart PROVE ArInv'
<1>1. UNCHANGED <<arBd, arCi, arHw, arCount, arUp>> /\ arAgain' = arAgain
  BY DEF ArPollStart, ArQueueUnchanged
<1>2. ArInOrder' /\ \E w \in 0 .. ArN : ArOrder(w)'
  BY <1>1, ArSameRing
<1>3. ArTypes' /\ ArEnabled' /\ ArPending'
  BY DEF ArInv, ArPollStart, ArQueueUnchanged, ArTypes, ArEnabled, ArPending
<1>4. QED
  BY <1>2, <1>3 DEF ArInv

LEMMA ArPollInv == ASSUME ArInv, ArPoll PROVE ArInv'
<1>1. UNCHANGED <<arBd, arCi, arHw, arCount, arUp>> /\ arAgain' = arAgain
  BY DEF ArPoll, ArQueueUnchanged
<1>2. ArInOrder' /\ \E w \in 0 .. ArN : ArOrder(w)'
  BY <1>1, ArSameRing
<1>3. arStatus' \subseteq arStatus /\ arPc' \in {"end", "recv"}
  BY DEF ArPoll
<1>4. ArTypes'
  BY <1>1, <1>3, ArConsts DEF ArInv, ArPoll, ArQueueUnchanged, ArTypes
<1>5. ArEnabled'
  BY <1>3 DEF ArInv, ArPoll, ArEnabled
<1>6. ArPending'
  <2>1. CASE "ioc" \in arStatus /\ arWork < ArQuota
    <3>1. "err" \in arStatus => arCut' # {}
      BY <2>1 DEF ArPoll
    <3>2. "err" \notin arStatus => arPc' = "recv"
      BY <2>1 DEF ArPoll
    <3>3. QED
      BY <3>1, <3>2 DEF ArPending
  <2>2. CASE ~("ioc" \in arStatus /\ arWork < ArQuota)
    <3>1. arPc' = "end" /\ arPc = "loop" /\ arStatus' = arStatus /\ arWork' = arWork /\ arTasklet' = arTasklet
      BY <2>2 DEF ArPoll
    <3>2. arCut' = {} => arCut = {}
      BY DEF ArPoll
    <3>3. QED
      BY <1>1, <3>1, <3>2 DEF ArInv, ArPending
  <2>3. QED
    BY <2>1, <2>2
<1>7. QED
  BY <1>2, <1>4, <1>5, <1>6 DEF ArInv

LEMMA Remainder == ASSUME NEW a \in Int, NEW n \in Nat \ {0} PROVE a % n \in 0 .. (n - 1)
OBVIOUS

LEMMA ArTailType == ASSUME ArTypes, NEW last \in {-1} \cup ArRing PROVE ArTail(last) \in Int
<1>1. ArN \in Nat \ {0} /\ arHw \in Int /\ arLeft \in Int /\ last \in Int
  BY ArConsts DEF ArTypes, ArRing
<1>2. (last - arHw) % ArN \in 0 .. (ArN - 1)
  BY <1>1, Remainder
<1>3. QED
  BY <1>1, <1>2 DEF ArTail

LEMMA ArRecvEndInv == ASSUME ArInv, ArRecvEnd PROVE ArInv'
<1>1. UNCHANGED <<arBd, arCi, arHw, arCount, arUp>> /\ arAgain' = arAgain
  BY DEF ArRecvEnd
<1>2. ArInOrder' /\ \E w \in 0 .. ArN : ArOrder(w)'
  BY <1>1, ArSameRing
<1>3. ArTail(arLast) \in Int
  BY ArTailType DEF ArInv, ArTypes
<1>4. ArTypes'
  BY <1>1, <1>3 DEF ArInv, ArRecvEnd, ArTypes
<1>5. ArEnabled'
  BY DEF ArInv, ArRecvEnd, ArEnabled
<1>6. ArPending'
  BY ArConsts DEF ArInv, ArRecvEnd, ArPending, ArTypes
<1>7. QED
  BY <1>2, <1>4, <1>5, <1>6 DEF ArInv

LEMMA ArPollEndInv == ASSUME ArInv, ArPollEnd PROVE ArInv'
<1>1. UNCHANGED <<arBd, arCi, arHw, arCount, arUp>> /\ arAgain' = arAgain
  BY DEF ArPollEnd, ArQueueUnchanged
<1>2. ArInOrder' /\ \E w \in 0 .. ArN : ArOrder(w)'
  BY <1>1, ArSameRing
<1>3. ArTypes'
  BY DEF ArInv, ArPollEnd, ArQueueUnchanged, ArTypes
<1>4. ArEnabled'
  BY DEF ArInv, ArPollEnd, ArEnabled
<1>5. ArPending'
  <2>1. CASE arWork < ArQuota
    BY <1>1, <2>1, ArConsts DEF ArInv, ArPollEnd, ArPending, ArTypes
  <2>2. CASE ~(arWork < ArQuota)
    <3>1. arCut' # {}
      BY <2>2 DEF ArPollEnd
    <3>2. QED
      BY <3>1 DEF ArPending
  <2>3. QED
    BY <2>1, <2>2
<1>6. QED
  BY <1>2, <1>3, <1>4, <1>5 DEF ArInv

\* The frame at rx_bd_ci is the oldest in the ring.
LEMMA ArOldest ==
  ASSUME ArTypes, NEW w \in 0 .. ArN, ArOrder(w), arBd[arCi] # 0
  PROVE  /\ w > 0 /\ arBd[arCi] = arCount - w + 1 /\ arBd[arCi] \in Nat
         /\ arUp # << >> => arUp[Len(arUp)] \in arAgain \/ arUp[Len(arUp)] < arBd[arCi]
<1>1. ArN \in Nat \ {0} /\ arCi \in 0 .. (ArN - 1) /\ arCount \in Nat /\ arUp \in Seq(Nat)
  BY ArConsts DEF ArTypes, ArRing
<1>2. 0 \in 0 .. (ArN - 1) /\ RgSlot(arCi, 0, ArN) = arCi
  BY <1>1, SlotFacts
<1>3. arBd[RgSlot(arCi, 0, ArN)] = IF 0 < w THEN arCount - w + 1 + 0 ELSE 0
  BY <1>2 DEF ArOrder
<1>4. w > 0 /\ arBd[arCi] = arCount - w + 1 /\ w <= arCount
  BY <1>1, <1>2, <1>3 DEF ArOrder
<1>5. ASSUME arUp # << >> PROVE arUp[Len(arUp)] \in Nat
  BY <1>1, <1>5
<1>6. QED
  BY <1>1, <1>4, <1>5 DEF ArOrder

LEMMA ArNoBufferInv == ASSUME ArInv, ArNoBuffer PROVE ArInv'
<1>1. PICK w \in 0 .. ArN : ArOrder(w)
  BY DEF ArInv
<1>2. /\ arUp' = Append(arUp, arBd[arCi]) /\ arAgain' = arAgain \cup {arBd[arCi]}
      /\ arLast' = arCi /\ arLeft' = ArTail(arCi) /\ arPc' = "loop"
      /\ arBd' = arBd /\ arCi' = arCi /\ arHw' = arHw /\ arCount' = arCount /\ arStatus' = arStatus
      /\ arIrqOn' = arIrqOn /\ arTasklet' = arTasklet /\ arWork' = arWork /\ arCut' = arCut
      /\ arBd[arCi] # 0 /\ arPc = "recv"
  BY DEF ArNoBuffer
<1>3. /\ arBd[arCi] \in Nat
      /\ arUp # << >> => arUp[Len(arUp)] \in arAgain \/ arUp[Len(arUp)] < arBd[arCi]
  BY <1>1, <1>2, ArOldest DEF ArInv
<1>4. ArInOrder' /\ arUp' \in Seq(Nat) /\ arUp' # << >> /\ arUp'[Len(arUp')] = arBd[arCi]
  <2>1. arAgain \subseteq arAgain'
    BY <1>2
  <2>2. arUp' = Append(arUp, arBd[arCi])
    BY <1>2
  <2> DEFINE x == arBd[arCi]
  <2>3. x \in Nat /\ arUp' = Append(arUp, x) /\ (arUp # << >> => arUp[Len(arUp)] \in arAgain \/ arUp[Len(arUp)] < x)
    BY <1>3, <2>2
  <2> HIDE DEF x
  <2>4. ArInOrder' /\ arUp' \in Seq(Nat) /\ arUp' # << >> /\ arUp'[Len(arUp')] = x
    BY <2>1, <2>3, ArHandUp DEF ArInv
  <2>5. QED
    BY <2>4 DEF x
<1>5. ArTail(arCi) \in Int
  BY ArTailType DEF ArInv, ArTypes
<1>6. ArTypes'
  BY <1>2, <1>4, <1>5 DEF ArInv, ArTypes
<1>7. ArEnabled'
  BY <1>2 DEF ArInv, ArEnabled
<1>8. ArPending'
  BY <1>2 DEF ArPending
<1>9. ArOrder(w)'
  BY <1>1, <1>2, <1>4 DEF ArOrder
<1>10. \E v \in 0 .. ArN : ArOrder(v)'
  BY <1>9
<1>11. QED
  BY <1>4, <1>6, <1>7, <1>8, <1>10 DEF ArInv

LEMMA ArRecvOneInv == ASSUME ArInv, ArRecvOne PROVE ArInv'
<1>1. PICK w \in 0 .. ArN : ArOrder(w)
  BY DEF ArInv
<1>2. /\ arUp' = Append(arUp, arBd[arCi]) /\ arLast' = arCi
      /\ arBd' = [arBd EXCEPT ![arCi] = 0] /\ arCi' = (arCi + 1) % ArN /\ arWork' = arWork + 1
      /\ arHw' = arHw /\ arLeft' = arLeft /\ arCount' = arCount /\ arStatus' = arStatus
      /\ arIrqOn' = arIrqOn /\ arTasklet' = arTasklet /\ arPc' = arPc /\ arAgain' = arAgain
      /\ arCut' = arCut /\ arBd[arCi] # 0 /\ arPc = "recv"
  BY DEF ArRecvOne
<1>3. /\ w > 0 /\ arBd[arCi] = arCount - w + 1 /\ arBd[arCi] \in Nat
      /\ arUp # << >> => arUp[Len(arUp)] \in arAgain \/ arUp[Len(arUp)] < arBd[arCi]
  BY <1>1, <1>2, ArOldest DEF ArInv
<1>4. ArInOrder' /\ arUp' \in Seq(Nat) /\ arUp' # << >> /\ arUp'[Len(arUp')] = arBd[arCi]
  <2> DEFINE x == arBd[arCi]
  <2>1. arAgain \subseteq arAgain'
    BY <1>2
  <2>2. x \in Nat /\ arUp' = Append(arUp, x) /\ (arUp # << >> => arUp[Len(arUp)] \in arAgain \/ arUp[Len(arUp)] < x)
    BY <1>2, <1>3
  <2> HIDE DEF x
  <2>3. ArInOrder' /\ arUp' \in Seq(Nat) /\ arUp' # << >> /\ arUp'[Len(arUp')] = x
    BY <2>1, <2>2, ArHandUp DEF ArInv
  <2>4. QED
    BY <2>3 DEF x
<1>5. /\ ArN \in Nat \ {0} /\ arCi \in 0 .. (ArN - 1) /\ arCount \in Nat
      /\ arBd \in [0 .. (ArN - 1) -> Nat]
  BY ArConsts DEF ArInv, ArTypes, ArRing
<1>6. arCi' = RgSlot(arCi, 1, ArN) /\ arCi' \in 0 .. (ArN - 1)
  <2>1. 1 \in 0 .. ArN
    BY <1>5
  <2>2. QED
    BY <1>2, <1>5, <2>1, SlotFacts
<1>7. ArTypes'
  BY <1>2, <1>4, <1>5, <1>6 DEF ArInv, ArTypes, ArRing
<1>8. ArEnabled' /\ ArPending'
  BY <1>2 DEF ArInv, ArEnabled, ArPending
<1> DEFINE v == w - 1
<1>9. v \in 0 .. ArN /\ v + 1 = w /\ v <= arCount
  BY <1>1, <1>3, <1>5 DEF ArOrder
<1>10. arHw' = RgSlot(arCi', v, ArN)
  <2>1. arHw = RgSlot(arCi, 1 + v, ArN)
    BY <1>1, <1>9 DEF ArOrder
  <2>2. 1 \in 0 .. ArN /\ 1 + v <= ArN
    BY <1>5, <1>9
  <2>3. QED
    BY <1>2, <1>5, <1>6, <1>9, <2>1, <2>2, SlotSum
<1>11. ASSUME NEW j \in 0 .. (ArN - 1)
       PROVE  arBd'[RgSlot(arCi', j, ArN)] = IF j < v THEN arCount - v + 1 + j ELSE 0
  <2>1. CASE j < ArN - 1
    <3>1. j + 1 \in 0 .. (ArN - 1) /\ 0 \in 0 .. (ArN - 1) /\ 1 \in 0 .. ArN /\ j \in 0 .. ArN /\ 1 + j <= ArN
          /\ j + 1 \in 0 .. ArN
      BY <1>5, <2>1
    <3>2. RgSlot(arCi', j, ArN) = RgSlot(arCi, 1 + j, ArN)
      BY <1>5, <1>6, <3>1, SlotSum
    <3>3. RgSlot(arCi, j + 1, ArN) # arCi /\ RgSlot(arCi, j + 1, ArN) \in 0 .. (ArN - 1)
      <4>1. RgSlot(arCi, 0, ArN) = arCi
        BY <1>5, <3>1, SlotFacts
      <4>2. j + 1 # 0
        OBVIOUS
      <4>3. RgSlot(arCi, j + 1, ArN) \in 0 .. (ArN - 1)
        BY <1>5, <3>1, SlotFacts
      <4>4. QED
        BY <1>5, <3>1, <4>1, <4>2, <4>3, SlotUnique
    <3>4. arBd[RgSlot(arCi, j + 1, ArN)] = IF j + 1 < w THEN arCount - w + 1 + (j + 1) ELSE 0
      BY <1>1, <3>1 DEF ArOrder
    <3>5. 1 + j = j + 1
      OBVIOUS
    <3>6. arBd'[RgSlot(arCi', j, ArN)] = arBd[RgSlot(arCi, j + 1, ArN)]
      BY <1>2, <1>5, <3>2, <3>3, <3>5
    <3>7. QED
      BY <1>5, <1>9, <3>4, <3>6
  <2>2. CASE j = ArN - 1
    <3>1. 1 \in 0 .. ArN /\ j \in 0 .. ArN /\ 1 + j >= ArN
      BY <1>5, <2>2
    <3>2. RgSlot(arCi', j, ArN) = RgSlot(arCi, 1 + j - ArN, ArN)
      BY <1>5, <1>6, <3>1, SlotWrap
    <3>3. 1 + j - ArN = 0
      BY <1>5, <2>2
    <3>4. RgSlot(arCi', j, ArN) = arCi
      BY <1>5, <3>1, <3>2, <3>3, SlotFacts
    <3>5. ~(j < v)
      BY <1>5, <1>9, <2>2
    <3>6. QED
      BY <1>2, <1>5, <3>4, <3>5
  <2>3. QED
    BY <1>5, <2>1, <2>2
<1>12. arUp'[Len(arUp')] <= arCount - v
  BY <1>3, <1>4, <1>5, <1>9
<1> HIDE DEF v
<1>13. ArOrder(v)'
  BY <1>2, <1>9, <1>10, <1>11, <1>12 DEF ArOrder
<1>14. \E x \in 0 .. ArN : ArOrder(x)'
  BY <1>9, <1>13
<1>15. QED
  BY <1>4, <1>7, <1>8, <1>14 DEF ArInv

LEMMA ArStutterInv == ASSUME ArInv, UNCHANGED arVars PROVE ArInv'
<1>1. UNCHANGED <<arBd, arCi, arHw, arCount, arUp>> /\ arAgain' = arAgain
  BY DEF arVars
<1>2. ArInOrder' /\ \E w \in 0 .. ArN : ArOrder(w)'
  BY <1>1, ArSameRing
<1>3. ArTypes' /\ ArEnabled' /\ ArPending'
  BY DEF arVars, ArInv, ArTypes, ArEnabled, ArPending
<1>4. QED
  BY <1>2, <1>3 DEF ArInv

LEMMA ArStep == ArInv /\ [ArNext]_arVars => ArInv'
BY ArHwRecvInv, ArHwErrorInv, ArIrqInv, ArErrHandlerInv, ArPollStartInv, ArPollInv, ArRecvOneInv,
   ArNoBufferInv, ArRecvEndInv, ArPollEndInv, ArStutterInv DEF ArNext

LEMMA ArInvMeans == ArInv => ArServed /\ ArInOrder
<1> SUFFICES ASSUME ArInv PROVE ArServed
  BY DEF ArInv
<1>1. arIrqOn \subseteq {"ioc", "err"}
  BY DEF ArInv, ArTypes
<1>2. QED
  BY <1>1 DEF ArInv, ArServed, ArEnabled, ArPending

----------------------------------------------------------------------------
(* The transmit ring of the AXI Ethernet driver (AxiDma).                   *)

AxTypes ==
  /\ axUp \in BOOLEAN /\ axStopped \in BOOLEAN /\ axReset \in BOOLEAN
  /\ axBd \in [AxRing -> [skb : Nat, ptp : Nat, done : BOOLEAN]]
  /\ axTail \in AxRing /\ axCi \in AxRing /\ axHw \in AxRing /\ axLeft \in Int
  /\ axRefs \in [AxSkb -> Int]

\* From tx_bd_ci on: h descriptors the hardware has done, and those up to d it has still to do.
AxWindow(h, d) ==
  /\ h <= d /\ axHw = RgSlot(axCi, h, AxN) /\ axTail = RgSlot(axCi, d, AxN) /\ axLeft = d - h
  /\ \A j \in 0 .. (AxN - 1) : axBd[RgSlot(axCi, j, AxN)].done <=> j < h
  /\ h > 0 => "ioc" \in axStatus

AxWindows == axUp => \E h, d \in 0 .. (AxN - 1) : AxWindow(h, d)

AxInv == AxTypes /\ AxWindows /\ AxHeld /\ AxWoken

LEMMA AxConsts ==
  /\ AxN \in Nat \ {0} /\ AxFrags \in Nat /\ AxFrags + 1 < AxN /\ AxSkbs \in Nat
  /\ AxRing = 0 .. (AxN - 1) /\ IsFiniteSet(AxRing) /\ AxSkb = 1 .. AxSkbs
  /\ 0 \in AxRing /\ 0 \notin AxSkb
<1>1. AxN \in Nat \ {0} /\ AxFrags \in Nat /\ AxFrags + 1 < AxN /\ AxSkbs \in Nat
  BY AxAssumption
<1>2. IsFiniteSet(0 .. (AxN - 1))
  BY <1>1, FS_Interval
<1>3. QED
  BY <1>1, <1>2 DEF AxRing, AxSkb

\* The descriptors of a set that remember buffer s, for its completion or its time stamp.
AxSkbIn(bd, S, s) == {i \in S : bd[i].skb = s}
AxPtpIn(bd, S, s) == {i \in S : bd[i].ptp = s}
AxUses(bd, s) == Cardinality(AxSkbIn(bd, AxRing, s)) + Cardinality(AxPtpIn(bd, AxRing, s))

LEMMA AxHeldIs ==
  AxHeld <=> \A s \in AxSkb \ axLost : AxUses(axBd, s) + (IF s \in axStack THEN 1 ELSE 0) <= axRefs[s]
BY DEF AxHeld, AxUses, AxSkbIn, AxPtpIn

LEMMA AxUsesType ==
  ASSUME NEW bd, NEW s
  PROVE  /\ IsFiniteSet(AxSkbIn(bd, AxRing, s)) /\ IsFiniteSet(AxPtpIn(bd, AxRing, s))
         /\ Cardinality(AxSkbIn(bd, AxRing, s)) \in Nat /\ Cardinality(AxPtpIn(bd, AxRing, s)) \in Nat
         /\ AxUses(bd, s) \in Nat
<1>1. AxSkbIn(bd, AxRing, s) \in SUBSET AxRing /\ AxPtpIn(bd, AxRing, s) \in SUBSET AxRing
  BY DEF AxSkbIn, AxPtpIn
<1>2. IsFiniteSet(AxSkbIn(bd, AxRing, s)) /\ IsFiniteSet(AxPtpIn(bd, AxRing, s))
  BY <1>1, AxConsts, FS_Subset
<1>3. Cardinality(AxSkbIn(bd, AxRing, s)) \in Nat /\ Cardinality(AxPtpIn(bd, AxRing, s)) \in Nat
  BY <1>2, FS_CardinalityType
<1>4. QED
  BY <1>2, <1>3 DEF AxUses

\* Nobody uses a buffer in a ring that is empty.
LEMMA AxUsesNone ==
  ASSUME NEW bd, NEW s, \A i \in AxRing : bd[i].skb # s /\ bd[i].ptp # s PROVE AxUses(bd, s) = 0
<1>1. AxSkbIn(bd, AxRing, s) = {} /\ AxPtpIn(bd, AxRing, s) = {}
  BY DEF AxSkbIn, AxPtpIn
<1>2. QED
  BY <1>1, FS_EmptySet DEF AxUses

\* Descriptors that forget their buffer are counted off.
LEMMA AxForgets ==
  ASSUME NEW T, NEW U, IsFiniteSet(T), U \subseteq T
  PROVE  Cardinality(T \ U) = Cardinality(T) - Cardinality(U)
<1>1. T \cap U = U
  OBVIOUS
<1>2. QED
  BY <1>1, FS_Difference

LEMMA AxEmptyFacts ==
  /\ AxEmpty \in [AxRing -> [skb : Nat, ptp : Nat, done : BOOLEAN]]
  /\ \A i \in AxRing : AxEmpty[i].skb = 0 /\ AxEmpty[i].ptp = 0 /\ AxEmpty[i].done = FALSE
  /\ \A s \in AxSkb : AxUses(AxEmpty, s) = 0
<1>1. AxClear \in [skb : Nat, ptp : Nat, done : BOOLEAN] /\ AxClear.skb = 0 /\ AxClear.ptp = 0 /\ AxClear.done = FALSE
  BY DEF AxClear
<1>2. \A i \in AxRing : AxEmpty[i] = AxClear
  BY DEF AxEmpty
<1>3. AxEmpty \in [AxRing -> [skb : Nat, ptp : Nat, done : BOOLEAN]]
  BY <1>1 DEF AxEmpty
<1>4. \A i \in AxRing : AxEmpty[i].skb = 0 /\ AxEmpty[i].ptp = 0 /\ AxEmpty[i].done = FALSE
  BY <1>1, <1>2
<1>5. ASSUME NEW s \in AxSkb PROVE AxUses(AxEmpty, s) = 0
  <2>1. s # 0
    BY AxConsts
  <2>2. QED
    BY <1>4, <2>1, AxUsesNone
<1>6. QED
  BY <1>3, <1>4, <1>5

LEMMA AxEmptyWindow ==
  ASSUME axCi = 0, axHw = 0, axTail = 0, axLeft = 0, \A i \in AxRing : axBd[i].done = FALSE
  PROVE  AxWindow(0, 0) /\ 0 \in 0 .. (AxN - 1)
<1>1. AxN \in Nat \ {0} /\ 0 \in 0 .. (AxN - 1)
  BY AxConsts
<1>2. RgSlot(0, 0, AxN) = 0
  BY <1>1, SlotFacts
<1>3. ASSUME NEW j \in 0 .. (AxN - 1) PROVE axBd[RgSlot(0, j, AxN)].done <=> j < 0
  <2>1. j \in 0 .. AxN
    BY <1>1
  <2>2. RgSlot(0, j, AxN) \in AxRing
    BY <1>1, <2>1, AxConsts, SlotFacts
  <2>3. QED
    BY <2>2
<1>4. QED
  BY <1>1, <1>2, <1>3 DEF AxWindow

LEMMA AxStarts == AxInit => AxInv
<1> SUFFICES ASSUME AxInit PROVE AxInv
  OBVIOUS
<1>1. AxTypes
  <2>1. axUp \in BOOLEAN
    BY DEF AxInit
  <2>2. axStopped \in BOOLEAN
    BY DEF AxInit
  <2>3. axReset \in BOOLEAN
    BY DEF AxInit
  <2>4. axBd = AxEmpty /\ axTail = 0 /\ axCi = 0 /\ axHw = 0 /\ axLeft = 0 /\ axRefs = [s \in AxSkb |-> 0]
    BY DEF AxInit
  <2>5. axBd \in [AxRing -> [skb : Nat, ptp : Nat, done : BOOLEAN]]
    BY <2>4, AxEmptyFacts
  <2>6. axTail \in AxRing /\ axCi \in AxRing /\ axHw \in AxRing /\ axLeft \in Int /\ axRefs \in [AxSkb -> Int]
    BY <2>4, AxConsts
  <2>7. QED
    BY <2>1, <2>2, <2>3, <2>5, <2>6 DEF AxTypes
<1>2. AxWindows /\ AxWoken
  BY DEF AxInit, AxWindows, AxWoken
<1>3. AxHeld
  <2>1. ASSUME NEW s \in AxSkb PROVE AxUses(axBd, s) + (IF s \in axStack THEN 1 ELSE 0) <= axRefs[s]
    BY AxEmptyFacts DEF AxInit
  <2>2. QED
    BY <2>1, AxHeldIs
<1>4. QED
  BY <1>1, <1>2, <1>3 DEF AxInv

LEMMA AddOne ==
  ASSUME NEW S, IsFiniteSet(S), NEW x
  PROVE  IsFiniteSet(S \cup {x}) /\ Cardinality(S \cup {x}) <= Cardinality(S) + 1
<1>1. Cardinality(S) \in Nat
  BY FS_CardinalityType
<1>2. CASE x \in S
  <2>1. S \cup {x} = S
    BY <1>2
  <2>2. IsFiniteSet(S \cup {x}) /\ Cardinality(S \cup {x}) = Cardinality(S)
    BY <2>1, Zenon
  <2>3. QED
    BY <1>1, <2>2
<1>3. CASE x \notin S
  <2>1. IsFiniteSet(S \cup {x}) /\ Cardinality(S \cup {x}) = Cardinality(S) + 1
    BY <1>3, FS_AddElement
  <2>2. QED
    BY <1>1, <2>1
<1>4. QED
  BY <1>2, <1>3

\* What one descriptor more costs.
LEMMA AxMarkedOnce ==
  ASSUME NEW bd, NEW new, NEW s, NEW x \in AxRing, NEW y \in AxRing,
         \A i \in AxRing : new[i].skb = s => bd[i].skb = s \/ i = x,
         \A i \in AxRing : new[i].ptp = s => bd[i].ptp = s \/ i = y
  PROVE  /\ Cardinality(AxSkbIn(new, AxRing, s)) <= Cardinality(AxSkbIn(bd, AxRing, s)) + 1
         /\ Cardinality(AxPtpIn(new, AxRing, s)) <= Cardinality(AxPtpIn(bd, AxRing, s)) + 1
<1>1. AxSkbIn(new, AxRing, s) \in SUBSET (AxSkbIn(bd, AxRing, s) \cup {x})
  BY DEF AxSkbIn
<1>2. AxPtpIn(new, AxRing, s) \in SUBSET (AxPtpIn(bd, AxRing, s) \cup {y})
  BY DEF AxPtpIn
<1>3. /\ IsFiniteSet(AxSkbIn(bd, AxRing, s) \cup {x})
      /\ Cardinality(AxSkbIn(bd, AxRing, s) \cup {x}) <= Cardinality(AxSkbIn(bd, AxRing, s)) + 1
  BY AxUsesType, AddOne
<1>4. /\ IsFiniteSet(AxPtpIn(bd, AxRing, s) \cup {y})
      /\ Cardinality(AxPtpIn(bd, AxRing, s) \cup {y}) <= Cardinality(AxPtpIn(bd, AxRing, s)) + 1
  BY AxUsesType, AddOne
<1>5. /\ Cardinality(AxSkbIn(new, AxRing, s)) <= Cardinality(AxSkbIn(bd, AxRing, s) \cup {x})
      /\ Cardinality(AxPtpIn(new, AxRing, s)) <= Cardinality(AxPtpIn(bd, AxRing, s) \cup {y})
  BY <1>1, <1>2, <1>3, <1>4, FS_Subset
<1>6. /\ Cardinality(AxSkbIn(bd, AxRing, s)) \in Nat /\ Cardinality(AxPtpIn(bd, AxRing, s)) \in Nat
      /\ Cardinality(AxSkbIn(new, AxRing, s)) \in Nat /\ Cardinality(AxPtpIn(new, AxRing, s)) \in Nat
      /\ Cardinality(AxSkbIn(bd, AxRing, s) \cup {x}) \in Nat
      /\ Cardinality(AxPtpIn(bd, AxRing, s) \cup {y}) \in Nat
  BY <1>3, <1>4, AxUsesType, FS_CardinalityType
<1>7. QED
  BY <1>3, <1>4, <1>5, <1>6

\* No descriptor more.
LEMMA AxMarkedLess ==
  ASSUME NEW bd, NEW new, NEW s,
         \A i \in AxRing : new[i].skb = s => bd[i].skb = s,
         \A i \in AxRing : new[i].ptp = s => bd[i].ptp = s
  PROVE  /\ Cardinality(AxSkbIn(new, AxRing, s)) <= Cardinality(AxSkbIn(bd, AxRing, s))
         /\ Cardinality(AxPtpIn(new, AxRing, s)) <= Cardinality(AxPtpIn(bd, AxRing, s))
         /\ AxUses(new, s) <= AxUses(bd, s)
<1>1. AxSkbIn(new, AxRing, s) \in SUBSET AxSkbIn(bd, AxRing, s)
  BY DEF AxSkbIn
<1>2. AxPtpIn(new, AxRing, s) \in SUBSET AxPtpIn(bd, AxRing, s)
  BY DEF AxPtpIn
<1>3. IsFiniteSet(AxSkbIn(bd, AxRing, s)) /\ IsFiniteSet(AxPtpIn(bd, AxRing, s))
  BY AxUsesType
<1>4. /\ Cardinality(AxSkbIn(new, AxRing, s)) <= Cardinality(AxSkbIn(bd, AxRing, s))
      /\ Cardinality(AxPtpIn(new, AxRing, s)) <= Cardinality(AxPtpIn(bd, AxRing, s))
  BY <1>1, <1>2, <1>3, FS_Subset
<1>5. /\ Cardinality(AxSkbIn(bd, AxRing, s)) \in Nat /\ Cardinality(AxPtpIn(bd, AxRing, s)) \in Nat
      /\ Cardinality(AxSkbIn(new, AxRing, s)) \in Nat /\ Cardinality(AxPtpIn(new, AxRing, s)) \in Nat
  BY AxUsesType
<1>6. QED
  BY <1>4, <1>5 DEF AxUses


LEMMA AxHeldNext ==
  AxHeld' <=> \A s \in AxSkb \ axLost' : AxUses(axBd', s) + (IF s \in axStack' THEN 1 ELSE 0) <= axRefs'[s]
BY DEF AxHeld, AxUses, AxSkbIn, AxPtpIn

\* A step that forgets descriptors and leaves the buffers alone.
LEMMA AxHeldKept ==
  ASSUME AxTypes, AxHeld, axRefs' = axRefs, axStack' = axStack, axLost' = axLost,
         \A s \in AxSkb : \A i \in AxRing : axBd'[i].skb = s => axBd[i].skb = s,
         \A s \in AxSkb : \A i \in AxRing : axBd'[i].ptp = s => axBd[i].ptp = s
  PROVE  AxHeld'
<1>1. ASSUME NEW s \in AxSkb \ axLost'
      PROVE  AxUses(axBd', s) + (IF s \in axStack' THEN 1 ELSE 0) <= axRefs'[s]
  <2>1. s \in AxSkb /\ s \in AxSkb \ axLost
    OBVIOUS
  <2>2. /\ \A i \in AxRing : axBd'[i].skb = s => axBd[i].skb = s
        /\ \A i \in AxRing : axBd'[i].ptp = s => axBd[i].ptp = s
    BY <2>1
  <2>3. AxUses(axBd', s) <= AxUses(axBd, s)
    BY <2>2, AxMarkedLess
  <2>4. AxUses(axBd, s) + (IF s \in axStack THEN 1 ELSE 0) <= axRefs[s]
    BY <2>1, AxHeldIs
  <2>5. AxUses(axBd, s) \in Nat /\ AxUses(axBd', s) \in Nat /\ axRefs[s] \in Int
    BY <2>1, AxUsesType DEF AxTypes
  <2>6. QED
    BY <2>3, <2>4, <2>5
<1>2. QED
  BY <1>1, AxHeldNext

LEMMA AxOpenKeeps == AxInv /\ AxOpen => AxInv'
<1> SUFFICES ASSUME AxInv, AxOpen PROVE AxInv'
  OBVIOUS
<1>1. /\ axBd' = AxEmpty /\ axTail' = 0 /\ axCi' = 0 /\ axHw' = 0 /\ axLeft' = 0
      /\ axRefs' = axRefs /\ axStack' = axStack /\ axLost' = axLost
  BY DEF AxOpen, AxQueueInit
<1>2. axUp' = TRUE
  BY DEF AxOpen
<1>3. axStopped' = FALSE
  BY DEF AxOpen
<1>4. axReset' = FALSE
  BY DEF AxOpen
<1>5. AxTypes'
  <2>1. axUp' \in BOOLEAN
    BY <1>2
  <2>2. axStopped' \in BOOLEAN
    BY <1>3
  <2>3. axReset' \in BOOLEAN
    BY <1>4
  <2>4. axBd' \in [AxRing -> [skb : Nat, ptp : Nat, done : BOOLEAN]]
    BY <1>1, AxEmptyFacts
  <2>5. axTail' \in AxRing /\ axCi' \in AxRing /\ axHw' \in AxRing /\ axLeft' \in Int
    BY <1>1, AxConsts
  <2>6. axRefs' \in [AxSkb -> Int]
    BY <1>1 DEF AxInv, AxTypes
  <2>7. QED
    BY <2>1, <2>2, <2>3, <2>4, <2>5, <2>6 DEF AxTypes
<1>6. AxWindows'
  <2>1. \A i \in AxRing : axBd'[i].done = FALSE
    BY <1>1, AxEmptyFacts
  <2>2. AxN \in Nat \ {0} /\ 0 \in 0 .. (AxN - 1) /\ RgSlot(0, 0, AxN) = 0
    BY AxConsts, SlotFacts
  <2>3. ASSUME NEW j \in 0 .. (AxN - 1) PROVE axBd'[RgSlot(0, j, AxN)].done <=> j < 0
    <3>1. j \in 0 .. AxN
      BY <2>2
    <3>2. RgSlot(0, j, AxN) \in AxRing
      BY <2>2, <3>1, AxConsts, SlotFacts
    <3>3. QED
      BY <2>1, <3>2
  <2>4. AxWindow(0, 0)'
    BY <1>1, <2>2, <2>3 DEF AxWindow
  <2>5. QED
    BY <2>2, <2>4 DEF AxWindows
<1>7. AxWoken'
  BY <1>3 DEF AxWoken
<1>8. AxHeld'
  <2>1. ASSUME NEW s \in AxSkb, NEW i \in AxRing PROVE axBd'[i].skb # s /\ axBd'[i].ptp # s
    BY <1>1, AxEmptyFacts, AxConsts
  <2>2. QED
    BY <1>1, <2>1, AxHeldKept DEF AxInv
<1>9. QED
  BY <1>5, <1>6, <1>7, <1>8 DEF AxInv

LEMMA AxStopKeeps == AxInv /\ AxStop => AxInv'
<1> SUFFICES ASSUME AxInv, AxStop PROVE AxInv'
  OBVIOUS
<1>1. /\ axBd' = AxEmpty /\ axLeft' = 0 /\ axTail' = axTail /\ axCi' = axCi /\ axHw' = axHw
      /\ axRefs' = axRefs /\ axStack' = axStack /\ axLost' = axLost
  BY DEF AxStop
<1>2. axUp' = FALSE
  BY DEF AxStop
<1>3. AxTypes'
  <2>1. axUp' \in BOOLEAN
    BY <1>2
  <2>2. axStopped' \in BOOLEAN
    BY DEF AxStop, AxInv, AxTypes
  <2>3. axReset' \in BOOLEAN
    BY DEF AxStop, AxInv, AxTypes
  <2>4. axBd' \in [AxRing -> [skb : Nat, ptp : Nat, done : BOOLEAN]]
    BY <1>1, AxEmptyFacts
  <2>5. axTail' \in AxRing /\ axCi' \in AxRing /\ axHw' \in AxRing /\ axLeft' \in Int /\ axRefs' \in [AxSkb -> Int]
    BY <1>1 DEF AxInv, AxTypes
  <2>6. QED
    BY <2>1, <2>2, <2>3, <2>4, <2>5 DEF AxTypes
<1>4. AxWindows'
  BY <1>2 DEF AxWindows
<1>5. AxWoken'
  BY <1>2 DEF AxWoken
<1>6. AxHeld'
  <2>1. ASSUME NEW s \in AxSkb, NEW i \in AxRing PROVE axBd'[i].skb # s /\ axBd'[i].ptp # s
    BY <1>1, AxEmptyFacts, AxConsts
  <2>2. QED
    BY <1>1, <2>1, AxHeldKept DEF AxInv
<1>7. QED
  BY <1>3, <1>4, <1>5, <1>6 DEF AxInv

LEMMA AxNewSkbKeeps == ASSUME AxInv, NEW s \in AxSkb, AxNewSkb(s) PROVE AxInv'
<1>1. /\ axRefs[s] = 0 /\ s \notin axStack /\ s \notin axLost
      /\ axRefs' = [axRefs EXCEPT ![s] = 1] /\ axStack' = axStack \cup {s}
      /\ UNCHANGED <<axBd, axTail, axCi, axHw, axLeft, axLost, axStatus>>
  BY DEF AxNewSkb
<1>2. UNCHANGED <<axUp, axStopped, axReset>>
  BY DEF AxNewSkb
<1>3. AxTypes'
  <2>1. axUp' \in BOOLEAN /\ axStopped' \in BOOLEAN /\ axReset' \in BOOLEAN
    BY <1>2 DEF AxInv, AxTypes
  <2>2. axRefs' \in [AxSkb -> Int]
    BY <1>1 DEF AxInv, AxTypes
  <2>3. /\ axBd' \in [AxRing -> [skb : Nat, ptp : Nat, done : BOOLEAN]]
        /\ axTail' \in AxRing /\ axCi' \in AxRing /\ axHw' \in AxRing /\ axLeft' \in Int
    BY <1>1 DEF AxInv, AxTypes
  <2>4. QED
    BY <2>1, <2>2, <2>3 DEF AxTypes
<1>4. AxWindows' /\ AxWoken'
  BY <1>1, <1>2 DEF AxInv, AxWindows, AxWindow, AxWoken
<1>5. AxHeld'
  <2>1. ASSUME NEW t \in AxSkb \ axLost'
        PROVE  AxUses(axBd', t) + (IF t \in axStack' THEN 1 ELSE 0) <= axRefs'[t]
    <3>1. AxUses(axBd, t) + (IF t \in axStack THEN 1 ELSE 0) <= axRefs[t] /\ axBd' = axBd /\ t \in AxSkb
      BY <1>1, AxHeldIs DEF AxInv
    <3>2. axRefs'[t] = IF t = s THEN 1 ELSE axRefs[t]
      BY <1>1, <3>1 DEF AxInv, AxTypes
    <3>3. AxUses(axBd, t) \in Nat
      BY AxUsesType
    <3>4. t \in axStack' <=> t \in axStack \/ t = s
      BY <1>1
    <3>5. QED
      BY <1>1, <3>1, <3>2, <3>3, <3>4
  <2>2. QED
    BY <2>1, AxHeldNext
<1>6. QED
  BY <1>3, <1>4, <1>5 DEF AxInv

\* axienet_check_tx_bd_space counts the free descriptors, and looks at one it may take.
LEMMA AxRoom ==
  ASSUME AxTypes, NEW h \in 0 .. (AxN - 1), NEW d \in 0 .. (AxN - 1), AxWindow(h, d), NEW n \in 0 .. AxFrags
  PROVE  /\ ~AxNoSpace(n) => d + n + 1 <= AxN - 1
         /\ AxNoSpace(n) => d > 0
<1>1. AxN \in Nat \ {0} /\ axCi \in 0 .. (AxN - 1) /\ axTail = RgSlot(axCi, d, AxN) /\ n + 1 < AxN /\ n \in Nat
  BY AxConsts DEF AxTypes, AxWindow
<1>2. (axCi - axTail - 1) % AxN = AxN - 1 - d
  <2>1. AxN - 1 - d \in 0 .. (AxN - 1)
    BY <1>1
  <2>2. CASE axCi + d < AxN
    <3>1. axCi - axTail - 1 = (AxN - 1 - d) - AxN
      BY <1>1, <2>2 DEF RgSlot
    <3>2. QED
      BY <1>1, <2>1, <3>1, SlotBack
  <2>3. CASE ~(axCi + d < AxN)
    <3>1. axCi - axTail - 1 = AxN - 1 - d
      BY <1>1, <2>3 DEF RgSlot
    <3>2. QED
      BY <1>1, <2>1, <3>1, SlotBack
  <2>4. QED
    BY <2>2, <2>3
<1>3. ASSUME d = 0 PROVE ~axBd[(axTail + n) % AxN].done
  <2>1. axTail = axCi
    BY <1>1, <1>3 DEF RgSlot
  <2>2. n \in 0 .. AxN /\ n \in 0 .. (AxN - 1)
    BY <1>1
  <2>3. (axTail + n) % AxN = RgSlot(axCi, n, AxN)
    BY <1>1, <2>1, <2>2, SlotFacts
  <2>4. axBd[RgSlot(axCi, n, AxN)].done <=> n < h
    BY <2>2 DEF AxWindow
  <2>5. ~(n < h)
    BY <1>1, <1>3 DEF AxWindow
  <2>6. QED
    BY <2>3, <2>4, <2>5
<1>4. ~AxNoSpace(n) => d + n + 1 <= AxN - 1
  BY <1>1, <1>2 DEF AxNoSpace
<1>5. ASSUME AxNoSpace(n) PROVE d > 0
  <2>1. CASE d = 0
    <3>1. AxN - 1 - d < n + 1
      BY <1>2, <1>3, <1>5, <2>1 DEF AxNoSpace
    <3>2. QED
      BY <1>1, <2>1, <3>1
  <2>2. QED
    BY <2>1
<1>6. QED
  BY <1>4, <1>5

\* What is on its way completes, or has.
LEMMA AxOnItsWay ==
  ASSUME AxTypes, NEW h \in 0 .. (AxN - 1), NEW d \in 0 .. (AxN - 1), AxWindow(h, d), d > 0
  PROVE  axLeft > 0 \/ (axBd[axCi].done /\ "ioc" \in axStatus)
<1>1. CASE h = d
  <2>1. AxN \in Nat \ {0} /\ axCi \in 0 .. (AxN - 1) /\ 0 \in 0 .. (AxN - 1)
    BY AxConsts DEF AxTypes
  <2>2. RgSlot(axCi, 0, AxN) = axCi
    BY <2>1, SlotFacts
  <2>3. axBd[RgSlot(axCi, 0, AxN)].done <=> 0 < h
    BY <2>1 DEF AxWindow
  <2>4. "ioc" \in axStatus
    BY <1>1 DEF AxWindow
  <2>5. QED
    BY <1>1, <2>2, <2>3, <2>4
<1>2. CASE h # d
  BY <1>2 DEF AxWindow
<1>3. QED
  BY <1>1, <1>2

LEMMA AxXmitBusyKeeps == ASSUME AxInv, NEW s \in AxSkb, NEW n \in 0 .. AxFrags, AxXmitBusy(s, n) PROVE AxInv'
<1>1. /\ AxNoSpace(n) /\ axUp
      /\ UNCHANGED <<axBd, axTail, axCi, axHw, axLeft, axRefs, axStack, axLost, axStatus>>
  BY DEF AxXmitBusy
<1>2. UNCHANGED <<axUp, axReset>>
  BY DEF AxXmitBusy
<1>3. axStopped' = TRUE
  BY DEF AxXmitBusy
<1>4. AxTypes'
  <2>1. axUp' \in BOOLEAN /\ axReset' \in BOOLEAN
    BY <1>2 DEF AxInv, AxTypes
  <2>2. axStopped' \in BOOLEAN
    BY <1>3
  <2>3. /\ axBd' \in [AxRing -> [skb : Nat, ptp : Nat, done : BOOLEAN]] /\ axRefs' \in [AxSkb -> Int]
        /\ axTail' \in AxRing /\ axCi' \in AxRing /\ axHw' \in AxRing /\ axLeft' \in Int
    BY <1>1 DEF AxInv, AxTypes
  <2>4. QED
    BY <2>1, <2>2, <2>3 DEF AxTypes
<1>5. AxWindows'
  BY <1>1, <1>2 DEF AxInv, AxWindows, AxWindow
<1>6. AxWoken'
  <2>1. PICK h \in 0 .. (AxN - 1), d \in 0 .. (AxN - 1) : AxWindow(h, d)
    BY <1>1 DEF AxInv, AxWindows
  <2>2. d > 0
    BY <1>1, <2>1, AxRoom DEF AxInv
  <2>3. axLeft > 0 \/ (axBd[axCi].done /\ "ioc" \in axStatus)
    BY <2>1, <2>2, AxOnItsWay DEF AxInv
  <2>4. QED
    BY <1>1, <2>3 DEF AxWoken
<1>7. AxHeld'
  BY <1>1 DEF AxInv, AxHeld
<1>8. QED
  BY <1>4, <1>5, <1>6, <1>7 DEF AxInv

LEMMA AxNoHeadroomKeeps ==
  ASSUME AxInv, NEW s \in AxSkb, NEW n \in 0 .. AxFrags, AxXmitNoHeadroom(s, n) PROVE AxInv'
<1>1. /\ axRefs' = AxPut(axRefs, s) /\ axLost' = axLost \cup {s}
      /\ UNCHANGED <<axBd, axTail, axCi, axHw, axLeft, axStack, axStatus>>
  BY DEF AxXmitNoHeadroom
<1>2. UNCHANGED <<axUp, axStopped, axReset>>
  BY DEF AxXmitNoHeadroom
<1>3. axRefs' \in [AxSkb -> Int] /\ \A t \in AxSkb : t # s => axRefs'[t] = axRefs[t]
  BY <1>1 DEF AxInv, AxTypes, AxPut
<1>4. AxTypes'
  <2>1. axUp' \in BOOLEAN /\ axStopped' \in BOOLEAN /\ axReset' \in BOOLEAN
    BY <1>2 DEF AxInv, AxTypes
  <2>2. /\ axBd' \in [AxRing -> [skb : Nat, ptp : Nat, done : BOOLEAN]]
        /\ axTail' \in AxRing /\ axCi' \in AxRing /\ axHw' \in AxRing /\ axLeft' \in Int
    BY <1>1 DEF AxInv, AxTypes
  <2>3. QED
    BY <1>3, <2>1, <2>2 DEF AxTypes
<1>5. AxWindows' /\ AxWoken'
  BY <1>1, <1>2 DEF AxInv, AxWindows, AxWindow, AxWoken
<1>6. AxHeld'
  <2>1. ASSUME NEW t \in AxSkb \ axLost'
        PROVE  AxUses(axBd', t) + (IF t \in axStack' THEN 1 ELSE 0) <= axRefs'[t]
    <3>1. t \in AxSkb \ axLost /\ t # s /\ axBd' = axBd /\ axStack' = axStack
      BY <1>1
    <3>2. AxUses(axBd, t) + (IF t \in axStack THEN 1 ELSE 0) <= axRefs[t] /\ axRefs'[t] = axRefs[t]
      BY <1>3, <3>1, AxHeldIs DEF AxInv
    <3>3. QED
      BY <3>1, <3>2
  <2>2. QED
    BY <2>1, AxHeldNext
<1>7. QED
  BY <1>4, <1>5, <1>6 DEF AxInv

LEMMA AxHwErrorKeeps == AxInv /\ AxHwError => AxInv'
<1> SUFFICES ASSUME AxInv, AxHwError PROVE AxInv'
  OBVIOUS
<1>1. /\ UNCHANGED <<axBd, axTail, axCi, axHw, axLeft, axRefs, axStack, axLost>>
      /\ axStatus' = axStatus \cup {"err"}
  BY DEF AxHwError
<1>2. UNCHANGED <<axUp, axStopped, axReset>>
  BY DEF AxHwError
<1>3. AxTypes'
  <2>1. axUp' \in BOOLEAN /\ axStopped' \in BOOLEAN /\ axReset' \in BOOLEAN
    BY <1>2 DEF AxInv, AxTypes
  <2>2. /\ axBd' \in [AxRing -> [skb : Nat, ptp : Nat, done : BOOLEAN]] /\ axRefs' \in [AxSkb -> Int]
        /\ axTail' \in AxRing /\ axCi' \in AxRing /\ axHw' \in AxRing /\ axLeft' \in Int
    BY <1>1 DEF AxInv, AxTypes
  <2>3. QED
    BY <2>1, <2>2 DEF AxTypes
<1>4. "ioc" \in axStatus => "ioc" \in axStatus'
  BY <1>1
<1>5. AxWindows' /\ AxWoken'
  BY <1>1, <1>2, <1>4 DEF AxInv, AxWindows, AxWindow, AxWoken
<1>6. AxHeld'
  BY <1>1 DEF AxInv, AxHeld
<1>7. QED
  BY <1>3, <1>5, <1>6 DEF AxInv

LEMMA AxHwSendKeeps == AxInv /\ AxHwSend => AxInv'
<1> SUFFICES ASSUME AxInv, AxHwSend PROVE AxInv'
  OBVIOUS
<1>1. /\ axLeft > 0 /\ axHw' = (axHw + 1) % AxN
      /\ axLeft' = axLeft - 1 /\ axTail' = axTail /\ axCi' = axCi
  BY DEF AxHwSend
<1>b. axBd' = [axBd EXCEPT ![axHw].done = TRUE]
  BY DEF AxHwSend
<1>c. axStatus' = axStatus \cup {"ioc"} /\ axRefs' = axRefs /\ axStack' = axStack /\ axLost' = axLost
  BY DEF AxHwSend
<1>2. UNCHANGED <<axUp, axStopped, axReset>>
  BY DEF AxHwSend
<1>3. axUp
  BY DEF AxHwSend
<1>d. axBd \in [AxRing -> [skb : Nat, ptp : Nat, done : BOOLEAN]]
  BY DEF AxInv, AxTypes
<1>4. /\ axHw \in 0 .. (AxN - 1) /\ axCi \in 0 .. (AxN - 1) /\ axLeft \in Int
      /\ AxRing = 0 .. (AxN - 1) /\ AxN \in Nat \ {0}
  BY AxConsts DEF AxInv, AxTypes
<1>5. /\ axBd' \in [AxRing -> [skb : Nat, ptp : Nat, done : BOOLEAN]]
      /\ \A i \in AxRing : axBd'[i].skb = axBd[i].skb /\ axBd'[i].ptp = axBd[i].ptp
  BY <1>b, <1>4, <1>d
<1>6. \A i \in AxRing : axBd'[i].done <=> axBd[i].done \/ i = axHw
  BY <1>b, <1>4, <1>d
<1>7. PICK h \in 0 .. (AxN - 1), d \in 0 .. (AxN - 1) : AxWindow(h, d)
  BY <1>3 DEF AxInv, AxWindows
<1>8. h < d /\ h + 1 \in 0 .. (AxN - 1) /\ h \in 0 .. AxN /\ 1 \in 0 .. AxN
  <2>1. axLeft = d - h
    BY <1>7 DEF AxWindow
  <2>2. QED
    BY <1>1, <1>4, <2>1
<1>9. axHw' = RgSlot(axCi, h + 1, AxN)
  <2>1. axHw = RgSlot(axCi, h, AxN)
    BY <1>7 DEF AxWindow
  <2>2. (axHw + 1) % AxN = RgSlot(axHw, 1, AxN)
    BY <1>4, <1>8, SlotFacts
  <2>3. QED
    BY <1>1, <1>4, <1>8, <2>1, <2>2, SlotSum
<1>10. AxTypes'
  <2>1. axUp' \in BOOLEAN /\ axStopped' \in BOOLEAN /\ axReset' \in BOOLEAN
    BY <1>2 DEF AxInv, AxTypes
  <2>2. axHw' \in AxRing
    <3>1. h + 1 \in 0 .. AxN
      BY <1>4, <1>8
    <3>2. QED
      BY <1>4, <1>9, <3>1, SlotFacts
  <2>3. axTail' \in AxRing /\ axCi' \in AxRing /\ axLeft' \in Int /\ axRefs' \in [AxSkb -> Int]
    BY <1>1, <1>c DEF AxInv, AxTypes
  <2>4. QED
    BY <1>5, <2>1, <2>2, <2>3 DEF AxTypes
<1>11. AxWindow(h + 1, d)'
  <2>1. ASSUME NEW j \in 0 .. (AxN - 1) PROVE axBd'[RgSlot(axCi, j, AxN)].done <=> j < h + 1
    <3>1. j \in 0 .. AxN
      BY <1>4
    <3>2. RgSlot(axCi, j, AxN) \in AxRing
      BY <1>4, <3>1, SlotFacts
    <3>3. axBd[RgSlot(axCi, j, AxN)].done <=> j < h
      BY <1>7 DEF AxWindow
    <3>4. RgSlot(axCi, j, AxN) = axHw <=> j = h
      BY <1>4, <1>7, SlotUnique DEF AxWindow
    <3>5. QED
      BY <1>4, <1>6, <3>2, <3>3, <3>4
  <2>2. axLeft' = d - (h + 1) /\ axTail' = RgSlot(axCi, d, AxN) /\ axCi' = axCi
    BY <1>1, <1>4, <1>7 DEF AxWindow
  <2>3. "ioc" \in axStatus'
    BY <1>c
  <2>4. QED
    BY <1>8, <1>9, <2>1, <2>2, <2>3 DEF AxWindow
<1>12. AxWindows'
  BY <1>8, <1>11 DEF AxWindows
<1>13. AxWoken'
  <2>1. AxTypes' /\ d > 0
    BY <1>4, <1>8, <1>10
  <2>2. axLeft' > 0 \/ (axBd'[axCi'].done /\ "ioc" \in axStatus')
    <3>1. CASE h + 1 = d
      <4>1. RgSlot(axCi, 0, AxN) = axCi /\ 0 \in 0 .. (AxN - 1)
        BY <1>4, <1>8, SlotFacts
      <4>2. axBd'[RgSlot(axCi', 0, AxN)].done <=> 0 < h + 1
        BY <4>1, <1>11 DEF AxWindow
      <4>3. 0 < h + 1
        BY <1>8
      <4>4. axBd'[axCi'].done
        BY <1>1, <4>1, <4>2, <4>3
      <4>5. QED
        BY <1>c, <4>4
    <3>2. CASE h + 1 # d
      <4>1. axLeft' = d - h - 1
        BY <1>11 DEF AxWindow
      <4>2. QED
        BY <1>8, <3>2, <4>1
    <3>3. QED
      BY <3>1, <3>2
  <2>3. QED
    BY <2>2 DEF AxWoken
<1>14. AxHeld'
  BY <1>c, <1>5, AxHeldKept DEF AxInv
<1>15. QED
  BY <1>10, <1>12, <1>13, <1>14 DEF AxInv

LEMMA AxXmitKeeps ==
  ASSUME AxInv, NEW s \in AxSkb, NEW n \in 0 .. AxFrags, NEW stamp \in BOOLEAN, AxXmit(s, n, stamp) PROVE AxInv'
<1> DEFINE last == (axTail + n) % AxN
           marked == IF stamp THEN [axBd EXCEPT ![axTail].ptp = s] ELSE axBd
<1>1. /\ ~AxNoSpace(n) /\ axTail' = (last + 1) % AxN
      /\ axLeft' = axLeft + n + 1 /\ axCi' = axCi /\ axHw' = axHw
  BY DEF AxXmit
<1>b. axBd' = [marked EXCEPT ![last].skb = s]
  BY DEF AxXmit
<1>c. /\ s \in axStack \ axLost /\ axStack' = axStack \ {s} /\ axLost' = axLost /\ axStatus' = axStatus
      /\ axRefs' = (IF stamp THEN [axRefs EXCEPT ![s] = @ + 1] ELSE axRefs)
  BY DEF AxXmit
<1>2. UNCHANGED <<axUp, axStopped, axReset>>
  BY DEF AxXmit
<1>3. axUp
  BY DEF AxXmit
<1>a. ~axStopped
  BY DEF AxXmit
<1>d. /\ axBd \in [AxRing -> [skb : Nat, ptp : Nat, done : BOOLEAN]] /\ axTail \in AxRing /\ AxSkb \subseteq Nat
      /\ axRefs \in [AxSkb -> Int]
  BY AxConsts DEF AxInv, AxTypes
<1>4. /\ axTail \in 0 .. (AxN - 1) /\ axCi \in 0 .. (AxN - 1) /\ axHw \in 0 .. (AxN - 1) /\ axLeft \in Int
      /\ AxRing = 0 .. (AxN - 1) /\ AxN \in Nat \ {0} /\ n \in Nat
  BY AxConsts DEF AxInv, AxTypes
<1>5. PICK h \in 0 .. (AxN - 1), d \in 0 .. (AxN - 1) : AxWindow(h, d)
  BY <1>3 DEF AxInv, AxWindows
<1>6. d + n + 1 \in 0 .. (AxN - 1) /\ d + n \in 0 .. AxN /\ n \in 0 .. AxN /\ d \in 0 .. AxN /\ 1 \in 0 .. AxN
      /\ d + n + 1 \in 0 .. AxN
  <2>1. d + n + 1 <= AxN - 1
    BY <1>1, <1>5, AxRoom DEF AxInv
  <2>2. QED
    BY <1>4, <2>1
<1>7. last = RgSlot(axCi, d + n, AxN) /\ last \in AxRing
  <2>1. axTail = RgSlot(axCi, d, AxN)
    BY <1>5 DEF AxWindow
  <2>2. last = RgSlot(axTail, n, AxN)
    BY <1>4, <1>6, SlotFacts
  <2>3. last = RgSlot(axCi, d + n, AxN)
    BY <1>4, <1>6, <2>1, <2>2, SlotSum
  <2>4. QED
    BY <1>4, <1>6, <2>3, SlotFacts
<1>8. axTail' = RgSlot(axCi, d + n + 1, AxN) /\ axTail' \in AxRing
  <2>1. (last + 1) % AxN = RgSlot(last, 1, AxN)
    BY <1>4, <1>6, <1>7, SlotFacts
  <2>2. RgSlot(last, 1, AxN) = RgSlot(axCi, d + n + 1, AxN)
    BY <1>4, <1>6, <1>7, SlotSum
  <2>3. QED
    BY <1>1, <1>4, <1>6, <2>1, <2>2, SlotFacts
<1>9. marked \in [AxRing -> [skb : Nat, ptp : Nat, done : BOOLEAN]]
      /\ \A i \in AxRing : /\ marked[i].skb = axBd[i].skb /\ marked[i].done = axBd[i].done
                           /\ marked[i].ptp = (IF stamp /\ i = axTail THEN s ELSE axBd[i].ptp)
  <2>1. CASE stamp
    BY <1>d, <2>1
  <2>2. CASE ~stamp
    BY <1>d, <2>2
  <2>3. QED
    BY <2>1, <2>2
<1> HIDE DEF last, marked
<1>10. axBd' \in [AxRing -> [skb : Nat, ptp : Nat, done : BOOLEAN]]
      /\ \A i \in AxRing : /\ axBd'[i].skb = (IF i = last THEN s ELSE marked[i].skb)
                           /\ axBd'[i].done = marked[i].done /\ axBd'[i].ptp = marked[i].ptp
  BY <1>b, <1>d, <1>7, <1>9
<1>11. \A i \in AxRing : /\ axBd'[i].skb = (IF i = last THEN s ELSE axBd[i].skb)
                         /\ axBd'[i].done = axBd[i].done
                         /\ axBd'[i].ptp = (IF stamp /\ i = axTail THEN s ELSE axBd[i].ptp)
  BY <1>9, <1>10
<1>12. axRefs' \in [AxSkb -> Int] /\ \A t \in AxSkb : axRefs'[t] = (IF stamp /\ t = s THEN axRefs[t] + 1 ELSE axRefs[t])
  <2>1. CASE stamp
    BY <1>c, <1>d, <2>1
  <2>2. CASE ~stamp
    BY <1>c, <1>d, <2>2
  <2>3. QED
    BY <2>1, <2>2
<1>13. AxTypes'
  <2>1. axUp' \in BOOLEAN /\ axStopped' \in BOOLEAN /\ axReset' \in BOOLEAN
    BY <1>2 DEF AxInv, AxTypes
  <2>2. axHw' \in AxRing /\ axCi' \in AxRing /\ axLeft' \in Int
    BY <1>1, <1>4
  <2>3. QED
    BY <1>8, <1>10, <1>12, <2>1, <2>2 DEF AxTypes
<1>14. AxWindow(h, d + n + 1)'
  <2>1. ASSUME NEW j \in 0 .. (AxN - 1) PROVE axBd'[RgSlot(axCi, j, AxN)].done <=> j < h
    <3>1. j \in 0 .. AxN
      BY <1>4
    <3>2. RgSlot(axCi, j, AxN) \in AxRing
      BY <1>4, <3>1, SlotFacts
    <3>3. axBd[RgSlot(axCi, j, AxN)].done <=> j < h
      BY <1>5 DEF AxWindow
    <3>4. QED
      BY <1>11, <3>2, <3>3
  <2>2. h <= d + n + 1 /\ axLeft' = d + n + 1 - h /\ axHw' = RgSlot(axCi, h, AxN) /\ axCi' = axCi
    <3>1. h <= d /\ axLeft = d - h /\ axHw = RgSlot(axCi, h, AxN)
      BY <1>5 DEF AxWindow
    <3>2. QED
      BY <1>1, <1>4, <3>1
  <2>3. h > 0 => "ioc" \in axStatus'
    BY <1>c, <1>5 DEF AxWindow
  <2>4. QED
    BY <1>8, <2>1, <2>2, <2>3 DEF AxWindow
<1>15. AxWindows'
  BY <1>6, <1>14 DEF AxWindows
<1>16. AxWoken'
  BY <1>2, <1>a DEF AxWoken
<1>17. AxHeld'
  <2>1. ASSUME NEW t \in AxSkb \ axLost'
        PROVE  AxUses(axBd', t) + (IF t \in axStack' THEN 1 ELSE 0) <= axRefs'[t]
    <3>1. t \in AxSkb /\ t \in AxSkb \ axLost /\ (t \in axStack' <=> t \in axStack /\ t # s)
      BY <1>c
    <3>2. AxUses(axBd, t) + (IF t \in axStack THEN 1 ELSE 0) <= axRefs[t] /\ axRefs[t] \in Int
      BY <1>d, <3>1, AxHeldIs DEF AxInv
    <3>3. AxUses(axBd, t) \in Nat /\ AxUses(axBd', t) \in Nat
      BY AxUsesType
    <3>4. CASE t # s
      <4>1. \A i \in AxRing : axBd'[i].skb = t => axBd[i].skb = t
        BY <1>11, <3>4
      <4>2. \A i \in AxRing : axBd'[i].ptp = t => axBd[i].ptp = t
        BY <1>11, <3>4
      <4>3. AxUses(axBd', t) <= AxUses(axBd, t)
        BY <4>1, <4>2, AxMarkedLess
      <4>4. axRefs'[t] = axRefs[t]
        BY <1>12, <3>1, <3>4
      <4>5. QED
        BY <3>1, <3>2, <3>3, <3>4, <4>3, <4>4
    <3>5. CASE t = s
      <4>1. \A i \in AxRing : axBd'[i].skb = t => axBd[i].skb = t \/ i = last
        BY <1>11, <3>5
      <4>2. \A i \in AxRing : axBd'[i].ptp = t => axBd[i].ptp = t \/ i = axTail
        BY <1>11, <3>5
      <4>3. /\ Cardinality(AxSkbIn(axBd', AxRing, t)) <= Cardinality(AxSkbIn(axBd, AxRing, t)) + 1
            /\ Cardinality(AxPtpIn(axBd', AxRing, t)) <= Cardinality(AxPtpIn(axBd, AxRing, t)) + 1
        BY <1>d, <1>7, <4>1, <4>2, AxMarkedOnce
      <4>4. /\ Cardinality(AxSkbIn(axBd', AxRing, t)) \in Nat /\ Cardinality(AxSkbIn(axBd, AxRing, t)) \in Nat
            /\ Cardinality(AxPtpIn(axBd', AxRing, t)) \in Nat /\ Cardinality(AxPtpIn(axBd, AxRing, t)) \in Nat
        BY AxUsesType
      <4>5. AxUses(axBd', t) <= AxUses(axBd, t) + (IF stamp THEN 2 ELSE 1)
        <5>1. CASE stamp
          BY <4>3, <4>4, <5>1 DEF AxUses
        <5>2. CASE ~stamp
          <6>1. \A i \in AxRing : axBd'[i].ptp = t <=> axBd[i].ptp = t
            BY <1>11, <5>2
          <6>2. AxPtpIn(axBd', AxRing, t) = AxPtpIn(axBd, AxRing, t)
            BY <6>1 DEF AxPtpIn
          <6>3. QED
            BY <4>3, <4>4, <5>2, <6>2 DEF AxUses
        <5>3. QED
          BY <5>1, <5>2
      <4>6. s \in axStack /\ axRefs'[t] = axRefs[t] + (IF stamp THEN 1 ELSE 0)
        BY <1>c, <1>d, <1>12, <3>1, <3>5
      <4>7. QED
        <5>1. CASE stamp
          BY <3>1, <3>2, <3>3, <3>5, <4>5, <4>6, <5>1
        <5>2. CASE ~stamp
          BY <3>1, <3>2, <3>3, <3>5, <4>5, <4>6, <5>2
        <5>3. QED
          BY <5>1, <5>2
    <3>6. QED
      BY <3>4, <3>5
  <2>2. QED
    BY <2>1, AxHeldNext
<1>18. QED
  BY <1>13, <1>15, <1>16, <1>17 DEF AxInv

\* What axienet_start_xmit_done finds complete is what the hardware has done.
LEMMA AxDoneRunIs ==
  ASSUME AxTypes, NEW h \in 0 .. (AxN - 1), NEW d \in 0 .. (AxN - 1), AxWindow(h, d)
  PROVE  AxDoneRun = {RgSlot(axCi, j, AxN) : j \in 0 .. (h - 1)}
<1> DEFINE P(k) == /\ \A j \in 0 .. (k - 1) : axBd[(axCi + j) % AxN].done
                   /\ k = AxN \/ ~axBd[(axCi + k) % AxN].done
           k0 == CHOOSE k \in 0 .. AxN : P(k)
<1>1. AxN \in Nat \ {0} /\ axCi \in 0 .. (AxN - 1) /\ h \in 0 .. AxN
  BY AxConsts DEF AxTypes
<1>2. \A j \in 0 .. AxN : (axCi + j) % AxN = RgSlot(axCi, j, AxN)
  BY <1>1, SlotFacts
<1>3. \A j \in 0 .. (AxN - 1) : axBd[(axCi + j) % AxN].done <=> j < h
  <2>1. ASSUME NEW j \in 0 .. (AxN - 1) PROVE axBd[(axCi + j) % AxN].done <=> j < h
    <3>1. j \in 0 .. AxN
      BY <1>1
    <3>2. axBd[RgSlot(axCi, j, AxN)].done <=> j < h
      BY DEF AxWindow
    <3>3. QED
      BY <1>2, <3>1, <3>2
  <2>2. QED
    BY <2>1
<1>4. P(h)
  <2>1. \A j \in 0 .. (h - 1) : j \in 0 .. (AxN - 1) /\ j < h
    BY <1>1
  <2>2. \A j \in 0 .. (h - 1) : axBd[(axCi + j) % AxN].done
    BY <1>3, <2>1
  <2>3. ~(h < h)
    BY <1>1
  <2>4. ~axBd[(axCi + h) % AxN].done
    BY <1>3, <2>3
  <2>5. QED
    BY <2>2, <2>4
<1>5. ASSUME NEW k \in 0 .. AxN, P(k) PROVE k = h
  <2>1. CASE k < h
    <3>1. k \in 0 .. (AxN - 1) /\ k # AxN
      BY <1>1, <2>1
    <3>2. axBd[(axCi + k) % AxN].done
      BY <1>3, <2>1, <3>1
    <3>3. QED
      BY <1>5, <3>1, <3>2
  <2>2. CASE h < k
    <3>1. h \in 0 .. (k - 1) /\ ~(h < h)
      BY <1>1, <2>2
    <3>2. ~axBd[(axCi + h) % AxN].done
      BY <1>3, <3>1
    <3>3. QED
      BY <1>5, <3>1, <3>2
  <2>3. QED
    BY <1>1, <2>1, <2>2
<1>6. \E k \in 0 .. AxN : P(k)
  BY <1>1, <1>4
<1>7. k0 \in 0 .. AxN /\ P(k0)
  BY <1>6
<1>8. k0 = h
  BY <1>5, <1>7
<1>9. AxDoneRun = {(axCi + j) % AxN : j \in 0 .. (k0 - 1)}
  BY DEF AxDoneRun
<1> HIDE DEF k0, P
<1>10. AxDoneRun = {(axCi + j) % AxN : j \in 0 .. (h - 1)}
  BY <1>8, <1>9
<1>11. \A j \in 0 .. (h - 1) : (axCi + j) % AxN = RgSlot(axCi, j, AxN)
  BY <1>1, <1>2
<1>12. QED
  BY <1>10, <1>11

LEMMA AxTxIrqKeeps == AxInv /\ AxTxIrq => AxInv'
<1> SUFFICES ASSUME AxInv, AxTxIrq PROVE AxInv'
  OBVIOUS
<1> DEFINE freed(s) == Cardinality({i \in AxDoneRun : axBd[i].skb = s})
                       + Cardinality({i \in AxDoneRun : axBd[i].ptp = s})
<1>1. axBd' = [i \in AxRing |-> IF i \in AxDoneRun THEN AxDoneBd(axBd[i]) ELSE axBd[i]]
  BY DEF AxTxIrq
<1>2. axRefs' = [s \in AxSkb |-> axRefs[s] - freed(s)]
  BY DEF AxTxIrq
<1>3. /\ axCi' = (axCi + Cardinality(AxDoneRun)) % AxN
      /\ axTail' = axTail /\ axHw' = axHw /\ axLeft' = axLeft
  BY DEF AxTxIrq
<1>4. axStack' = axStack /\ axLost' = axLost
  BY DEF AxTxIrq
<1>5. axUp' = axUp /\ axReset' = axReset
  BY DEF AxTxIrq
<1>6. axStopped' = FALSE
  BY DEF AxTxIrq
<1>7. axUp
  BY DEF AxTxIrq
<1> HIDE DEF freed
<1>8. /\ axHw \in 0 .. (AxN - 1) /\ axCi \in 0 .. (AxN - 1) /\ axTail \in 0 .. (AxN - 1) /\ axLeft \in Int
      /\ AxRing = 0 .. (AxN - 1) /\ AxN \in Nat \ {0}
  BY AxConsts DEF AxInv, AxTypes
<1>9. axBd \in [AxRing -> [skb : Nat, ptp : Nat, done : BOOLEAN]]
  BY DEF AxInv, AxTypes
<1>10. PICK h \in 0 .. (AxN - 1), d \in 0 .. (AxN - 1) : AxWindow(h, d)
  BY <1>7 DEF AxInv, AxWindows
<1>11. AxDoneRun = {RgSlot(axCi, j, AxN) : j \in 0 .. (h - 1)}
  BY <1>10, AxDoneRunIs DEF AxInv
<1>12. h \in 0 .. AxN /\ d \in 0 .. AxN /\ h <= d /\ axHw = RgSlot(axCi, h, AxN) /\ axTail = RgSlot(axCi, d, AxN)
       /\ axLeft = d - h
  BY <1>8, <1>10 DEF AxWindow
<1>13. IsFiniteSet(AxDoneRun) /\ Cardinality(AxDoneRun) = h /\ AxDoneRun \subseteq AxRing
  BY <1>8, <1>11, <1>12, SlotsCount
<1>14. axCi' = axHw
  BY <1>3, <1>8, <1>12, <1>13, SlotFacts
<1>15. axBd' \in [AxRing -> [skb : Nat, ptp : Nat, done : BOOLEAN]]
  BY <1>1, <1>9 DEF AxDoneBd
<1>16. \A i \in AxRing :
         /\ axBd'[i].skb = (IF i \in AxDoneRun THEN 0 ELSE axBd[i].skb)
         /\ axBd'[i].ptp = (IF i \in AxDoneRun THEN 0 ELSE axBd[i].ptp)
         /\ axBd'[i].done = (IF i \in AxDoneRun THEN FALSE ELSE axBd[i].done)
  BY <1>1, <1>9 DEF AxDoneBd
<1>17. ASSUME NEW i \in AxRing PROVE ~axBd'[i].done
  <2>1. PICK j \in 0 .. (AxN - 1) : i = RgSlot(axCi, j, AxN)
    BY <1>8, SlotOf
  <2>2. CASE j < h
    <3>1. j \in 0 .. (h - 1)
      BY <1>8, <2>2
    <3>2. i \in AxDoneRun
      BY <1>11, <2>1, <3>1
    <3>3. QED
      BY <1>16, <3>2
  <2>3. CASE ~(j < h)
    <3>1. ~axBd[i].done
      BY <1>10, <2>1, <2>3 DEF AxWindow
    <3>2. QED
      BY <1>16, <3>1
  <2>4. QED
    BY <2>2, <2>3
<1>18. AxTypes'
  <2>1. axUp' \in BOOLEAN /\ axReset' \in BOOLEAN
    BY <1>5 DEF AxInv, AxTypes
  <2>2. axStopped' \in BOOLEAN
    BY <1>6
  <2>3. \A s \in AxSkb : freed(s) \in Int
    <3>1. ASSUME NEW s \in AxSkb PROVE freed(s) \in Int
      <4>1. {i \in AxDoneRun : axBd[i].skb = s} \in SUBSET AxDoneRun /\ {i \in AxDoneRun : axBd[i].ptp = s} \in SUBSET AxDoneRun
        OBVIOUS
      <4>2. /\ Cardinality({i \in AxDoneRun : axBd[i].skb = s}) \in Nat
            /\ Cardinality({i \in AxDoneRun : axBd[i].ptp = s}) \in Nat
        BY <1>13, <4>1, FS_Subset, FS_CardinalityType
      <4>3. QED
        BY <4>2 DEF freed
    <3>2. QED
      BY <3>1
  <2>4. axRefs' \in [AxSkb -> Int]
    BY <1>2, <2>3 DEF AxInv, AxTypes
  <2>5. axTail' \in AxRing /\ axCi' \in AxRing /\ axHw' \in AxRing /\ axLeft' \in Int
    BY <1>3, <1>8, <1>14
  <2>6. QED
    BY <1>15, <2>1, <2>2, <2>4, <2>5 DEF AxTypes
<1>19. AxWindows'
  <2>1. d - h \in 0 .. (AxN - 1) /\ d - h \in 0 .. AxN /\ 0 \in 0 .. (AxN - 1) /\ h + (d - h) = d
    BY <1>8, <1>12
  <2>2. axTail' = RgSlot(axCi', d - h, AxN)
    <3>1. h + (d - h) <= AxN
      BY <1>12, <2>1
    <3>2. RgSlot(RgSlot(axCi, h, AxN), d - h, AxN) = RgSlot(axCi, h + (d - h), AxN)
      BY <1>8, <1>12, <2>1, <3>1, SlotSum
    <3>3. QED
      BY <1>3, <1>12, <1>14, <2>1, <3>2
  <2>3. axHw' = RgSlot(axCi', 0, AxN)
    <3>1. 0 \in 0 .. AxN
      BY <1>8
    <3>2. RgSlot(axHw, 0, AxN) = axHw
      BY <1>8, <3>1, SlotFacts
    <3>3. QED
      BY <1>3, <1>14, <3>2
  <2>4. ASSUME NEW j \in 0 .. (AxN - 1) PROVE axBd'[RgSlot(axCi', j, AxN)].done <=> j < 0
    <3>1. j \in 0 .. AxN
      BY <1>8
    <3>2. RgSlot(axCi', j, AxN) \in AxRing
      BY <1>8, <1>14, <3>1, SlotFacts
    <3>3. QED
      BY <1>8, <1>17, <3>2
  <2>5. axLeft' = (d - h) - 0 /\ 0 <= d - h
    BY <1>3, <1>8, <1>12
  <2>6. AxWindow(0, d - h)'
    BY <2>2, <2>3, <2>4, <2>5 DEF AxWindow
  <2>7. QED
    BY <2>1, <2>6 DEF AxWindows
<1>20. AxWoken'
  BY <1>6 DEF AxWoken
<1>21. AxHeld'
  <2>1. ASSUME NEW s \in AxSkb \ axLost'
        PROVE  AxUses(axBd', s) + (IF s \in axStack' THEN 1 ELSE 0) <= axRefs'[s]
    <3>1. s \in AxSkb /\ s \in AxSkb \ axLost /\ s # 0
      BY <1>4, AxConsts
    <3>2. AxUses(axBd, s) + (IF s \in axStack THEN 1 ELSE 0) <= axRefs[s] /\ axRefs[s] \in Int
      BY <3>1, AxHeldIs DEF AxInv, AxTypes
    <3>3. /\ AxSkbIn(axBd', AxRing, s) = AxSkbIn(axBd, AxRing, s) \ {i \in AxDoneRun : axBd[i].skb = s}
          /\ AxPtpIn(axBd', AxRing, s) = AxPtpIn(axBd, AxRing, s) \ {i \in AxDoneRun : axBd[i].ptp = s}
      BY <1>16, <3>1 DEF AxSkbIn, AxPtpIn
    <3>4. /\ {i \in AxDoneRun : axBd[i].skb = s} \subseteq AxSkbIn(axBd, AxRing, s)
          /\ {i \in AxDoneRun : axBd[i].ptp = s} \subseteq AxPtpIn(axBd, AxRing, s)
      BY <1>13 DEF AxSkbIn, AxPtpIn
    <3>5. IsFiniteSet(AxSkbIn(axBd, AxRing, s)) /\ IsFiniteSet(AxPtpIn(axBd, AxRing, s))
      BY AxUsesType
    <3>6. /\ Cardinality(AxSkbIn(axBd', AxRing, s))
               = Cardinality(AxSkbIn(axBd, AxRing, s)) - Cardinality({i \in AxDoneRun : axBd[i].skb = s})
          /\ Cardinality(AxPtpIn(axBd', AxRing, s))
               = Cardinality(AxPtpIn(axBd, AxRing, s)) - Cardinality({i \in AxDoneRun : axBd[i].ptp = s})
      BY <3>3, <3>4, <3>5, AxForgets
    <3>7. /\ Cardinality({i \in AxDoneRun : axBd[i].skb = s}) \in Nat
          /\ Cardinality({i \in AxDoneRun : axBd[i].ptp = s}) \in Nat
      BY <3>4, <3>5, FS_Subset, FS_CardinalityType
    <3>8. /\ Cardinality(AxSkbIn(axBd, AxRing, s)) \in Nat /\ Cardinality(AxPtpIn(axBd, AxRing, s)) \in Nat
      BY AxUsesType
    <3>9. AxUses(axBd', s) = AxUses(axBd, s) - freed(s)
      BY <3>6, <3>7, <3>8 DEF AxUses, freed
    <3>10. axRefs'[s] = axRefs[s] - freed(s)
      BY <1>2, <3>1
    <3>11. freed(s) \in Int /\ AxUses(axBd, s) \in Int
      BY <3>7, <3>8 DEF AxUses, freed
    <3>12. CASE s \in axStack
      BY <1>4, <3>2, <3>9, <3>10, <3>11, <3>12
    <3>13. CASE s \notin axStack
      BY <1>4, <3>2, <3>9, <3>10, <3>11, <3>13
    <3>14. QED
      BY <3>12, <3>13
  <2>2. QED
    BY <2>1, AxHeldNext
<1>22. QED
  BY <1>18, <1>19, <1>20, <1>21 DEF AxInv

LEMMA AxErrIrqKeeps == AxInv /\ AxErrIrq => AxInv'
<1> SUFFICES ASSUME AxInv, AxErrIrq PROVE AxInv'
  OBVIOUS
<1>1. UNCHANGED <<axBd, axTail, axCi, axHw, axLeft, axRefs, axStack, axLost>>
  BY DEF AxErrIrq
<1>2. UNCHANGED <<axUp, axStopped, axReset>>
  BY DEF AxErrIrq
<1>3. axStatus = {"err"}
  BY DEF AxErrIrq
<1>4. axUp
  BY DEF AxErrIrq
<1>5. AxTypes'
  <2>1. axUp' \in BOOLEAN /\ axStopped' \in BOOLEAN /\ axReset' \in BOOLEAN
    BY <1>2 DEF AxInv, AxTypes
  <2>2. /\ axBd' \in [AxRing -> [skb : Nat, ptp : Nat, done : BOOLEAN]] /\ axRefs' \in [AxSkb -> Int]
        /\ axTail' \in AxRing /\ axCi' \in AxRing /\ axHw' \in AxRing /\ axLeft' \in Int
    BY <1>1 DEF AxInv, AxTypes
  <2>3. QED
    BY <2>1, <2>2 DEF AxTypes
<1>6. "ioc" \notin axStatus
  BY <1>3
<1>7. AxWindows'
  <2>1. PICK h \in 0 .. (AxN - 1), d \in 0 .. (AxN - 1) : AxWindow(h, d)
    BY <1>4 DEF AxInv, AxWindows
  <2>2. ~(h > 0)
    BY <1>6, <2>1 DEF AxWindow
  <2>3. AxWindow(h, d)'
    BY <1>1, <2>1, <2>2 DEF AxWindow
  <2>4. QED
    BY <2>3 DEF AxWindows
<1>8. AxWoken'
  BY <1>1, <1>2, <1>6 DEF AxInv, AxWoken
<1>9. AxHeld'
  BY <1>1 DEF AxInv, AxHeld
<1>10. QED
  BY <1>5, <1>7, <1>8, <1>9 DEF AxInv

LEMMA AxErrHandlerKeeps == AxInv /\ AxErrHandler => AxInv'
<1> SUFFICES ASSUME AxInv, AxErrHandler PROVE AxInv'
  OBVIOUS
<1> DEFINE freed(s) == Cardinality(AxSkbIn(axBd, AxRing, s))
<1>1. axRefs' = [s \in AxSkb |-> axRefs[s] - freed(s)]
  BY DEF AxErrHandler, AxSkbIn
<1>2. axBd' = [i \in AxRing |-> [axBd[i] EXCEPT !.skb = 0, !.done = FALSE]]
  BY DEF AxErrHandler
<1>3. axTail' = 0 /\ axCi' = 0 /\ axHw' = 0 /\ axLeft' = 0
  BY DEF AxErrHandler
<1>4. axStack' = axStack /\ axLost' = axLost
  BY DEF AxErrHandler
<1>5. axUp' = axUp /\ axStopped' = axStopped
  BY DEF AxErrHandler
<1>6. axReset' = TRUE
  BY DEF AxErrHandler
<1> HIDE DEF freed
<1>7. AxN \in Nat \ {0} /\ AxRing = 0 .. (AxN - 1) /\ 0 \in 0 .. (AxN - 1) /\ RgSlot(0, 0, AxN) = 0
  BY AxConsts, SlotFacts
<1>8. axBd \in [AxRing -> [skb : Nat, ptp : Nat, done : BOOLEAN]] /\ axRefs \in [AxSkb -> Int]
  BY DEF AxInv, AxTypes
<1>9. axBd' \in [AxRing -> [skb : Nat, ptp : Nat, done : BOOLEAN]]
  BY <1>2, <1>8
<1>10. \A i \in AxRing : axBd'[i].skb = 0 /\ axBd'[i].ptp = axBd[i].ptp /\ axBd'[i].done = FALSE
  BY <1>2, <1>8
<1>11. \A s : freed(s) \in Nat
  BY AxUsesType DEF freed
<1>12. AxTypes'
  <2>1. axUp' \in BOOLEAN /\ axStopped' \in BOOLEAN
    BY <1>5 DEF AxInv, AxTypes
  <2>2. axReset' \in BOOLEAN
    BY <1>6
  <2>3. axRefs' \in [AxSkb -> Int]
    BY <1>1, <1>8, <1>11
  <2>4. axTail' \in AxRing /\ axCi' \in AxRing /\ axHw' \in AxRing /\ axLeft' \in Int
    BY <1>3, <1>7
  <2>5. QED
    BY <1>9, <2>1, <2>2, <2>3, <2>4 DEF AxTypes
<1>13. AxWindows'
  <2>1. ASSUME NEW j \in 0 .. (AxN - 1) PROVE axBd'[RgSlot(0, j, AxN)].done <=> j < 0
    <3>1. j \in 0 .. AxN
      BY <1>7
    <3>2. RgSlot(0, j, AxN) \in AxRing
      BY <1>7, <3>1, SlotFacts
    <3>3. QED
      BY <1>10, <3>2
  <2>2. AxWindow(0, 0)'
    BY <1>3, <1>7, <2>1 DEF AxWindow
  <2>3. QED
    BY <1>7, <2>2 DEF AxWindows
<1>14. AxWoken'
  BY <1>6 DEF AxWoken
<1>15. AxHeld'
  <2>1. ASSUME NEW s \in AxSkb \ axLost'
        PROVE  AxUses(axBd', s) + (IF s \in axStack' THEN 1 ELSE 0) <= axRefs'[s]
    <3>1. s \in AxSkb /\ s \in AxSkb \ axLost /\ s # 0
      BY <1>4, AxConsts
    <3>2. AxUses(axBd, s) + (IF s \in axStack THEN 1 ELSE 0) <= axRefs[s] /\ axRefs[s] \in Int
      BY <1>8, <3>1, AxHeldIs DEF AxInv
    <3>3. AxSkbIn(axBd', AxRing, s) = {} /\ AxPtpIn(axBd', AxRing, s) = AxPtpIn(axBd, AxRing, s)
      BY <1>10, <3>1 DEF AxSkbIn, AxPtpIn
    <3>4. Cardinality(AxPtpIn(axBd, AxRing, s)) \in Nat /\ freed(s) \in Nat
      BY <1>11, AxUsesType
    <3>5. AxUses(axBd', s) = Cardinality(AxPtpIn(axBd, AxRing, s))
      BY <3>3, <3>4, FS_EmptySet DEF AxUses
    <3>6. AxUses(axBd, s) = freed(s) + Cardinality(AxPtpIn(axBd, AxRing, s))
      BY DEF AxUses, freed
    <3>7. axRefs'[s] = axRefs[s] - freed(s)
      BY <1>1, <3>1
    <3>8. CASE s \in axStack
      BY <1>4, <3>2, <3>4, <3>5, <3>6, <3>7, <3>8
    <3>9. CASE s \notin axStack
      BY <1>4, <3>2, <3>4, <3>5, <3>6, <3>7, <3>9
    <3>10. QED
      BY <3>8, <3>9
  <2>2. QED
    BY <2>1, AxHeldNext
<1>16. QED
  BY <1>12, <1>13, <1>14, <1>15 DEF AxInv

LEMMA AxStutters == AxInv /\ UNCHANGED axVars => AxInv'
<1> SUFFICES ASSUME AxInv, UNCHANGED axVars PROVE AxInv'
  OBVIOUS
<1>1. UNCHANGED <<axBd, axTail, axCi, axHw, axLeft, axRefs, axStack, axLost, axStatus>>
  BY DEF axVars
<1>2. UNCHANGED <<axUp, axStopped, axReset>>
  BY DEF axVars
<1>3. AxTypes'
  <2>1. axUp' \in BOOLEAN /\ axStopped' \in BOOLEAN /\ axReset' \in BOOLEAN
    BY <1>2 DEF AxInv, AxTypes
  <2>2. /\ axBd' \in [AxRing -> [skb : Nat, ptp : Nat, done : BOOLEAN]] /\ axRefs' \in [AxSkb -> Int]
        /\ axTail' \in AxRing /\ axCi' \in AxRing /\ axHw' \in AxRing /\ axLeft' \in Int
    BY <1>1 DEF AxInv, AxTypes
  <2>3. QED
    BY <2>1, <2>2 DEF AxTypes
<1>4. AxWindows' /\ AxWoken'
  BY <1>1, <1>2 DEF AxInv, AxWindows, AxWindow, AxWoken
<1>5. AxHeld'
  BY <1>1 DEF AxInv, AxHeld
<1>6. QED
  BY <1>3, <1>4, <1>5 DEF AxInv

LEMMA AxStep == AxInv /\ [AxNext]_axVars => AxInv'
BY AxOpenKeeps, AxStopKeeps, AxNewSkbKeeps, AxXmitBusyKeeps, AxNoHeadroomKeeps, AxXmitKeeps, AxHwSendKeeps,
   AxHwErrorKeeps, AxTxIrqKeeps, AxErrIrqKeeps, AxErrHandlerKeeps, AxStutters DEF AxNext

LEMMA AxInvMeans == AxInv => AxHeld /\ AxWoken
BY DEF AxInv

----------------------------------------------------------------------------
(* The EmacLite driver (Emaclite): what is sent.                            *)

EmStatus == {"free", "busy", "active"}

EmIsTx(st) ==
  /\ DOMAIN st = {"tx", "next", "sent", "deferred", "stopped", "rc"}
  /\ st.tx \in [0 .. 1 -> EmStatus] /\ st.next \in 0 .. 1 /\ st.sent \in Seq(Nat)

\* xemaclite_send_data in state st: a free buffer is taken, or there is none where one was expected.
EmSends(t, st, f) ==
  /\ EmIsTx(t) /\ t.deferred = st.deferred /\ t.stopped = st.stopped
  /\ \/ /\ t.rc = 0 /\ t.sent = Append(st.sent, f)
        /\ \A b \in 0 .. 1 : t.tx[b] = st.tx[b] \/ t.tx[b] = "busy"
     \/ /\ t.rc = -1 /\ t.sent = st.sent /\ t.tx = st.tx /\ t.next = st.next
        /\ st.tx[st.next] # "free"

LEMMA EmSendDataIs ==
  ASSUME NEW st, EmIsTx(st), NEW f \in Nat
  PROVE  EmSends(EmSendData(st, f), st, f)
<1>1. st.next \in 0 .. 1 /\ EmOther(st.next) \in 0 .. 1 /\ Append(st.sent, f) \in Seq(Nat)
  BY DEF EmIsTx, EmOther
<1>2. CASE st.tx[st.next] = "free"
  <2> DEFINE t == [st EXCEPT !.tx[st.next] = "busy", !.next = IF EmPong THEN EmOther(@) ELSE @, !.sent = Append(@, f), !.rc = 0]
  <2>1. EmSendData(st, f) = t
    BY <1>2 DEF EmSendData
  <2>2. /\ DOMAIN t = {"tx", "next", "sent", "deferred", "stopped", "rc"} /\ t.rc = 0 /\ t.sent = Append(st.sent, f)
        /\ t.tx = [st.tx EXCEPT ![st.next] = "busy"] /\ t.next = (IF EmPong THEN EmOther(st.next) ELSE st.next)
        /\ t.deferred = st.deferred /\ t.stopped = st.stopped
    BY DEF EmIsTx
  <2> HIDE DEF t
  <2>3. t.tx \in [0 .. 1 -> EmStatus] /\ \A b \in 0 .. 1 : t.tx[b] = st.tx[b] \/ t.tx[b] = "busy"
    BY <1>1, <2>2 DEF EmIsTx, EmStatus
  <2>4. EmIsTx(t)
    BY <1>1, <2>2, <2>3 DEF EmIsTx
  <2>5. QED
    BY <2>1, <2>2, <2>3, <2>4 DEF EmSends
<1>3. CASE st.tx[st.next] # "free" /\ EmPong /\ st.tx[EmOther(st.next)] = "free"
  <2> DEFINE t == [st EXCEPT !.tx[EmOther(st.next)] = "busy", !.sent = Append(@, f), !.rc = 0]
  <2>1. EmSendData(st, f) = t
    BY <1>3 DEF EmSendData
  <2>2. /\ DOMAIN t = {"tx", "next", "sent", "deferred", "stopped", "rc"} /\ t.rc = 0 /\ t.sent = Append(st.sent, f)
        /\ t.tx = [st.tx EXCEPT ![EmOther(st.next)] = "busy"] /\ t.next = st.next
        /\ t.deferred = st.deferred /\ t.stopped = st.stopped
    BY DEF EmIsTx
  <2> HIDE DEF t
  <2>3. t.tx \in [0 .. 1 -> EmStatus] /\ \A b \in 0 .. 1 : t.tx[b] = st.tx[b] \/ t.tx[b] = "busy"
    BY <1>1, <2>2 DEF EmIsTx, EmStatus
  <2>4. EmIsTx(t)
    BY <1>1, <2>2, <2>3 DEF EmIsTx
  <2>5. QED
    BY <2>1, <2>2, <2>3, <2>4 DEF EmSends
<1>4. CASE st.tx[st.next] # "free" /\ ~(EmPong /\ st.tx[EmOther(st.next)] = "free")
  <2> DEFINE t == [st EXCEPT !.rc = -1]
  <2>1. EmSendData(st, f) = t
    BY <1>4 DEF EmSendData
  <2>2. /\ DOMAIN t = {"tx", "next", "sent", "deferred", "stopped", "rc"} /\ t.rc = -1 /\ t.sent = st.sent
        /\ t.tx = st.tx /\ t.next = st.next /\ t.deferred = st.deferred /\ t.stopped = st.stopped
    BY DEF EmIsTx
  <2> HIDE DEF t
  <2>3. EmIsTx(t)
    BY <2>2 DEF EmIsTx
  <2>4. QED
    BY <1>4, <2>1, <2>2, <2>3 DEF EmSends
<1>5. QED
  BY <1>2, <1>3, <1>4

EmTypes ==
  /\ emTx \in [0 .. 1 -> EmStatus] /\ emNextTx \in 0 .. 1 /\ emSent \in Seq(Nat)
  /\ emGiven \in Nat /\ emDeferred \in Nat

EmRising(q) == \A i, j \in 1 .. Len(q) : i < j => q[i] < q[j]

\* What waits to be sent was given after everything that was sent.
EmOrder ==
  ~emLeft => /\ EmRising(emSent)
             /\ \A i \in 1 .. Len(emSent) : emSent[i] <= emGiven /\ (emPc = "failed" \/ emDeferred # 0 => emSent[i] < emGiven)
             /\ emDeferred # 0 => emDeferred = emGiven /\ emStopped /\ emPc = "idle" /\ emDev = "open"

\* A stopped queue has its deferred skb, and a buffer whose completion sends it.
EmWake ==
  /\ ~emMissed => \A b \in 0 .. 1 : emTx[b] = "active" => emIrq
  /\ ~EmSmp /\ emDev = "open" /\ emStopped => emDeferred # 0 /\ \E b \in 0 .. 1 : emTx[b] # "free"
  /\ emPc = "failed" => emDev = "open" /\ emGiven > 0 /\ (~EmSmp => emTx[emNextTx] # "free")

EmTxInv == EmTypes /\ EmOrder /\ EmWake

LEMMA EmRisingAppend ==
  ASSUME NEW q \in Seq(Nat), NEW f \in Nat, EmRising(q), \A i \in 1 .. Len(q) : q[i] < f
  PROVE  /\ Append(q, f) \in Seq(Nat) /\ EmRising(Append(q, f))
         /\ \A i \in 1 .. Len(Append(q, f)) : Append(q, f)[i] <= f
<1>1. /\ Append(q, f) \in Seq(Nat) /\ Len(Append(q, f)) = Len(q) + 1 /\ Len(q) \in Nat
      /\ \A i \in 1 .. Len(q) : Append(q, f)[i] = q[i] /\ q[i] \in Nat
      /\ Append(q, f)[Len(q) + 1] = f
  OBVIOUS
<1>2. \A i \in 1 .. (Len(q) + 1) : i \in 1 .. Len(q) \/ i = Len(q) + 1
  BY <1>1
<1>3. \A i \in 1 .. Len(Append(q, f)) : Append(q, f)[i] <= f
  BY <1>1, <1>2
<1>4. ASSUME NEW i \in 1 .. (Len(q) + 1), NEW j \in 1 .. (Len(q) + 1), i < j PROVE Append(q, f)[i] < Append(q, f)[j]
  <2>1. i \in 1 .. Len(q)
    BY <1>1, <1>4
  <2>2. CASE j = Len(q) + 1
    BY <1>1, <2>1, <2>2
  <2>3. CASE j \in 1 .. Len(q)
    BY <1>1, <1>4, <2>1, <2>3 DEF EmRising
  <2>4. QED
    BY <1>2, <2>2, <2>3
<1>5. QED
  BY <1>1, <1>3, <1>4 DEF EmRising

\* xemaclite_tx_handler in state st: the deferred skb is sent and the queue woken, or nothing
\* changes, and then a deferred skb has found its buffer taken.
EmHandles(t, st) ==
  /\ EmIsTx(t) /\ \A b \in 0 .. 1 : t.tx[b] = st.tx[b] \/ t.tx[b] = "busy"
  /\ \/ t.deferred = st.deferred /\ t.stopped = st.stopped /\ t.sent = st.sent /\ t.next = st.next /\ t.tx = st.tx
        /\ (st.deferred # 0 => st.tx[st.next] # "free")
     \/ st.deferred # 0 /\ t.deferred = 0 /\ t.stopped = FALSE /\ t.sent = Append(st.sent, st.deferred)

LEMMA EmTxHandlerIs ==
  ASSUME NEW st, EmIsTx(st), st.deferred \in Nat
  PROVE  EmHandles(EmTxHandler(st), st)
<1>1. CASE st.deferred = 0
  BY <1>1 DEF EmTxHandler, EmHandles
<1>2. CASE st.deferred # 0
  <2> DEFINE s == EmSendData(st, st.deferred)
             u == [s EXCEPT !.deferred = 0, !.stopped = FALSE]
  <2>1. EmSends(s, st, st.deferred)
    BY EmSendDataIs
  <2> HIDE DEF s
  <2>2. EmTxHandler(st) = IF s.rc # 0 THEN s ELSE u
    BY <1>2 DEF EmTxHandler, s
  <2>3. /\ DOMAIN u = DOMAIN s /\ u.tx = s.tx /\ u.next = s.next /\ u.sent = s.sent /\ u.rc = s.rc
        /\ u.deferred = 0 /\ u.stopped = FALSE
    BY <2>1 DEF EmIsTx, EmSends
  <2> HIDE DEF u
  <2>4. CASE s.rc = 0
    <3>1. EmTxHandler(st) = u
      BY <2>2, <2>4
    <3>2. EmIsTx(u)
      BY <2>1, <2>3 DEF EmIsTx, EmSends
    <3>3. QED
      BY <1>2, <2>1, <2>3, <2>4, <3>1, <3>2 DEF EmSends, EmHandles
  <2>5. CASE s.rc # 0
    <3>1. EmTxHandler(st) = s
      BY <2>2, <2>5
    <3>2. QED
      BY <1>2, <2>1, <2>5, <3>1 DEF EmSends, EmHandles
  <2>6. QED
    BY <2>4, <2>5
<1>3. QED
  BY <1>1, <1>2

LEMMA EmTxStIs ==
  ASSUME EmTypes
  PROVE  /\ EmIsTx(EmTxSt) /\ EmTxSt.tx = emTx /\ EmTxSt.next = emNextTx /\ EmTxSt.sent = emSent
         /\ EmTxSt.deferred = emDeferred /\ EmTxSt.stopped = emStopped
BY DEF EmTxSt, EmIsTx, EmTypes

LEMMA EmSendKeeps == EmTxInv /\ EmSend => EmTxInv'
<1> SUFFICES ASSUME EmTxInv, EmSend PROVE EmTxInv'
  OBVIOUS
<1> DEFINE st == EmSendData(EmTxSt, emGiven + 1)
<1>1. emDev = "open" /\ emPc = "idle" /\ emGiven' = emGiven + 1 /\ emDev' = emDev
  BY DEF EmSend
<1>2. ~emStopped
  BY DEF EmSend
<1>3. emLeft' = emLeft
  BY DEF EmSend
<1>4. emIrq' = emIrq /\ emMissed' = emMissed
  BY DEF EmSend
<1>5. emTx' = st.tx /\ emNextTx' = st.next /\ emSent' = st.sent /\ emDeferred' = st.deferred
  BY DEF EmSend, EmTxBecomes
<1>6. emStopped' = st.stopped
  BY DEF EmSend, EmTxBecomes
<1>7. emPc' = IF st.rc = 0 THEN "idle" ELSE "failed"
  BY DEF EmSend
<1>8. EmTypes /\ emGiven \in Nat /\ emGiven + 1 \in Nat /\ emDeferred \in Nat /\ emSent \in Seq(Nat)
  BY DEF EmTxInv, EmTypes
<1>9. /\ EmIsTx(st) /\ st.deferred = emDeferred /\ st.stopped = emStopped
      /\ \/ /\ st.rc = 0 /\ st.sent = Append(emSent, emGiven + 1)
            /\ \A b \in 0 .. 1 : st.tx[b] = emTx[b] \/ st.tx[b] = "busy"
         \/ /\ st.rc = -1 /\ st.sent = emSent /\ st.tx = emTx /\ st.next = emNextTx
            /\ emTx[emNextTx] # "free"
  <2>1. EmIsTx(EmTxSt)
    BY <1>8, EmTxStIs
  <2>2. EmSends(st, EmTxSt, emGiven + 1)
    BY <1>8, <2>1, EmSendDataIs
  <2> HIDE DEF st
  <2>3. QED
    BY <1>8, <2>2, EmTxStIs DEF EmSends
<1> HIDE DEF st
<1>10. EmTypes'
  BY <1>1, <1>5, <1>8, <1>9 DEF EmTypes, EmIsTx
<1>11. ~emStopped'
  BY <1>2, <1>6, <1>9
<1>12. EmWake'
  <2>1. ~emMissed' => \A b \in 0 .. 1 : emTx'[b] = "active" => emIrq'
    BY <1>4, <1>5, <1>9 DEF EmTxInv, EmWake
  <2>2. emPc' = "failed" => emDev' = "open" /\ emGiven' > 0 /\ (~EmSmp => emTx'[emNextTx'] # "free")
    BY <1>1, <1>5, <1>7, <1>8, <1>9
  <2>3. QED
    BY <1>11, <2>1, <2>2 DEF EmWake
<1>13. EmOrder'
  <2> SUFFICES ASSUME ~emLeft' PROVE EmOrder'
    BY DEF EmOrder
  <2>1. /\ EmRising(emSent) /\ \A i \in 1 .. Len(emSent) : emSent[i] <= emGiven
    BY <1>3 DEF EmTxInv, EmOrder
  <2>2. emDeferred = 0
    BY <1>2, <1>3 DEF EmTxInv, EmOrder
  <2>3. \A i \in 1 .. Len(emSent) : emSent[i] \in Nat
    BY <1>8
  <2>4. \A i \in 1 .. Len(emSent) : emSent[i] < emGiven + 1
    BY <1>8, <2>1, <2>3
  <2>5. CASE st.rc = 0
    <3>1. emSent' = Append(emSent, emGiven + 1) /\ emPc' = "idle" /\ emDeferred' = 0
      BY <1>5, <1>7, <1>9, <2>2, <2>5
    <3>2. EmRising(Append(emSent, emGiven + 1))
          /\ \A i \in 1 .. Len(Append(emSent, emGiven + 1)) : Append(emSent, emGiven + 1)[i] <= emGiven + 1
      BY <1>8, <2>1, <2>4, EmRisingAppend
    <3>3. EmRising(emSent') /\ \A i \in 1 .. Len(emSent') : emSent'[i] <= emGiven'
      BY <1>1, <3>1, <3>2
    <3>4. ~(emPc' = "failed" \/ emDeferred' # 0)
      BY <3>1
    <3>5. QED
      BY <3>3, <3>4 DEF EmOrder
  <2>6. CASE st.rc # 0
    <3>1. emSent' = emSent /\ emDeferred' = 0
      BY <1>5, <1>9, <2>2, <2>6
    <3>2. EmRising(emSent') /\ \A i \in 1 .. Len(emSent') : emSent'[i] <= emGiven' /\ emSent'[i] < emGiven'
      BY <1>1, <1>8, <2>1, <2>3, <2>4, <3>1
    <3>3. QED
      BY <3>1, <3>2 DEF EmOrder
  <2>7. QED
    BY <2>5, <2>6
<1>14. QED
  BY <1>10, <1>12, <1>13 DEF EmTxInv

LEMMA EmInterruptKeeps == ASSUME EmTxInv, NEW nomem \in BOOLEAN, EmInterrupt(nomem) PROVE EmTxInv'
<1> DEFINE acked == [EmTxSt EXCEPT !.tx = [b \in 0 .. 1 |-> IF emTx[b] = "active" THEN "free" ELSE emTx[b]]]
           some == \E b \in 0 .. 1 : emTx[b] = "active"
           st == IF some THEN EmTxHandler(acked) ELSE EmTxSt
<1>1. emDev = "open" /\ emDev' = emDev /\ emPc' = emPc /\ emGiven' = emGiven
  BY DEF EmInterrupt
<1>2. emPc = "idle" \/ EmSmp
  BY DEF EmInterrupt
<1>3. emLeft' = emLeft
  BY DEF EmInterrupt
<1>4. EmTxBecomes(st)
  BY DEF EmInterrupt
<1>5. EmTypes /\ EmOrder /\ EmWake
  BY DEF EmTxInv
<1>6. /\ EmIsTx(EmTxSt) /\ EmTxSt.tx = emTx /\ EmTxSt.next = emNextTx /\ EmTxSt.sent = emSent
      /\ EmTxSt.deferred = emDeferred /\ EmTxSt.stopped = emStopped
  BY <1>5, EmTxStIs
<1>7. /\ acked.next = emNextTx /\ acked.sent = emSent /\ acked.deferred = emDeferred /\ acked.stopped = emStopped
      /\ DOMAIN acked = DOMAIN EmTxSt
      /\ acked.tx = [b \in 0 .. 1 |-> IF emTx[b] = "active" THEN "free" ELSE emTx[b]]
  BY <1>6 DEF EmIsTx
<1> HIDE DEF acked
<1>8. /\ acked.tx \in [0 .. 1 -> EmStatus] /\ \A b \in 0 .. 1 : acked.tx[b] # "active"
  BY <1>5, <1>7 DEF EmTypes, EmStatus
<1>9. EmIsTx(acked) /\ acked.deferred \in Nat
  BY <1>5, <1>6, <1>7, <1>8 DEF EmIsTx, EmTypes
<1>10. EmHandles(EmTxHandler(acked), acked)
  BY <1>9, EmTxHandlerIs
<1>11. /\ EmIsTx(st) /\ \A b \in 0 .. 1 : st.tx[b] # "active"
       /\ \/ /\ st.deferred = emDeferred /\ st.stopped = emStopped /\ st.sent = emSent /\ st.next = emNextTx
             /\ st.tx = emTx \/ (emDeferred # 0 => st.tx[st.next] # "free")
          \/ emDeferred # 0 /\ st.deferred = 0 /\ st.stopped = FALSE /\ st.sent = Append(emSent, emDeferred)
  <2>1. CASE some
    <3>1. st = EmTxHandler(acked)
      BY <2>1
    <3> HIDE DEF st
    <3>2. EmIsTx(st) /\ \A b \in 0 .. 1 : st.tx[b] = acked.tx[b] \/ st.tx[b] = "busy"
      BY <1>10, <3>1 DEF EmHandles
    <3>3. \A b \in 0 .. 1 : st.tx[b] # "active"
      BY <1>8, <3>2
    <3>4. CASE /\ st.deferred = acked.deferred /\ st.stopped = acked.stopped /\ st.sent = acked.sent
               /\ st.next = acked.next /\ st.tx = acked.tx
               /\ (acked.deferred # 0 => acked.tx[acked.next] # "free")
      <4>1. st.deferred = emDeferred /\ st.sent = emSent /\ st.next = emNextTx
            /\ (emDeferred # 0 => st.tx[st.next] # "free")
        BY <1>7, <3>4
      <4>2. st.stopped = emStopped
        BY <1>7, <3>4
      <4>3. QED
        BY <3>2, <3>3, <4>1, <4>2
    <3>5. CASE acked.deferred # 0 /\ st.deferred = 0 /\ st.stopped = FALSE /\ st.sent = Append(acked.sent, acked.deferred)
      BY <1>7, <3>2, <3>3, <3>5
    <3>6. QED
      BY <1>10, <3>1, <3>4, <3>5 DEF EmHandles
  <2>2. CASE ~some
    <3>1. st = EmTxSt
      BY <2>2
    <3> HIDE DEF st
    <3>2. \A b \in 0 .. 1 : st.tx[b] # "active"
      BY <1>6, <2>2, <3>1
    <3>3. st.stopped = emStopped
      BY <1>6, <3>1
    <3>4. EmIsTx(st) /\ st.deferred = emDeferred /\ st.sent = emSent /\ st.next = emNextTx /\ st.tx = emTx
      BY <1>6, <3>1
    <3>5. QED
      BY <3>2, <3>3, <3>4
  <2>3. QED
    BY <2>1, <2>2
<1> HIDE DEF st
<1>12. emTx' = st.tx /\ emNextTx' = st.next /\ emSent' = st.sent /\ emDeferred' = st.deferred
  BY <1>4 DEF EmTxBecomes
<1>13. emStopped' = st.stopped
  BY <1>4 DEF EmTxBecomes
<1>14. EmTypes'
  <2>1. st.deferred \in Nat
    BY <1>5, <1>11 DEF EmTypes
  <2>2. QED
    BY <1>1, <1>5, <1>11, <1>12, <2>1 DEF EmTypes, EmIsTx
<1>15. EmWake'
  <2>1. \A b \in 0 .. 1 : emTx'[b] # "active"
    BY <1>11, <1>12
  <2>2. ASSUME ~EmSmp, emStopped' PROVE emDeferred' # 0 /\ \E b \in 0 .. 1 : emTx'[b] # "free"
    <3>1. /\ st.deferred = emDeferred /\ st.stopped = emStopped
          /\ st.tx = emTx \/ (emDeferred # 0 => st.tx[st.next] # "free")
      BY <1>11, <1>13, <2>2
    <3>2. emStopped
      BY <1>13, <2>2, <3>1
    <3>3. emDeferred # 0 /\ \E b \in 0 .. 1 : emTx[b] # "free"
      BY <1>1, <1>5, <2>2, <3>2 DEF EmWake
    <3>4. st.next \in 0 .. 1
      BY <1>11 DEF EmIsTx
    <3>5. QED
      BY <1>12, <3>1, <3>3, <3>4
  <2>3. emPc' = "failed" => emDev' = "open" /\ emGiven' > 0 /\ EmSmp
    BY <1>1, <1>2, <1>5 DEF EmWake
  <2>4. QED
    BY <1>1, <2>1, <2>2, <2>3 DEF EmWake
<1>16. EmOrder'
  <2> SUFFICES ASSUME ~emLeft' PROVE EmOrder'
    BY DEF EmOrder
  <2>1. /\ EmRising(emSent)
        /\ \A i \in 1 .. Len(emSent) : emSent[i] <= emGiven /\ (emPc = "failed" \/ emDeferred # 0 => emSent[i] < emGiven)
    BY <1>3, <1>5 DEF EmOrder
  <2>2. emDeferred # 0 => emDeferred = emGiven /\ emPc = "idle"
    BY <1>3, <1>5 DEF EmOrder
  <2>3. emDeferred # 0 => emStopped
    BY <1>3, <1>5 DEF EmOrder
  <2>4. CASE st.deferred = emDeferred /\ st.stopped = emStopped /\ st.sent = emSent
    <3>1. emDeferred' = emDeferred /\ emSent' = emSent
      BY <1>12, <2>4
    <3>2. emDeferred' # 0 => emStopped'
      BY <1>13, <2>3, <2>4, <3>1
    <3>3. QED
      BY <1>1, <2>1, <2>2, <3>1, <3>2 DEF EmOrder
  <2>5. CASE emDeferred # 0 /\ st.deferred = 0 /\ st.sent = Append(emSent, emDeferred)
    <3>1. emSent' = Append(emSent, emGiven) /\ emDeferred' = 0 /\ emPc' = "idle"
      BY <1>1, <1>12, <2>2, <2>5
    <3>2. \A i \in 1 .. Len(emSent) : emSent[i] < emGiven
      BY <2>1, <2>5
    <3>3. emSent \in Seq(Nat) /\ emGiven \in Nat
      BY <1>5 DEF EmTypes
    <3>4. EmRising(Append(emSent, emGiven))
          /\ \A i \in 1 .. Len(Append(emSent, emGiven)) : Append(emSent, emGiven)[i] <= emGiven
      BY <2>1, <3>2, <3>3, EmRisingAppend
    <3>5. EmRising(emSent') /\ \A i \in 1 .. Len(emSent') : emSent'[i] <= emGiven'
      BY <1>1, <3>1, <3>4
    <3>6. ~(emPc' = "failed" \/ emDeferred' # 0)
      BY <3>1
    <3>7. QED
      BY <3>5, <3>6 DEF EmOrder
  <2>6. QED
    BY <1>11, <2>4, <2>5
<1>17. QED
  BY <1>14, <1>15, <1>16 DEF EmTxInv

LEMMA EmDeferKeeps == EmTxInv /\ EmDefer => EmTxInv'
<1> SUFFICES ASSUME EmTxInv, EmDefer PROVE EmTxInv'
  OBVIOUS
<1>1. /\ emPc = "failed" /\ emPc' = "idle" /\ emDeferred' = emGiven
      /\ UNCHANGED <<emTx, emNextTx, emSent, emGiven, emDev>>
  BY DEF EmDefer
<1>2. emStopped' = TRUE
  BY DEF EmDefer
<1>3. emLeft' = (emLeft \/ emDeferred # 0)
  BY DEF EmDefer
<1>4. emIrq' = emIrq /\ emMissed' = emMissed
  BY DEF EmDefer
<1>5. EmTypes /\ EmOrder /\ EmWake
  BY DEF EmTxInv
<1>6. emDev = "open" /\ emGiven > 0 /\ (~EmSmp => emTx[emNextTx] # "free") /\ emGiven \in Nat /\ emNextTx \in 0 .. 1
  BY <1>1, <1>5 DEF EmWake, EmTypes
<1>7. EmTypes'
  BY <1>1, <1>5 DEF EmTypes
<1>8. EmWake'
  <2>1. ~emMissed' => \A b \in 0 .. 1 : emTx'[b] = "active" => emIrq'
    BY <1>1, <1>4, <1>5 DEF EmWake
  <2>2. ~EmSmp => emDeferred' # 0 /\ \E b \in 0 .. 1 : emTx'[b] # "free"
    BY <1>1, <1>6
  <2>3. emPc' # "failed"
    BY <1>1
  <2>4. QED
    BY <2>1, <2>2, <2>3 DEF EmWake
<1>9. EmOrder'
  <2> SUFFICES ASSUME ~emLeft' PROVE EmOrder'
    BY DEF EmOrder
  <2>1. ~emLeft
    BY <1>3
  <2>2. /\ EmRising(emSent) /\ \A i \in 1 .. Len(emSent) : emSent[i] <= emGiven /\ emSent[i] < emGiven
    BY <1>1, <1>5, <2>1 DEF EmOrder
  <2>3. EmRising(emSent') /\ \A i \in 1 .. Len(emSent') : emSent'[i] <= emGiven' /\ emSent'[i] < emGiven'
    BY <1>1, <2>2
  <2>4. emDeferred' = emGiven' /\ emStopped' /\ emPc' = "idle" /\ emDev' = "open"
    BY <1>1, <1>2, <1>6
  <2>5. QED
    BY <2>3, <2>4 DEF EmOrder
<1>10. QED
  BY <1>7, <1>8, <1>9 DEF EmTxInv

\* Steps that leave the sender's own state as it is, but may stop the queue, lose its deferred skb
\* (with a mark), and change the buffers.
LEMMA EmOrderKept ==
  ASSUME EmOrder, UNCHANGED <<emSent, emGiven, emPc>>, emDeferred' \in {0, emDeferred},
         emLeft => emLeft',
         emDeferred' # 0 /\ ~emLeft' => emDeferred' = emDeferred /\ emDev' = "open" /\ (emStopped => emStopped')
  PROVE  EmOrder'
<1> SUFFICES ASSUME ~emLeft' PROVE EmOrder'
  BY DEF EmOrder
<1>1. ~emLeft
  OBVIOUS
<1>2. /\ EmRising(emSent)
      /\ \A i \in 1 .. Len(emSent) : emSent[i] <= emGiven /\ (emPc = "failed" \/ emDeferred # 0 => emSent[i] < emGiven)
      /\ emDeferred # 0 => emDeferred = emGiven /\ emPc = "idle"
  BY <1>1 DEF EmOrder
<1>3. emDeferred # 0 => emStopped
  BY <1>1 DEF EmOrder
<1>4. emDeferred' # 0 => emDeferred # 0 /\ emDeferred' = emDeferred /\ emDev' = "open"
  OBVIOUS
<1>5. emDeferred' # 0 => emStopped'
  BY <1>3, <1>4
<1>6. emDeferred' # 0 => emDeferred' = emGiven' /\ emPc' = "idle" /\ emDev' = "open"
  BY <1>2, <1>4
<1>7. EmRising(emSent')
  BY <1>2
<1>8. \A i \in 1 .. Len(emSent') : emSent'[i] <= emGiven' /\ (emPc' = "failed" \/ emDeferred' # 0 => emSent'[i] < emGiven')
  BY <1>2, <1>4
<1>9. QED
  BY <1>5, <1>6, <1>7, <1>8 DEF EmOrder

\* Steps that only let the queue's buffers move on and mark a completion nobody is told of.
LEMMA EmWakeKept ==
  ASSUME EmWake, EmTypes, emTx' \in [0 .. 1 -> EmStatus], UNCHANGED <<emNextTx, emGiven, emPc, emDeferred, emDev>>,
         emStopped' = emStopped,
         \A b \in 0 .. 1 : emTx'[b] = emTx[b] \/ (emTx[b] = "busy" /\ emTx'[b] = "active"),
         ~emMissed' => ~emMissed /\ (emIrq => emIrq') /\ \A b \in 0 .. 1 : emTx'[b] = emTx[b] \/ emIrq'
  PROVE  EmWake'
<1>1. emNextTx \in 0 .. 1
  BY DEF EmTypes
<1>2. \A b \in 0 .. 1 : emTx[b] # "free" => emTx'[b] # "free"
  OBVIOUS
<1>3. ~emMissed' => \A b \in 0 .. 1 : emTx'[b] = "active" => emIrq'
  BY DEF EmWake
<1>4. ~EmSmp /\ emDev = "open" /\ emStopped => emDeferred # 0 /\ \E b \in 0 .. 1 : emTx'[b] # "free"
  BY <1>2 DEF EmWake
<1>5. emPc = "failed" => emDev = "open" /\ emGiven > 0 /\ (~EmSmp => emTx'[emNextTx] # "free")
  BY <1>1, <1>2 DEF EmWake
<1>6. ~EmSmp /\ emDev' = "open" /\ emStopped' => emDeferred' # 0 /\ \E b \in 0 .. 1 : emTx'[b] # "free"
  BY <1>4
<1>7. emPc' = "failed" => emDev' = "open" /\ emGiven' > 0 /\ (~EmSmp => emTx'[emNextTx'] # "free")
  BY <1>5
<1>8. QED
  BY <1>3, <1>6, <1>7 DEF EmWake

LEMMA EmSetAddressKeeps == EmTxInv /\ EmSetAddress => EmTxInv'
<1> SUFFICES ASSUME EmTxInv, EmSetAddress PROVE EmTxInv'
  OBVIOUS
<1>1. emTx' = EmAddressed /\ UNCHANGED <<emNextTx, emDeferred, emPc, emSent, emGiven, emDev>>
  BY DEF EmSetAddress, EmUpdateAddress
<1>2. emStopped' = emStopped
  BY DEF EmSetAddress
<1>3. emLeft' = emLeft
  BY DEF EmSetAddress
<1>4. emIrq' = emIrq /\ emMissed' = (emMissed \/ emTx # EmAddressed)
  BY DEF EmSetAddress, EmUpdateAddress
<1>5. EmTypes /\ EmOrder /\ EmWake
  BY DEF EmTxInv
<1>6. /\ EmAddressed \in [0 .. 1 -> EmStatus]
      /\ \A b \in 0 .. 1 : EmAddressed[b] = emTx[b] \/ (emTx[b] = "busy" /\ EmAddressed[b] = "active")
  BY <1>5 DEF EmAddressed, EmTypes, EmStatus
<1>7. EmTypes'
  BY <1>1, <1>5, <1>6 DEF EmTypes
<1>8. ~emMissed' => ~emMissed /\ (emIrq => emIrq') /\ \A b \in 0 .. 1 : emTx'[b] = emTx[b] \/ emIrq'
  <2>1. ~emMissed' => ~emMissed /\ emTx = EmAddressed
    BY <1>4
  <2>2. emIrq => emIrq'
    BY <1>4
  <2>3. QED
    BY <1>1, <2>1, <2>2
<1>9. EmWake'
  BY <1>1, <1>2, <1>5, <1>6, <1>8, EmWakeKept
<1>10. EmOrder'
  <2>1. emDeferred' # 0 /\ ~emLeft' => emDeferred' = emDeferred /\ emDev' = "open" /\ (emStopped => emStopped')
    <3>1. emDeferred # 0 /\ ~emLeft => emDev = "open"
      BY <1>5 DEF EmOrder
    <3>2. QED
      BY <1>1, <1>2, <1>3, <3>1
  <2>2. QED
    BY <1>1, <1>3, <1>5, <2>1, EmOrderKept
<1>11. QED
  BY <1>7, <1>9, <1>10 DEF EmTxInv

LEMMA EmHwSentKeeps == ASSUME EmTxInv, NEW b \in 0 .. 1, EmHwSent(b) PROVE EmTxInv'
<1>1. emTx' = [emTx EXCEPT ![b] = "active"] /\ emTx[b] = "busy" /\ UNCHANGED <<emNextTx, emDeferred, emPc, emSent, emGiven, emDev>>
  BY DEF EmHwSent
<1>2. emStopped' = emStopped
  BY DEF EmHwSent
<1>3. emLeft' = emLeft
  BY DEF EmHwSent
<1>4. emIrq' = (emIrq \/ emDev = "open")
  BY DEF EmHwSent
<1>5. emMissed' = (emMissed \/ emDev # "open")
  BY DEF EmHwSent
<1>6. EmTypes /\ EmOrder /\ EmWake
  BY DEF EmTxInv
<1>7. /\ emTx' \in [0 .. 1 -> EmStatus]
      /\ \A c \in 0 .. 1 : emTx'[c] = emTx[c] \/ (emTx[c] = "busy" /\ emTx'[c] = "active")
  BY <1>1, <1>6 DEF EmTypes, EmStatus
<1>8. EmTypes'
  BY <1>1, <1>6, <1>7 DEF EmTypes
<1>9. ~emMissed' => ~emMissed /\ (emIrq => emIrq') /\ \A c \in 0 .. 1 : emTx'[c] = emTx[c] \/ emIrq'
  <2>1. ~emMissed' => ~emMissed /\ emDev = "open"
    BY <1>5
  <2>2. (emIrq => emIrq') /\ (emDev = "open" => emIrq')
    BY <1>4
  <2>3. QED
    BY <2>1, <2>2
<1>10. EmWake'
  BY <1>1, <1>2, <1>6, <1>7, <1>9, EmWakeKept
<1>11. EmOrder'
  <2>1. emDeferred' # 0 /\ ~emLeft' => emDeferred' = emDeferred /\ emDev' = "open" /\ (emStopped => emStopped')
    <3>1. emDeferred # 0 /\ ~emLeft => emDev = "open"
      BY <1>6 DEF EmOrder
    <3>2. QED
      BY <1>1, <1>2, <1>3, <3>1
  <2>2. QED
    BY <1>1, <1>3, <1>6, <2>1, EmOrderKept
<1>12. QED
  BY <1>8, <1>10, <1>11 DEF EmTxInv

\* Steps that leave the sender alone.
LEMMA EmTxKept ==
  ASSUME EmTxInv, UNCHANGED <<emTx, emNextTx, emDeferred, emPc, emSent, emGiven>>, emStopped' = emStopped, emLeft' = emLeft,
         emDev' = emDev, emMissed' = emMissed, emIrq => emIrq'
  PROVE  EmTxInv'
<1>1. EmTypes /\ EmOrder /\ EmWake
  BY DEF EmTxInv
<1>2. EmTypes'
  BY <1>1 DEF EmTypes
<1>3. EmWake'
  <2>1. ~emMissed' => ~emMissed /\ (emIrq => emIrq') /\ \A c \in 0 .. 1 : emTx'[c] = emTx[c] \/ emIrq'
    OBVIOUS
  <2>2. emTx' \in [0 .. 1 -> EmStatus]
    BY <1>1 DEF EmTypes
  <2>3. QED
    BY <1>1, <2>1, <2>2, EmWakeKept
<1>4. EmOrder'
  <2>1. emDeferred' # 0 /\ ~emLeft' => emDeferred' = emDeferred /\ emDev' = "open" /\ (emStopped => emStopped')
    <3>1. emDeferred # 0 /\ ~emLeft => emDev = "open"
      BY <1>1 DEF EmOrder
    <3>2. QED
      BY <3>1
  <2>2. emLeft => emLeft'
    OBVIOUS
  <2>3. QED
    BY <1>1, <2>1, <2>2, EmOrderKept
<1>5. QED
  BY <1>2, <1>3, <1>4 DEF EmTxInv

LEMMA EmTxTimeoutKeeps == EmTxInv /\ EmTxTimeout => EmTxInv'
<1> SUFFICES ASSUME EmTxInv, EmTxTimeout PROVE EmTxInv'
  OBVIOUS
<1>1. emDeferred' = 0 /\ emPc = "idle" /\ UNCHANGED <<emTx, emNextTx, emSent, emGiven, emPc, emDev>>
  BY DEF EmTxTimeout
<1>2. ~emStopped'
  BY DEF EmTxTimeout
<1>3. emLeft' = emLeft
  BY DEF EmTxTimeout
<1>4. emIrq' = emIrq /\ emMissed' = emMissed
  BY DEF EmTxTimeout
<1>5. EmTypes /\ EmOrder /\ EmWake
  BY DEF EmTxInv
<1>6. EmTypes'
  BY <1>1, <1>5 DEF EmTypes
<1>7. EmWake'
  <2>1. ~emMissed' => \A b \in 0 .. 1 : emTx'[b] = "active" => emIrq'
    BY <1>1, <1>4, <1>5 DEF EmWake
  <2>2. emPc' # "failed"
    BY <1>1
  <2>3. QED
    BY <1>2, <2>1, <2>2 DEF EmWake
<1>8. EmOrder'
  BY <1>1, <1>3, <1>5, EmOrderKept
<1>9. QED
  BY <1>6, <1>7, <1>8 DEF EmTxInv

LEMMA EmOpenKeeps == EmTxInv /\ EmOpen => EmTxInv'
<1> SUFFICES ASSUME EmTxInv, EmOpen PROVE EmTxInv'
  OBVIOUS
<1>1. emTx' = EmAddressed /\ emDev = "probed" /\ UNCHANGED <<emNextTx, emDeferred, emPc, emSent, emGiven>>
  BY DEF EmOpen, EmUpdateAddress
<1>2. ~emStopped'
  BY DEF EmOpen
<1>3. emLeft' = emLeft
  BY DEF EmOpen
<1>4. emIrq' = emIrq /\ emMissed' = (emMissed \/ emTx # EmAddressed)
  BY DEF EmOpen, EmUpdateAddress
<1>5. EmTypes /\ EmOrder /\ EmWake
  BY DEF EmTxInv
<1>6. EmAddressed \in [0 .. 1 -> EmStatus]
  BY <1>5 DEF EmAddressed, EmTypes, EmStatus
<1>7. EmTypes'
  BY <1>1, <1>5, <1>6 DEF EmTypes
<1>8. EmWake'
  <2>1. ~emMissed' => ~emMissed /\ emTx' = emTx
    BY <1>1, <1>4
  <2>2. ~emMissed => \A b \in 0 .. 1 : emTx[b] = "active" => emIrq'
    BY <1>4, <1>5 DEF EmWake
  <2>3. emPc' # "failed"
    BY <1>1, <1>5 DEF EmWake
  <2>4. QED
    BY <1>2, <2>1, <2>2, <2>3 DEF EmWake
<1>9. EmOrder'
  <2>1. ~emLeft => emDeferred = 0
    BY <1>1, <1>5 DEF EmOrder
  <2>2. emDeferred' # 0 /\ ~emLeft' => FALSE
    BY <1>1, <1>3, <2>1
  <2>3. QED
    BY <1>1, <1>3, <1>5, <2>2, EmOrderKept
<1>10. QED
  BY <1>7, <1>8, <1>9 DEF EmTxInv

LEMMA EmCloseKeeps == EmTxInv /\ EmClose => EmTxInv'
<1> SUFFICES ASSUME EmTxInv, EmClose PROVE EmTxInv'
  OBVIOUS
<1>1. emPc = "idle" /\ emDev' = "probed" /\ UNCHANGED <<emTx, emNextTx, emDeferred, emPc, emSent, emGiven>>
  BY DEF EmClose
<1>2. emLeft' = (emLeft \/ emDeferred # 0)
  BY DEF EmClose
<1>3. emMissed' = (emMissed \/ (emIrq /\ ~emIrq'))
  BY DEF EmClose
<1>4. EmTypes /\ EmOrder /\ EmWake
  BY DEF EmTxInv
<1>5. EmTypes'
  BY <1>1, <1>4 DEF EmTypes
<1>6. EmWake'
  <2>1. ~emMissed' => ~emMissed /\ (emIrq => emIrq')
    BY <1>3
  <2>2. ~emMissed' => \A b \in 0 .. 1 : emTx'[b] = "active" => emIrq'
    BY <1>1, <1>4, <2>1 DEF EmWake
  <2>3. emPc' # "failed" /\ emDev' # "open"
    BY <1>1
  <2>4. QED
    BY <2>2, <2>3 DEF EmWake
<1>7. EmOrder'
  <2>1. emDeferred' # 0 /\ ~emLeft' => FALSE
    BY <1>1, <1>2
  <2>2. emLeft => emLeft'
    BY <1>2
  <2>3. QED
    BY <1>1, <1>4, <2>1, <2>2, EmOrderKept
<1>8. QED
  BY <1>5, <1>6, <1>7 DEF EmTxInv

LEMMA EmRemoveKeeps == EmTxInv /\ EmRemove => EmTxInv'
<1> SUFFICES ASSUME EmTxInv, EmRemove PROVE EmTxInv'
  OBVIOUS
<1>1. emDev = "probed" /\ emDev' = "none" /\ UNCHANGED <<emTx, emNextTx, emDeferred, emPc, emSent, emGiven>>
  BY DEF EmRemove, emTxVars
<1>2. emLeft' = emLeft
  BY DEF EmRemove, emTxVars
<1>3. emIrq' = emIrq /\ emMissed' = emMissed
  BY DEF EmRemove
<1>4. EmTypes /\ EmOrder /\ EmWake
  BY DEF EmTxInv
<1>5. EmTypes'
  BY <1>1, <1>4 DEF EmTypes
<1>6. EmWake'
  <2>1. ~emMissed' => \A b \in 0 .. 1 : emTx'[b] = "active" => emIrq'
    BY <1>1, <1>3, <1>4 DEF EmWake
  <2>2. emPc' # "failed" /\ emDev' # "open"
    BY <1>1, <1>4 DEF EmWake
  <2>3. QED
    BY <2>1, <2>2 DEF EmWake
<1>7. EmOrder'
  <2>1. ~emLeft => emDeferred = 0
    BY <1>1, <1>4 DEF EmOrder
  <2>2. emDeferred' # 0 /\ ~emLeft' => FALSE
    BY <1>1, <1>2, <2>1
  <2>3. QED
    BY <1>1, <1>2, <1>4, <2>2, EmOrderKept
<1>8. QED
  BY <1>5, <1>6, <1>7 DEF EmTxInv

LEMMA EmProbeKeeps ==
  ASSUME EmTxInv, NEW node, NEW own, NEW ok, NEW registered \in BOOLEAN, EmProbe(node, own, ok, registered) PROVE EmTxInv'
<1>1. /\ emDev = "none" /\ emDev' \in {"probed", "none"} /\ emTx' = [b \in 0 .. 1 |-> "free"] /\ emNextTx' = 0
      /\ emDeferred' = 0 /\ UNCHANGED <<emPc, emSent, emGiven>>
  BY DEF EmProbe
<1>2. emLeft' = emLeft
  BY DEF EmProbe
<1>3. EmTypes /\ EmOrder /\ EmWake
  BY DEF EmTxInv
<1>4. EmTypes'
  BY <1>1, <1>3 DEF EmTypes, EmStatus
<1>5. EmWake'
  <2>1. emPc' # "failed" /\ emDev' # "open"
    BY <1>1, <1>3 DEF EmWake
  <2>2. \A b \in 0 .. 1 : emTx'[b] # "active"
    BY <1>1
  <2>3. QED
    BY <2>1, <2>2 DEF EmWake
<1>6. EmOrder'
  BY <1>1, <1>2, <1>3, EmOrderKept
<1>7. QED
  BY <1>4, <1>5, <1>6 DEF EmTxInv

LEMMA EmTxStarts == EmInit => EmTxInv
<1> SUFFICES ASSUME EmInit PROVE EmTxInv
  OBVIOUS
<1>1. /\ emTx = [b \in 0 .. 1 |-> "free"] /\ emNextTx = 0 /\ emDeferred = 0 /\ emPc = "idle" /\ emSent = << >>
      /\ emGiven = 0 /\ emDev = "none"
  BY DEF EmInit
<1>2. EmTypes
  BY <1>1 DEF EmTypes, EmStatus
<1>3. EmWake
  BY <1>1 DEF EmWake
<1>4. EmOrder
  BY <1>1 DEF EmOrder, EmRising
<1>5. QED
  BY <1>2, <1>3, <1>4 DEF EmTxInv

LEMMA EmTxStep == EmTxInv /\ [EmNext]_emVars => EmTxInv'
<1> SUFFICES ASSUME EmTxInv, [EmNext]_emVars PROVE EmTxInv'
  OBVIOUS
<1>1. CASE EmMdioStart \/ EmMdioOver \/ UNCHANGED emVars
  <2>1. UNCHANGED <<emTx, emNextTx, emDeferred, emPc, emSent, emGiven>>
    BY <1>1 DEF EmMdioStart, EmMdioOver, emVars, emTxVars
  <2>2. emStopped' = emStopped
    BY <1>1 DEF EmMdioStart, EmMdioOver, emVars, emTxVars
  <2>3. emLeft' = emLeft
    BY <1>1 DEF EmMdioStart, EmMdioOver, emVars, emTxVars
  <2>4. emDev' = emDev /\ emMissed' = emMissed
    BY <1>1 DEF EmMdioStart, EmMdioOver, emVars
  <2>5. emIrq => emIrq'
    BY <1>1 DEF EmMdioStart, EmMdioOver, emVars
  <2>6. QED
    BY <2>1, <2>2, <2>3, <2>4, <2>5, EmTxKept
<1>2. ASSUME NEW type, NEW len, EmHwReceived(type, len) PROVE EmTxInv'
  <2>1. UNCHANGED <<emTx, emNextTx, emDeferred, emPc, emSent, emGiven>>
    BY <1>2 DEF EmHwReceived, emTxVars
  <2>2. emStopped' = emStopped
    BY <1>2 DEF EmHwReceived, emTxVars
  <2>3. emLeft' = emLeft
    BY <1>2 DEF EmHwReceived, emTxVars
  <2>4. emDev' = emDev /\ emMissed' = emMissed
    BY <1>2 DEF EmHwReceived
  <2>5. emIrq => emIrq'
    BY <1>2 DEF EmHwReceived
  <2>6. QED
    BY <2>1, <2>2, <2>3, <2>4, <2>5, EmTxKept
<1>3. QED
  BY <1>1, <1>2, EmProbeKeeps, EmInterruptKeeps, EmOpenKeeps, EmSetAddressKeeps, EmCloseKeeps, EmRemoveKeeps, EmSendKeeps,
     EmDeferKeeps, EmTxTimeoutKeeps, EmHwSentKeeps DEF EmNext

LEMMA EmTxInvMeans == EmTxInv => EmNotStuck /\ EmSentInOrder
<1> SUFFICES ASSUME EmTxInv PROVE EmNotStuck /\ EmSentInOrder
  OBVIOUS
<1>1. EmTypes /\ EmOrder /\ EmWake
  BY DEF EmTxInv
<1>2. EmSentInOrder
  BY <1>1 DEF EmOrder, EmRising, EmSentInOrder
<1>3. ASSUME emDev = "open", emStopped, ~EmSmp, ~emMissed
      PROVE  emDeferred # 0 /\ \E b \in 0 .. 1 : emTx[b] = "busy" \/ (emTx[b] = "active" /\ emIrq)
  <2>1. emDeferred # 0 /\ \E b \in 0 .. 1 : emTx[b] # "free"
    BY <1>1, <1>3 DEF EmWake
  <2>2. PICK b \in 0 .. 1 : emTx[b] # "free"
    BY <2>1
  <2>3. emTx[b] \in EmStatus
    BY <1>1 DEF EmTypes
  <2>4. emTx[b] = "active" => emIrq
    BY <1>1, <1>3 DEF EmWake
  <2>5. QED
    BY <2>1, <2>2, <2>3, <2>4 DEF EmStatus
<1>4. QED
  BY <1>2, <1>3 DEF EmNotStuck

----------------------------------------------------------------------------
(* The EmacLite driver (Emaclite): what is received.                        *)

EmFrame == [id : Nat, type : {"ip", "arp", "len", "other"}, len : EmLens]

EmRxTypes ==
  /\ DOMAIN emRx = 0 .. 1 /\ emRx = [b \in 0 .. 1 |-> emRx[b]]
  /\ \A b \in 0 .. 1 : emRx[b] # << >> => emRx[b][1] \in EmFrame /\ emRx[b][1].id <= emCame
  /\ emHwRx \in 0 .. 1 /\ emNextRx \in 0 .. 1 /\ emCame \in Nat
  /\ emUp.frame.id \in Nat /\ emUp.frame.id <= emCame

\* All bytes of a frame that went up are right, but for the check sequence.
EmGood == emUp.good >= EmHlen + (IF emUp.frame.type = "arp" THEN 28 ELSE emUp.frame.len)

\* The device fills the buffers in the order in which they are read from e on.
EmAligned(e) ==
  IF EmPong
  THEN /\ emRx[EmOther(e)] # << >> => emRx[e] # << >> /\ emRx[e][1].id < emRx[EmOther(e)][1].id
       /\ emHwRx = e <=> emRx[e] = << >> \/ emRx[EmOther(e)] # << >>
  ELSE emHwRx = e /\ emRx[EmOther(e)] = << >>

EmInTurn ==
  ~emOff => /\ emUp.before < emUp.frame.id
            /\ \A b \in 0 .. 1 : emRx[b] # << >> => emUp.frame.id < emRx[b][1].id
            /\ \E e \in 0 .. 1 : EmAligned(e) /\ (emDev # "none" => emNextRx = e)

EmRxInv == EmRxTypes /\ EmGood /\ EmInTurn

\* A frame's length without the check sequence is copied, whatever its type.
LEMMA EmCopied ==
  ASSUME NEW f \in EmFrame
  PROVE  EmAlignedRead(EmRecvLength(f)) >= EmHlen + (IF f.type = "arp" THEN 28 ELSE f.len)
<1>0. \A n \in EmLens : n \in 0 .. 1500
  BY EmAssumption DEF EmDataLen
<1>1. f.len \in EmLens /\ f.type \in {"ip", "arp", "len", "other"}
  BY DEF EmFrame
<1>a. PICK n \in 0 .. 1500 : f.len = n
  BY <1>0, <1>1
<1>2. EmRecvLength(f) \in Nat /\ EmRecvLength(f) >= (IF f.type = "arp" THEN 28 ELSE n) + EmHlen + EmFcs
  <2>1. CASE f.type = "ip"
    <3>1. EmRecvLength(f) = n + 14 + 4
      BY <1>a, <2>1 DEF EmRecvLength, EmHlen, EmFcs, EmDataLen
    <3>2. QED
      BY <2>1, <3>1 DEF EmHlen, EmFcs
  <2>2. CASE f.type = "arp"
    BY <2>2 DEF EmRecvLength, EmHlen, EmFcs
  <2>3. CASE f.type = "len"
    <3>1. EmRecvLength(f) = n + 14 + 4
      BY <1>a, <2>3 DEF EmRecvLength, EmHlen, EmFcs
    <3>2. QED
      BY <2>3, <3>1 DEF EmHlen, EmFcs
  <2>4. CASE f.type = "other"
    BY <2>4 DEF EmRecvLength, EmHlen, EmFcs, EmDataLen
  <2>5. QED
    BY <1>1, <2>1, <2>2, <2>3, <2>4
<1>3. ASSUME NEW k \in Nat PROVE EmAlignedRead(k) \in Int /\ EmAlignedRead(k) >= k - 2
  <2>1. k % 4 \in 0 .. 3
    OBVIOUS
  <2>2. QED
    BY <2>1 DEF EmAlignedRead
<1>4. EmAlignedRead(EmRecvLength(f)) \in Int /\ EmAlignedRead(EmRecvLength(f)) >= EmRecvLength(f) - 2
  BY <1>2, <1>3
<1>5. (IF f.type = "arp" THEN 28 ELSE n) \in Nat
  OBVIOUS
<1>6. EmAlignedRead(EmRecvLength(f)) >= EmHlen + (IF f.type = "arp" THEN 28 ELSE n)
  BY <1>2, <1>4, <1>5 DEF EmHlen, EmFcs
<1>7. QED
  BY <1>a, <1>6

\* xemaclite_recv_data in state st, with a frame in buffer b.
EmTakes(t, st, b) ==
  /\ t.rx = [st.rx EXCEPT ![b] = << >>]
  /\ t.next = (IF b = st.next /\ EmPong THEN EmOther(st.next) ELSE st.next)
  /\ t.up.frame = st.rx[b][1] /\ t.up.before = st.up.frame.id
  /\ t.up.good = EmAlignedRead(EmRecvLength(st.rx[b][1]))

LEMMA EmRecvDataIs ==
  ASSUME NEW st, DOMAIN st = {"rx", "next", "up"}, DOMAIN st.rx = 0 .. 1, st.next \in 0 .. 1
  PROVE  LET b == IF st.rx[st.next] # << >> \/ ~EmPong THEN st.next ELSE EmOther(st.next)
         IN  IF st.rx[b] = << >> THEN EmRecvData(st) = st ELSE EmTakes(EmRecvData(st), st, b)
<1> DEFINE mine == st.rx[st.next] # << >>
           b == IF mine \/ ~EmPong THEN st.next ELSE EmOther(st.next)
           t == [st EXCEPT !.rx[b] = << >>, !.next = IF mine /\ EmPong THEN EmOther(@) ELSE @,
                           !.up = [frame |-> st.rx[b][1], before |-> @.frame.id,
                                   good |-> EmAlignedRead(EmRecvLength(st.rx[b][1]))]]
<1>1. b \in 0 .. 1 /\ EmOther(st.next) # st.next
  BY DEF EmOther
<1>2. EmRecvData(st) = IF st.rx[b] = << >> THEN st ELSE t
  BY DEF EmRecvData
<1>3. t.rx = [st.rx EXCEPT ![b] = << >>]
  OBVIOUS
<1>4. t.next = IF mine /\ EmPong THEN EmOther(st.next) ELSE st.next
  OBVIOUS
<1>5. t.up = [frame |-> st.rx[b][1], before |-> st.up.frame.id, good |-> EmAlignedRead(EmRecvLength(st.rx[b][1]))]
  OBVIOUS
<1> HIDE DEF t
<1>6. t.up.frame = st.rx[b][1] /\ t.up.before = st.up.frame.id /\ t.up.good = EmAlignedRead(EmRecvLength(st.rx[b][1]))
  BY <1>5
<1>7. (b = st.next <=> mine \/ ~EmPong)
  BY <1>1
<1>8. t.next = (IF b = st.next /\ EmPong THEN EmOther(st.next) ELSE st.next)
  BY <1>4, <1>7
<1> HIDE DEF b
<1>9. EmTakes(t, st, b)
  BY <1>3, <1>6, <1>8 DEF EmTakes
<1>10. IF st.rx[b] = << >> THEN EmRecvData(st) = st ELSE EmTakes(EmRecvData(st), st, b)
  BY <1>2, <1>9
<1>11. QED
  BY <1>10 DEF b

LEMMA EmRxStarts == EmInit => EmRxInv
<1> SUFFICES ASSUME EmInit PROVE EmRxInv
  OBVIOUS
<1>1. /\ emRx = [b \in 0 .. 1 |-> << >>] /\ emHwRx \in 0 .. 1 /\ emNextRx = 0 /\ emCame = 0
      /\ emUp = EmNothing /\ emDev = "none"
  BY DEF EmInit
<1>2. emUp.frame.id = 0 /\ emUp.frame.type = "arp" /\ emUp.before = -1 /\ emUp.good = EmHlen + 28
  BY <1>1 DEF EmNothing
<1>3. \A b \in 0 .. 1 : emRx[b] = << >>
  BY <1>1
<1>4. EmRxTypes
  BY <1>1, <1>2, <1>3 DEF EmRxTypes
<1>5. EmGood
  BY <1>2 DEF EmGood, EmHlen
<1>6. EmAligned(emHwRx)
  BY <1>1, <1>3 DEF EmAligned, EmOther
<1>7. EmInTurn
  BY <1>1, <1>2, <1>3, <1>6 DEF EmInTurn
<1>8. QED
  BY <1>4, <1>5, <1>7 DEF EmRxInv

\* What leaves the buffers alone and does not move a device to another buffer.
LEMMA EmRxSame ==
  ASSUME EmRxInv, UNCHANGED <<emRx, emHwRx, emUp, emCame>>, emNextRx' = emNextRx, ~emOff' => ~emOff,
         emDev' # "none" => emDev # "none"
  PROVE  EmRxInv'
<1>1. EmRxTypes'
  BY DEF EmRxInv, EmRxTypes
<1>2. EmGood'
  BY DEF EmRxInv, EmGood
<1>3. \A e \in 0 .. 1 : EmAligned(e) => EmAligned(e)'
  BY DEF EmAligned
<1>4. EmInTurn'
  BY <1>3 DEF EmRxInv, EmInTurn
<1>5. QED
  BY <1>1, <1>2, <1>4 DEF EmRxInv

\* xemaclite_enable_interrupts gives up the frame of the first buffer.
LEMMA EmIrqsKeep == ASSUME EmRxInv, EmIrqs, emDev # "none" PROVE EmRxInv'
<1>1. /\ emRx' = [emRx EXCEPT ![0] = << >>] /\ (~emOff' => ~emOff /\ emRx[0] = << >>)
      /\ UNCHANGED <<emHwRx, emUp, emCame>> /\ emNextRx' = emNextRx
  BY DEF EmIrqs
<1>2. CASE emRx[0] = << >>
  <2>1. emRx = [b \in 0 .. 1 |-> emRx[b]]
    BY DEF EmRxInv, EmRxTypes
  <2>2. emRx' = emRx
    BY <1>1, <1>2, <2>1
  <2>3. ~emOff' => ~emOff
    BY <1>1
  <2>4. QED
    BY <1>1, <2>2, <2>3, EmRxSame
<1>3. CASE emRx[0] # << >>
  <2>1. DOMAIN emRx = 0 .. 1
    BY DEF EmRxInv, EmRxTypes
  <2>2. DOMAIN emRx' = 0 .. 1 /\ emRx'[0] = << >> /\ emRx'[1] = emRx[1]
    BY <1>1, <2>1
  <2>3. emRx' = [b \in 0 .. 1 |-> emRx'[b]]
    BY <1>1, <2>1
  <2>4. \A b \in 0 .. 1 : emRx'[b] # << >> => emRx'[b] = emRx[b] /\ emRx[b] # << >>
    BY <2>2
  <2>5. EmRxTypes'
    BY <1>1, <2>2, <2>3, <2>4 DEF EmRxInv, EmRxTypes
  <2>6. EmGood'
    BY <1>1 DEF EmRxInv, EmGood
  <2>7. EmInTurn'
    BY <1>1, <1>3 DEF EmInTurn
  <2>8. QED
    BY <2>5, <2>6, <2>7 DEF EmRxInv
<1>4. QED
  BY <1>2, <1>3

\* The device receives a frame into its next buffer.
LEMMA EmReceivedKeeps ==
  ASSUME EmRxInv, NEW type \in {"ip", "arp", "len", "other"}, NEW len \in EmLens, EmHwReceived(type, len)
  PROVE  EmRxInv'
<1> DEFINE f == [id |-> emCame + 1, type |-> type, len |-> len]
<1>1. /\ emRx[emHwRx] = << >> /\ emRx' = [emRx EXCEPT ![emHwRx] = <<f>>]
      /\ emHwRx' = (IF EmPong THEN EmOther(emHwRx) ELSE emHwRx) /\ emCame' = emCame + 1
      /\ emNextRx' = emNextRx /\ emUp' = emUp /\ emDev' = emDev
  BY DEF EmHwReceived
<1>2. emOff' = emOff
  BY DEF EmHwReceived
<1>3. /\ DOMAIN emRx = 0 .. 1 /\ emHwRx \in 0 .. 1 /\ emNextRx \in 0 .. 1 /\ emCame \in Nat
      /\ emUp.frame.id \in Nat /\ emUp.frame.id <= emCame
      /\ \A b \in 0 .. 1 : emRx[b] # << >> => emRx[b][1] \in EmFrame /\ emRx[b][1].id <= emCame
  BY DEF EmRxInv, EmRxTypes
<1>4. f \in EmFrame /\ f.id = emCame + 1
  BY <1>3 DEF EmFrame
<1> HIDE DEF f
<1>5. /\ DOMAIN emRx' = 0 .. 1 /\ emRx'[emHwRx] = <<f>> /\ \A b \in 0 .. 1 : b # emHwRx => emRx'[b] = emRx[b]
  BY <1>1, <1>3
<1>6. emRx' = [b \in 0 .. 1 |-> emRx'[b]]
  BY <1>1, <1>3
<1>7. \A b \in 0 .. 1 : emRx[b] # << >> => emRx[b][1].id \in Nat
  BY <1>3 DEF EmFrame
<1>8. emRx'[emHwRx] # << >> /\ emRx'[emHwRx][1] = f
  BY <1>5
<1>9. EmRxTypes'
  <2>1. ASSUME NEW b \in 0 .. 1, emRx'[b] # << >> PROVE emRx'[b][1] \in EmFrame /\ emRx'[b][1].id <= emCame + 1
    <3>1. CASE b = emHwRx
      BY <1>3, <1>4, <1>8, <3>1
    <3>2. CASE b # emHwRx
      <4>1. emRx'[b] = emRx[b] /\ emRx[b][1] \in EmFrame /\ emRx[b][1].id <= emCame /\ emRx[b][1].id \in Nat
        BY <1>3, <1>5, <1>7, <2>1, <3>2
      <4>2. QED
        BY <1>3, <4>1
    <3>3. QED
      BY <3>1, <3>2
  <2>2. emHwRx' \in 0 .. 1
    BY <1>1, <1>3 DEF EmOther
  <2>3. emUp.frame.id <= emCame + 1
    BY <1>3
  <2>4. QED
    BY <1>1, <1>3, <1>5, <1>6, <2>1, <2>2, <2>3 DEF EmRxTypes
<1>10. EmGood'
  BY <1>1 DEF EmRxInv, EmGood
<1>11. EmInTurn'
  <2> SUFFICES ASSUME ~emOff' PROVE EmInTurn'
    BY DEF EmInTurn
  <2>1. /\ emUp.before < emUp.frame.id
        /\ \A b \in 0 .. 1 : emRx[b] # << >> => emUp.frame.id < emRx[b][1].id
    BY <1>2 DEF EmRxInv, EmInTurn
  <2>2. PICK e \in 0 .. 1 : EmAligned(e) /\ (emDev # "none" => emNextRx = e)
    BY <1>2 DEF EmRxInv, EmInTurn
  <2>3. ASSUME NEW b \in 0 .. 1, emRx'[b] # << >> PROVE emUp.frame.id < emRx'[b][1].id
    <3>1. CASE b = emHwRx
      BY <1>3, <1>4, <1>8, <3>1
    <3>2. CASE b # emHwRx
      BY <1>5, <2>1, <2>3, <3>2
    <3>3. QED
      BY <3>1, <3>2
  <2>4. EmOther(e) \in 0 .. 1 /\ EmOther(e) # e /\ EmOther(EmOther(e)) = e /\ (emHwRx = e \/ emHwRx = EmOther(e))
    BY <1>3 DEF EmOther
  <2>5. EmAligned(e)'
    <3>1. CASE ~EmPong
      <4>1. emHwRx = e /\ emRx[EmOther(e)] = << >>
        BY <2>2, <3>1 DEF EmAligned
      <4>2. emHwRx' = e /\ emRx'[EmOther(e)] = << >>
        BY <1>1, <1>5, <2>4, <3>1, <4>1
      <4>3. QED
        BY <3>1, <4>2 DEF EmAligned
    <3>2. CASE EmPong /\ emHwRx = e
      <4>1. emRx[EmOther(e)] = << >>
        BY <1>1, <2>2, <3>2 DEF EmAligned
      <4>2. emRx'[EmOther(e)] = << >> /\ emRx'[e] # << >> /\ emHwRx' # e
        BY <1>1, <1>5, <1>8, <2>4, <3>2, <4>1
      <4>3. QED
        BY <3>2, <4>2 DEF EmAligned
    <3>3. CASE EmPong /\ emHwRx = EmOther(e)
      <4>1. emRx[e] # << >>
        BY <2>2, <2>4, <3>3 DEF EmAligned
      <4>2. emRx'[e] = emRx[e] /\ emHwRx' = e /\ emRx'[EmOther(e)] # << >> /\ emRx'[EmOther(e)][1].id = emCame + 1
        BY <1>1, <1>4, <1>5, <1>8, <2>4, <3>3
      <4>3. emRx[e][1].id < emCame + 1
        BY <1>3, <1>7, <4>1
      <4>4. QED
        BY <3>3, <4>1, <4>2, <4>3 DEF EmAligned
    <3>4. QED
      BY <2>4, <3>1, <3>2, <3>3
  <2>6. QED
    BY <1>1, <2>1, <2>2, <2>3, <2>5 DEF EmInTurn
<1>12. QED
  BY <1>9, <1>10, <1>11 DEF EmRxInv

\* What a state of the receive side becomes when a frame is taken out of buffer b.
LEMMA EmTakesKeeps ==
  ASSUME EmRxInv, emDev # "none",
         NEW st, EmTakes(st, EmRxSt, IF emRx[emNextRx] # << >> \/ ~EmPong THEN emNextRx ELSE EmOther(emNextRx)),
         emRx[IF emRx[emNextRx] # << >> \/ ~EmPong THEN emNextRx ELSE EmOther(emNextRx)] # << >>,
         emRx' = st.rx, emNextRx' = st.next, emUp' = st.up, UNCHANGED <<emHwRx, emCame, emOff, emDev>>
  PROVE  EmRxInv'
<1> DEFINE b == IF emRx[emNextRx] # << >> \/ ~EmPong THEN emNextRx ELSE EmOther(emNextRx)
<1>1. EmRxSt.rx = emRx /\ EmRxSt.next = emNextRx /\ EmRxSt.up = emUp
  BY DEF EmRxSt
<1>2. /\ DOMAIN emRx = 0 .. 1 /\ emHwRx \in 0 .. 1 /\ emNextRx \in 0 .. 1 /\ emCame \in Nat
      /\ emUp.frame.id \in Nat /\ emUp.frame.id <= emCame
      /\ \A c \in 0 .. 1 : emRx[c] # << >> => emRx[c][1] \in EmFrame /\ emRx[c][1].id <= emCame
  BY DEF EmRxInv, EmRxTypes
<1>3. b \in 0 .. 1 /\ EmOther(b) \in 0 .. 1 /\ EmOther(b) # b /\ EmOther(emNextRx) \in 0 .. 1 /\ EmOther(emNextRx) # emNextRx
  BY <1>2 DEF EmOther
<1>4. emRx[b] # << >>
  OBVIOUS
<1>5. b = emNextRx \/ (EmPong /\ emRx[emNextRx] = << >> /\ b = EmOther(emNextRx))
  OBVIOUS
<1>6. EmTakes(st, EmRxSt, b)
  OBVIOUS
<1> HIDE DEF b
<1>7. /\ emRx' = [emRx EXCEPT ![b] = << >>]
      /\ emNextRx' = (IF b = emNextRx /\ EmPong THEN EmOther(emNextRx) ELSE emNextRx)
      /\ emUp'.frame = emRx[b][1] /\ emUp'.before = emUp.frame.id
      /\ emUp'.good = EmAlignedRead(EmRecvLength(emRx[b][1]))
  BY <1>1, <1>6 DEF EmTakes
<1>8. DOMAIN emRx' = 0 .. 1 /\ emRx'[b] = << >> /\ \A c \in 0 .. 1 : c # b => emRx'[c] = emRx[c]
  BY <1>2, <1>3, <1>7
<1>9. emRx' = [c \in 0 .. 1 |-> emRx'[c]]
  BY <1>2, <1>7
<1>10. emRx[b][1] \in EmFrame /\ emRx[b][1].id <= emCame /\ emRx[b][1].id \in Nat
  BY <1>2, <1>3, <1>4 DEF EmFrame
<1>11. \A c \in 0 .. 1 : emRx'[c] # << >> => c # b /\ emRx'[c] = emRx[c] /\ emRx[c] # << >>
  BY <1>8
<1>12. EmRxTypes'
  <2>1. \A c \in 0 .. 1 : emRx'[c] # << >> => emRx'[c][1] \in EmFrame /\ emRx'[c][1].id <= emCame
    BY <1>2, <1>11
  <2>2. emNextRx' \in 0 .. 1
    BY <1>2, <1>3, <1>7
  <2>3. emUp'.frame.id \in Nat /\ emUp'.frame.id <= emCame
    BY <1>7, <1>10
  <2>4. QED
    BY <1>2, <1>8, <1>9, <2>1, <2>2, <2>3 DEF EmRxTypes
<1>13. EmGood'
  BY <1>7, <1>10, EmCopied DEF EmGood
<1>14. EmInTurn'
  <2> SUFFICES ASSUME ~emOff' PROVE EmInTurn'
    BY DEF EmInTurn
  <2>1. \A c \in 0 .. 1 : emRx[c] # << >> => emUp.frame.id < emRx[c][1].id
    BY DEF EmRxInv, EmInTurn
  <2>2. EmAligned(emNextRx)
    BY DEF EmRxInv, EmInTurn
  <2>3. b = emNextRx
    BY <1>2, <1>4, <1>5, <2>2 DEF EmAligned
  <2>4. emUp'.before < emUp'.frame.id
    BY <1>3, <1>4, <1>7, <2>1
  <2>5. ASSUME NEW c \in 0 .. 1, emRx'[c] # << >> PROVE emUp'.frame.id < emRx'[c][1].id
    <3>1. c = EmOther(b) /\ emRx'[c] = emRx[c] /\ emRx[c] # << >>
      BY <1>3, <1>11, <2>5 DEF EmOther
    <3>2. emRx[b][1].id < emRx[c][1].id
      BY <2>2, <2>3, <3>1 DEF EmAligned
    <3>3. QED
      BY <1>7, <3>1, <3>2
  <2>6. PICK e \in 0 .. 1 : e = emNextRx'
    BY <1>12 DEF EmRxTypes
  <2>7. EmAligned(e)'
    <3>1. CASE EmPong
      <4>1. e = EmOther(b) /\ EmOther(EmOther(b)) = b
        BY <1>3, <1>7, <2>3, <2>6, <3>1 DEF EmOther
      <4>2. emHwRx = b <=> emRx[b] = << >> \/ emRx[EmOther(b)] # << >>
        BY <2>2, <2>3, <3>1 DEF EmAligned
      <4>3. emHwRx = b \/ emHwRx = EmOther(b)
        BY <1>2, <1>3 DEF EmOther
      <4>4. emHwRx = EmOther(b) <=> emRx[EmOther(b)] = << >>
        BY <1>3, <1>4, <4>2, <4>3
      <4>5. emRx'[EmOther(b)] = emRx[EmOther(b)]
        BY <1>3, <1>8
      <4>6. QED
        BY <1>8, <3>1, <4>1, <4>4, <4>5 DEF EmAligned
    <3>2. CASE ~EmPong
      <4>1. e = b /\ emHwRx = b /\ emRx[EmOther(b)] = << >>
        BY <1>7, <2>2, <2>3, <2>6, <3>2 DEF EmAligned
      <4>2. QED
        BY <1>3, <1>8, <3>2, <4>1 DEF EmAligned
    <3>3. QED
      BY <3>1, <3>2
  <2>8. QED
    BY <2>4, <2>5, <2>6, <2>7 DEF EmInTurn
<1>15. QED
  BY <1>12, <1>13, <1>14 DEF EmRxInv

LEMMA EmRxHandlerKeeps == ASSUME EmRxInv, NEW nomem \in BOOLEAN, EmInterrupt(nomem) PROVE EmRxInv'
<1> DEFINE none == nomem \/ \A b \in 0 .. 1 : emRx[b] = << >>
           st == IF none THEN EmRxSt ELSE EmRecvData(EmRxSt)
           b == IF emRx[emNextRx] # << >> \/ ~EmPong THEN emNextRx ELSE EmOther(emNextRx)
<1>1. emDev = "open" /\ emDev' = emDev
  BY DEF EmInterrupt
<1>2. emRx' = st.rx /\ emNextRx' = st.next /\ emUp' = st.up /\ emHwRx' = emHwRx /\ emCame' = emCame /\ emOff' = emOff
  BY DEF EmInterrupt, EmRxHandler
<1>3. EmRxSt.rx = emRx /\ EmRxSt.next = emNextRx /\ EmRxSt.up = emUp /\ DOMAIN EmRxSt = {"rx", "next", "up"}
  BY DEF EmRxSt
<1>4. DOMAIN emRx = 0 .. 1 /\ emNextRx \in 0 .. 1
  BY DEF EmRxInv, EmRxTypes
<1>5. IF emRx[b] = << >> THEN EmRecvData(EmRxSt) = EmRxSt ELSE EmTakes(EmRecvData(EmRxSt), EmRxSt, b)
  BY <1>3, <1>4, EmRecvDataIs
<1>6. CASE st = EmRxSt
  <2>1. UNCHANGED <<emRx, emHwRx, emUp, emCame>> /\ emNextRx' = emNextRx
    BY <1>2, <1>3, <1>6
  <2>2. ~emOff' => ~emOff
    BY <1>2
  <2>3. emDev' # "none" => emDev # "none"
    BY <1>1
  <2>4. QED
    BY <2>1, <2>2, <2>3, EmRxSame
<1>7. CASE emRx[b] # << >> /\ st = EmRecvData(EmRxSt)
  <2>1. EmTakes(st, EmRxSt, b)
    BY <1>5, <1>7
  <2>2. UNCHANGED <<emHwRx, emCame, emOff, emDev>>
    BY <1>1, <1>2
  <2>3. emDev # "none"
    BY <1>1
  <2> HIDE DEF st
  <2>4. QED
    BY <1>2, <1>7, <2>1, <2>2, <2>3, EmTakesKeeps
<1>8. QED
  BY <1>5, <1>6, <1>7

\* A probe starts again at the first buffer, and so must the device.
LEMMA EmProbeRxKeeps ==
  ASSUME EmRxInv, NEW node \in BOOLEAN, NEW own \in BOOLEAN, NEW ok \in BOOLEAN, NEW registered \in BOOLEAN,
         EmProbe(node, own, ok, registered)
  PROVE  EmRxInv'
<1>1. emNextRx' = 0 /\ UNCHANGED <<emRx, emHwRx, emUp, emCame>>
  BY DEF EmProbe
<1>2. ~emOff' => ~emOff /\ emHwRx = 0 /\ emRx[1] = << >>
  BY DEF EmProbe
<1>3. EmRxTypes'
  BY <1>1 DEF EmRxInv, EmRxTypes
<1>4. EmGood'
  BY <1>1 DEF EmRxInv, EmGood
<1>5. EmInTurn'
  <2> SUFFICES ASSUME ~emOff' PROVE EmInTurn'
    BY DEF EmInTurn
  <2>1. PICK e \in 0 .. 1 : EmAligned(e)
    BY <1>2 DEF EmRxInv, EmInTurn
  <2>2. e = 0
    <3>1. CASE e = 1
      <4>1. EmOther(e) = 0
        BY <3>1 DEF EmOther
      <4>2. QED
        BY <1>2, <2>1, <3>1, <4>1 DEF EmAligned
    <3>2. QED
      BY <3>1
  <2>3. EmAligned(0)'
    BY <1>1, <2>1, <2>2 DEF EmAligned
  <2>4. emUp.before < emUp.frame.id /\ \A b \in 0 .. 1 : emRx[b] # << >> => emUp.frame.id < emRx[b][1].id
    BY <1>2 DEF EmRxInv, EmInTurn
  <2>5. QED
    BY <1>1, <2>3, <2>4 DEF EmInTurn
<1>6. QED
  BY <1>3, <1>4, <1>5 DEF EmRxInv

LEMMA EmRxStep == EmRxInv /\ [EmNext]_emVars => EmRxInv'
<1> SUFFICES ASSUME EmRxInv, [EmNext]_emVars PROVE EmRxInv'
  OBVIOUS
<1> DEFINE Same == /\ UNCHANGED <<emRx, emHwRx, emUp, emCame>> /\ emNextRx' = emNextRx /\ (~emOff' => ~emOff)
                   /\ (emDev' # "none" => emDev # "none")
<1>1. CASE \E node, own, ok, registered \in BOOLEAN : EmProbe(node, own, ok, registered)
  BY <1>1, EmProbeRxKeeps
<1>2. CASE \E nomem \in BOOLEAN : EmInterrupt(nomem)
  BY <1>2, EmRxHandlerKeeps
<1>3. CASE EmOpen
  BY <1>3, EmIrqsKeep DEF EmOpen
<1>4. CASE EmTxTimeout
  BY <1>4, EmIrqsKeep DEF EmTxTimeout
<1>5. CASE \E type \in {"ip", "arp", "len", "other"}, len \in EmLens : EmHwReceived(type, len)
  BY <1>5, EmReceivedKeeps
<1>6. Same => EmRxInv'
  BY EmRxSame
<1>7. CASE EmSetAddress \/ EmClose \/ EmRemove \/ EmSend \/ EmDefer \/ EmMdioStart \/ EmMdioOver
  <2>1. UNCHANGED <<emRx, emHwRx, emUp, emCame>> /\ emNextRx' = emNextRx
    BY <1>7 DEF EmSetAddress, EmClose, EmRemove, EmSend, EmDefer, EmMdioStart, EmMdioOver, emRxVars
  <2>2. ~emOff' => ~emOff
    BY <1>7 DEF EmSetAddress, EmClose, EmRemove, EmSend, EmDefer, EmMdioStart, EmMdioOver, emRxVars
  <2>3. emDev' # "none" => emDev # "none"
    BY <1>7 DEF EmSetAddress, EmClose, EmRemove, EmSend, EmDefer, EmMdioStart, EmMdioOver
  <2>4. QED
    BY <1>6, <2>1, <2>2, <2>3
<1>8. CASE \E b \in 0 .. 1 : EmHwSent(b)
  <2>1. UNCHANGED <<emRx, emHwRx, emUp, emCame>> /\ emNextRx' = emNextRx
    BY <1>8 DEF EmHwSent, emRxVars
  <2>2. ~emOff' => ~emOff
    BY <1>8 DEF EmHwSent, emRxVars
  <2>3. emDev' # "none" => emDev # "none"
    BY <1>8 DEF EmHwSent
  <2>4. QED
    BY <1>6, <2>1, <2>2, <2>3
<1>9. CASE UNCHANGED emVars
  <2>1. UNCHANGED <<emRx, emHwRx, emUp, emCame>> /\ emNextRx' = emNextRx
    BY <1>9 DEF emVars, emRxVars
  <2>2. ~emOff' => ~emOff
    BY <1>9 DEF emVars, emRxVars
  <2>3. emDev' # "none" => emDev # "none"
    BY <1>9 DEF emVars
  <2>4. QED
    BY <1>6, <2>1, <2>2, <2>3
<1>10. QED
  BY <1>1, <1>2, <1>3, <1>4, <1>5, <1>7, <1>8, <1>9 DEF EmNext

LEMMA EmRxInvMeans == EmRxInv => EmReceived
BY DEF EmRxInv, EmGood, EmInTurn, EmReceived

----------------------------------------------------------------------------
(* The transmit ring of the LL TEMAC driver (LlTemac).                      *)

LtRing == 0 .. (LtN - 1)

LtTypes ==
  /\ ltCi \in LtRing /\ ltTail \in LtRing /\ ltHw \in LtRing /\ ltCount \in Nat
  /\ ltBd \in [LtRing -> SUBSET {"sop", "eop", "done"}] /\ ltHeld \in [LtRing -> Nat]

\* From tx_bd_ci on, h descriptors the device has done, and up to w those that belong to a frame.
LtWindow(h, w) ==
  /\ h <= w /\ ltHw = RgSlot(ltCi, h, LtN) /\ ltTail = RgSlot(ltCi, w, LtN)
  /\ \A j \in LtRing : ltHeld[RgSlot(ltCi, j, LtN)] # 0 <=> j < w
  /\ \A j \in LtRing : "done" \in ltBd[RgSlot(ltCi, j, LtN)] <=> j < h
  /\ \A d \in LtRing : ltBd[d] # {} => ltHeld[d] # 0
  /\ h > 0 => ltIrq
  /\ ltStopped => w > 0

LtInv ==
  /\ ltOver \subseteq {{}}
  /\ ltOver = {} => LtTypes /\ \E h, w \in 0 .. LtN : LtWindow(h, w)

LEMMA LtConsts == LtN \in Nat \ {0} /\ LtFrags \in Nat /\ LtFrags < LtN /\ LtRing = 0 .. (LtN - 1)
BY LlAssumption DEF LtRing

LEMMA LtStarts == LtInit => LtInv
<1> SUFFICES ASSUME LtInit PROVE LtInv
  OBVIOUS
<1>1. ltBd = [d \in LtRing |-> {}] /\ ltHeld = [d \in LtRing |-> 0] /\ ltCi = 0 /\ ltTail = 0 /\ ltHw = 0
      /\ ltCount = 0 /\ ltOver = {}
  BY DEF LtInit, LtRing
<1>2. ~ltStopped
  BY DEF LtInit
<1>3. LtTypes
  BY <1>1, LtConsts DEF LtTypes
<1>4. ASSUME NEW j \in LtRing PROVE RgSlot(0, j, LtN) \in LtRing
  BY LtConsts DEF RgSlot
<1>5. LtWindow(0, 0)
  <2>1. RgSlot(0, 0, LtN) = 0
    BY LtConsts DEF RgSlot
  <2>2. QED
    BY <1>1, <1>2, <1>4, <2>1, LtConsts DEF LtWindow
<1>6. 0 \in 0 .. LtN
  BY LtConsts
<1>7. QED
  BY <1>1, <1>3, <1>5, <1>6 DEF LtInv

\* Where the places of a frame are.
LEMMA LtPlaces ==
  ASSUME LtTypes, NEW h \in 0 .. LtN, NEW w \in 0 .. LtN, LtWindow(h, w), NEW i \in 0 .. LtFrags
  PROVE  /\ (ltTail + i) % LtN \in LtRing /\ (ltTail + i) % LtN = RgSlot(ltTail, i, LtN)
         /\ ltHeld[(ltTail + i) % LtN] = 0 => w + i < LtN /\ (ltTail + i) % LtN = RgSlot(ltCi, w + i, LtN)
<1>1. /\ LtN \in Nat \ {0} /\ ltCi \in 0 .. (LtN - 1) /\ ltTail \in 0 .. (LtN - 1) /\ i \in 0 .. LtN /\ i < LtN
      /\ ltTail = RgSlot(ltCi, w, LtN)
  BY LtConsts DEF LtTypes, LtWindow
<1>2. (ltTail + i) % LtN = RgSlot(ltTail, i, LtN) /\ RgSlot(ltTail, i, LtN) \in LtRing
  BY <1>1, LtConsts, SlotFacts
<1>3. ASSUME ltHeld[RgSlot(ltTail, i, LtN)] = 0 PROVE w + i < LtN
  <2>1. CASE w + i >= LtN
    <3>1. RgSlot(ltTail, i, LtN) = RgSlot(ltCi, w + i - LtN, LtN)
      BY <1>1, <2>1, SlotWrap
    <3>2. w + i - LtN \in LtRing /\ w + i - LtN < w
      BY <1>1, <2>1, LtConsts
    <3>3. ltHeld[RgSlot(ltCi, w + i - LtN, LtN)] # 0
      BY <3>2 DEF LtWindow
    <3>4. QED
      BY <1>3, <3>1, <3>3
  <2>2. QED
    BY <1>1, <2>1
<1>4. ASSUME w + i < LtN PROVE RgSlot(ltTail, i, LtN) = RgSlot(ltCi, w + i, LtN)
  <2>1. w + i <= LtN
    BY <1>1, <1>4
  <2>2. QED
    BY <1>1, <2>1, SlotSum
<1>5. QED
  BY <1>2, <1>3, <1>4

LEMMA LtXmitKeeps == ASSUME LtInv, NEW k \in 0 .. LtFrags, LtXmit(k) PROVE LtInv'
<1> DEFINE mine == {(ltTail + i) % LtN : i \in 0 .. k}
           last == (ltTail + k) % LtN
           lost == {d \in mine : ltHeld[d] # 0}
<1>1. UNCHANGED <<ltCi, ltHw>>
  BY DEF LtXmit
<1>2. ltIrq' = ltIrq
  BY DEF LtXmit
<1>3. CASE LtBusy(k)
  <2>1. UNCHANGED <<ltBd, ltHeld, ltTail, ltCount, ltOver>>
    BY <1>3 DEF LtXmit
  <2>2. ASSUME ltOver' = {} PROVE LtTypes' /\ \E h, w \in 0 .. LtN : LtWindow(h, w)'
    <3>1. LtTypes
      BY <2>1, <2>2 DEF LtInv
    <3>2. PICK h \in 0 .. LtN, w \in 0 .. LtN : LtWindow(h, w)
      BY <2>1, <2>2 DEF LtInv
    <3>3. LtTypes'
      BY <1>1, <2>1, <3>1 DEF LtTypes
    <3>4. w > 0
      <4>1. PICK i \in 0 .. k : ltBd[(ltTail + i) % LtN] # {}
        BY <1>3 DEF LtBusy
      <4>2. i \in 0 .. LtFrags
        BY <4>1, LtConsts
      <4>3. (ltTail + i) % LtN \in LtRing
        BY <3>1, <3>2, <4>2, LtPlaces
      <4>4. ltHeld[(ltTail + i) % LtN] # 0
        BY <3>2, <4>1, <4>3 DEF LtWindow
      <4>5. PICK j \in 0 .. (LtN - 1) : (ltTail + i) % LtN = RgSlot(ltCi, j, LtN)
        BY <3>1, <4>3, LtConsts, SlotOf DEF LtTypes
      <4>6. j < w
        BY <3>2, <4>4, <4>5, LtConsts DEF LtWindow
      <4>7. QED
        BY <4>5, <4>6, LtConsts
    <3>5. LtWindow(h, w)'
      BY <1>1, <1>2, <2>1, <3>2, <3>4 DEF LtWindow
    <3>6. QED
      BY <3>3, <3>5
  <2>3. ltOver' \subseteq {{}}
    BY <2>1 DEF LtInv
  <2>4. QED
    BY <2>2, <2>3 DEF LtInv
<1>4. CASE ~LtBusy(k)
  <2>1. ltOver' = ltOver \cup {ltBd[d] : d \in lost}
    BY <1>4 DEF LtXmit
  <2>2. ltBd' = [d \in 0 .. (LtN - 1) |->
                   IF d \notin mine THEN ltBd[d]
                   ELSE (IF d = ltTail THEN {"sop"} ELSE {}) \cup (IF d = last THEN {"eop"} ELSE {})]
    BY <1>4 DEF LtXmit
  <2>3. ltHeld' = [d \in 0 .. (LtN - 1) |-> IF d \in mine THEN ltCount + 1 ELSE ltHeld[d]]
    BY <1>4 DEF LtXmit
  <2>4. ltTail' = (last + 1) % LtN /\ ltCount' = ltCount + 1
    BY <1>4 DEF LtXmit, LtInc
  <2>5. ~ltStopped'
    BY <1>4 DEF LtXmit
  <2>6. \A d \in mine : ltBd[d] = {}
    BY <1>4 DEF LtBusy
  <2>7. ltOver' \subseteq {{}}
    BY <2>1, <2>6 DEF LtInv
  <2>8. ASSUME ltOver' = {} PROVE LtTypes' /\ \E h, w \in 0 .. LtN : LtWindow(h, w)'
    <3>1. ltOver = {} /\ \A d \in mine : ltHeld[d] = 0
      BY <2>1, <2>8
    <3>2. LtTypes
      BY <3>1 DEF LtInv
    <3>3. PICK h \in 0 .. LtN, w \in 0 .. LtN : LtWindow(h, w)
      BY <3>1 DEF LtInv
    <3>4. /\ LtN \in Nat \ {0} /\ LtRing = 0 .. (LtN - 1) /\ ltCi \in 0 .. (LtN - 1) /\ ltTail \in 0 .. (LtN - 1)
          /\ ltHw \in 0 .. (LtN - 1) /\ ltCount \in Nat /\ k \in Nat /\ k \in 0 .. k
      BY <3>2, LtConsts DEF LtTypes
    <3>5. ltBd \in [LtRing -> SUBSET {"sop", "eop", "done"}] /\ ltHeld \in [LtRing -> Nat]
      BY <3>2 DEF LtTypes
    <3>6. ASSUME NEW i \in 0 .. k
          PROVE  w + i < LtN /\ (ltTail + i) % LtN = RgSlot(ltCi, w + i, LtN) /\ (ltTail + i) % LtN \in LtRing
      <4>1. i \in 0 .. LtFrags /\ (ltTail + i) % LtN \in mine
        BY LtConsts
      <4>2. QED
        BY <3>1, <3>2, <3>3, <4>1, LtPlaces
    <3>7. w + k < LtN /\ last = RgSlot(ltCi, w + k, LtN) /\ last \in 0 .. (LtN - 1)
      BY <3>4, <3>6
    <3>8. ltTail' = RgSlot(ltCi, w + k + 1, LtN) /\ w + k + 1 \in 0 .. LtN
      <4>1. w + k \in 0 .. LtN /\ 1 \in 0 .. LtN /\ (w + k) + 1 <= LtN /\ w + k + 1 \in 0 .. LtN
        BY <3>4, <3>7
      <4>2. (last + 1) % LtN = RgSlot(last, 1, LtN)
        BY <3>4, <3>7, <4>1, SlotFacts
      <4>3. RgSlot(RgSlot(ltCi, w + k, LtN), 1, LtN) = RgSlot(ltCi, (w + k) + 1, LtN)
        BY <3>4, <4>1, SlotSum
      <4>4. QED
        BY <2>4, <3>7, <4>1, <4>2, <4>3
    <3>9. ASSUME NEW j \in LtRing
          PROVE  /\ RgSlot(ltCi, j, LtN) \in LtRing
                 /\ RgSlot(ltCi, j, LtN) \in mine <=> w <= j /\ j <= w + k
      <4>1. j \in 0 .. LtN
        BY <3>4
      <4>2. RgSlot(ltCi, j, LtN) \in LtRing
        BY <3>4, <4>1, SlotFacts
      <4>3. ASSUME NEW i \in 0 .. k, RgSlot(ltCi, j, LtN) = (ltTail + i) % LtN PROVE w <= j /\ j <= w + k
        <5>1. w + i \in 0 .. (LtN - 1) /\ RgSlot(ltCi, j, LtN) = RgSlot(ltCi, w + i, LtN)
          BY <3>4, <3>6, <4>3
        <5>2. j = w + i
          BY <3>4, <5>1, SlotUnique
        <5>3. QED
          BY <3>4, <5>2
      <4>4. ASSUME w <= j, j <= w + k PROVE RgSlot(ltCi, j, LtN) \in mine
        <5>1. j - w \in 0 .. k /\ w + (j - w) = j
          BY <3>4, <4>4
        <5>2. (ltTail + (j - w)) % LtN = RgSlot(ltCi, w + (j - w), LtN)
          BY <3>6, <5>1
        <5>3. QED
          BY <5>1, <5>2
      <4>5. QED
        BY <4>2, <4>3, <4>4
    <3>10. mine \subseteq LtRing
      BY <3>6
    <3> HIDE DEF mine, last
    <3>11. /\ ltBd' \in [LtRing -> SUBSET {"sop", "eop", "done"}]
           /\ \A d \in LtRing : d \notin mine => ltBd'[d] = ltBd[d]
           /\ \A d \in LtRing : d \in mine => "done" \notin ltBd'[d]
      BY <2>2, <3>4, <3>5
    <3>12. /\ ltHeld' \in [LtRing -> Nat]
           /\ \A d \in LtRing : d \notin mine => ltHeld'[d] = ltHeld[d]
           /\ \A d \in LtRing : d \in mine => ltHeld'[d] # 0
      BY <2>3, <3>4, <3>5
    <3>13. LtTypes'
      <4>1. ltTail' \in LtRing
        BY <3>4, <3>8, SlotFacts
      <4>2. ltCount' \in Nat /\ ltCi' \in LtRing /\ ltHw' \in LtRing
        BY <1>1, <2>4, <3>4
      <4>3. QED
        BY <3>11, <3>12, <4>1, <4>2 DEF LtTypes
    <3>14. ASSUME NEW j \in LtRing
           PROVE  /\ ltHeld'[RgSlot(ltCi, j, LtN)] # 0 <=> j < w + k + 1
                  /\ "done" \in ltBd'[RgSlot(ltCi, j, LtN)] <=> j < h
      <4>1. RgSlot(ltCi, j, LtN) \in LtRing /\ (RgSlot(ltCi, j, LtN) \in mine <=> w <= j /\ j <= w + k)
        BY <3>9
      <4>2. (ltHeld[RgSlot(ltCi, j, LtN)] # 0 <=> j < w) /\ ("done" \in ltBd[RgSlot(ltCi, j, LtN)] <=> j < h) /\ h <= w
        BY <3>3 DEF LtWindow
      <4>3. CASE RgSlot(ltCi, j, LtN) \in mine
        <5>1. ltHeld'[RgSlot(ltCi, j, LtN)] # 0 /\ "done" \notin ltBd'[RgSlot(ltCi, j, LtN)]
          BY <3>11, <3>12, <4>1, <4>3
        <5>2. j < w + k + 1 /\ ~(j < h)
          BY <3>4, <4>1, <4>2, <4>3
        <5>3. QED
          BY <5>1, <5>2
      <4>4. CASE RgSlot(ltCi, j, LtN) \notin mine
        <5>1. /\ ltHeld'[RgSlot(ltCi, j, LtN)] = ltHeld[RgSlot(ltCi, j, LtN)]
              /\ ltBd'[RgSlot(ltCi, j, LtN)] = ltBd[RgSlot(ltCi, j, LtN)]
          BY <3>11, <3>12, <4>1, <4>4
        <5>2. j < w + k + 1 <=> j < w
          BY <3>4, <4>1, <4>4
        <5>3. QED
          BY <4>2, <5>1, <5>2
      <4>5. QED
        BY <4>3, <4>4
    <3>15. ASSUME NEW d \in LtRing PROVE ltBd'[d] # {} => ltHeld'[d] # 0
      <4>1. ltBd[d] # {} => ltHeld[d] # 0
        BY <3>3 DEF LtWindow
      <4>2. QED
        BY <3>11, <3>12, <4>1
    <3>16. h <= w + k + 1 /\ ltHw' = RgSlot(ltCi', h, LtN) /\ ltCi' = ltCi
      BY <1>1, <3>3, <3>4 DEF LtWindow
    <3>17. h > 0 => ltIrq'
      BY <1>2, <3>3 DEF LtWindow
    <3>18. LtWindow(h, w + k + 1)'
      BY <2>5, <3>8, <3>14, <3>15, <3>16, <3>17 DEF LtWindow
    <3>19. QED
      BY <3>8, <3>13, <3>18
  <2>9. QED
    BY <2>7, <2>8 DEF LtInv
<1>5. QED
  BY <1>3, <1>4

LEMMA LtHwDoneKeeps == LtInv /\ LtHwDone => LtInv'
<1> SUFFICES ASSUME LtInv, LtHwDone PROVE LtInv'
  OBVIOUS
<1>1. /\ ltHeld[ltHw] # 0 /\ "done" \notin ltBd[ltHw] /\ ltOver = {}
      /\ UNCHANGED <<ltHeld, ltCi, ltTail, ltCount, ltOver>> /\ ltHw' = (ltHw + 1) % LtN
  BY DEF LtHwDone, LtInc
<1>2. ltBd' = [ltBd EXCEPT ![ltHw] = @ \cup {"done"}]
  BY DEF LtHwDone
<1>3. ltIrq'
  BY DEF LtHwDone
<1>4. ltStopped' = ltStopped
  BY DEF LtHwDone
<1>5. LtTypes
  BY <1>1 DEF LtInv
<1>6. PICK h \in 0 .. LtN, w \in 0 .. LtN : LtWindow(h, w)
  BY <1>1 DEF LtInv
<1>7. /\ LtN \in Nat \ {0} /\ LtRing = 0 .. (LtN - 1) /\ ltCi \in 0 .. (LtN - 1) /\ ltHw \in 0 .. (LtN - 1)
  BY <1>5, LtConsts DEF LtTypes
<1>8. ltBd \in [LtRing -> SUBSET {"sop", "eop", "done"}]
  BY <1>5 DEF LtTypes
<1>9. h <= w /\ ltHw = RgSlot(ltCi, h, LtN)
  BY <1>6 DEF LtWindow
<1>10. h < LtN
  <2>1. CASE h = LtN
    <3>1. ltHw = ltCi /\ RgSlot(ltCi, 0, LtN) = ltCi /\ 0 \in LtRing /\ 0 < h
      BY <1>7, <1>9, <2>1 DEF RgSlot
    <3>2. "done" \in ltBd[RgSlot(ltCi, 0, LtN)]
      BY <1>6, <3>1 DEF LtWindow
    <3>3. QED
      BY <1>1, <3>1, <3>2
  <2>2. QED
    BY <1>7, <2>1
<1>11. h < w /\ h + 1 \in 0 .. LtN /\ h \in LtRing /\ 1 \in 0 .. LtN
  <2>1. h \in LtRing
    BY <1>7, <1>10
  <2>2. h < w
    BY <1>1, <1>6, <1>9, <2>1 DEF LtWindow
  <2>3. QED
    BY <1>7, <1>10, <2>1, <2>2
<1>12. ltHw' = RgSlot(ltCi, h + 1, LtN) /\ ltHw' \in LtRing
  <2>1. (ltHw + 1) % LtN = RgSlot(ltHw, 1, LtN)
    BY <1>7, <1>11, SlotFacts
  <2>2. RgSlot(RgSlot(ltCi, h, LtN), 1, LtN) = RgSlot(ltCi, h + 1, LtN)
    BY <1>7, <1>11, SlotSum
  <2>3. QED
    BY <1>1, <1>7, <1>9, <1>11, <2>1, <2>2, SlotFacts
<1>13. /\ ltBd' \in [LtRing -> SUBSET {"sop", "eop", "done"}]
       /\ \A d \in LtRing : "done" \in ltBd'[d] <=> "done" \in ltBd[d] \/ d = ltHw
       /\ \A d \in LtRing : d # ltHw => ltBd'[d] = ltBd[d]
  BY <1>2, <1>7, <1>8
<1>14. LtTypes'
  BY <1>1, <1>5, <1>12, <1>13 DEF LtTypes
<1>15. ASSUME NEW j \in LtRing PROVE "done" \in ltBd'[RgSlot(ltCi, j, LtN)] <=> j < h + 1
  <2>1. j \in 0 .. LtN
    BY <1>7
  <2>2. RgSlot(ltCi, j, LtN) \in LtRing
    BY <1>7, <2>1, SlotFacts
  <2>3. "done" \in ltBd[RgSlot(ltCi, j, LtN)] <=> j < h
    BY <1>6 DEF LtWindow
  <2>4. RgSlot(ltCi, j, LtN) = ltHw <=> j = h
    BY <1>7, <1>9, <1>11, SlotUnique
  <2>5. QED
    BY <1>7, <1>13, <2>2, <2>3, <2>4
<1>16. ASSUME NEW d \in LtRing PROVE ltBd'[d] # {} => ltHeld'[d] # 0
  <2>1. ltBd[d] # {} => ltHeld[d] # 0
    BY <1>6 DEF LtWindow
  <2>2. QED
    BY <1>1, <1>13, <2>1
<1>17. ltTail' = RgSlot(ltCi', w, LtN) /\ (ltStopped' => w > 0)
  BY <1>1, <1>4, <1>6 DEF LtWindow
<1>18. ASSUME NEW j \in LtRing PROVE ltHeld'[RgSlot(ltCi', j, LtN)] # 0 <=> j < w
  BY <1>1, <1>6 DEF LtWindow
<1>19. h + 1 <= w
  BY <1>7, <1>11
<1>20. LtWindow(h + 1, w)'
  BY <1>1, <1>3, <1>12, <1>15, <1>16, <1>17, <1>18, <1>19 DEF LtWindow
<1>21. QED
  BY <1>1, <1>11, <1>14, <1>20 DEF LtInv

LEMMA LtTxIrqKeeps == LtInv /\ LtTxIrq => LtInv'
<1> SUFFICES ASSUME LtInv, LtTxIrq PROVE LtInv'
  OBVIOUS
<1> DEFINE run == {(ltCi + i) % LtN : i \in LtRun}
<1>1. ltBd' = [d \in LtRing |-> IF d \in run THEN LtDoneBd(ltBd[d]) ELSE ltBd[d]]
  BY DEF LtTxIrq, LtRing
<1>2. ltHeld' = [d \in LtRing |-> IF d \in run THEN 0 ELSE ltHeld[d]]
  BY DEF LtTxIrq, LtRing
<1>3. ltCi' = (ltCi + Cardinality(run)) % LtN /\ ltTail' = ltTail /\ ltHw' = ltHw /\ ltCount' = ltCount /\ ltOver' = ltOver
  BY DEF LtTxIrq
<1>4. ~ltStopped'
  BY DEF LtTxIrq
<1>5. ltOver' \subseteq {{}}
  BY <1>3 DEF LtInv
<1>6. ASSUME ltOver' = {} PROVE LtTypes' /\ \E h, w \in 0 .. LtN : LtWindow(h, w)'
  <2>1. LtTypes
    BY <1>3, <1>6 DEF LtInv
  <2>2. PICK h \in 0 .. LtN, w \in 0 .. LtN : LtWindow(h, w)
    BY <1>3, <1>6 DEF LtInv
  <2>3. /\ LtN \in Nat \ {0} /\ LtRing = 0 .. (LtN - 1) /\ ltCi \in 0 .. (LtN - 1) /\ ltHw \in 0 .. (LtN - 1)
        /\ ltTail \in 0 .. (LtN - 1) /\ ltCount \in Nat
    BY <2>1, LtConsts DEF LtTypes
  <2>4. ltBd \in [LtRing -> SUBSET {"sop", "eop", "done"}] /\ ltHeld \in [LtRing -> Nat]
    BY <2>1 DEF LtTypes
  <2>5. h <= w /\ ltHw = RgSlot(ltCi, h, LtN) /\ ltTail = RgSlot(ltCi, w, LtN)
    BY <2>2 DEF LtWindow
  <2>6. \A j \in LtRing : (ltCi + j) % LtN = RgSlot(ltCi, j, LtN) /\ RgSlot(ltCi, j, LtN) \in LtRing
    <3>1. \A j \in LtRing : j \in 0 .. LtN
      BY <2>3
    <3>2. QED
      BY <2>3, <3>1, SlotFacts
  <2>7. LtRun = 0 .. (h - 1)
    <3>1. ASSUME NEW i \in LtRing PROVE (\A j \in 0 .. i : "done" \in ltBd[(ltCi + j) % LtN]) <=> i < h
      <4>1. \A j \in 0 .. i : j \in LtRing
        BY <2>3
      <4>2. i \in 0 .. i /\ (i < h => \A j \in 0 .. i : j < h)
        BY <2>3
      <4>3. \A j \in LtRing : "done" \in ltBd[(ltCi + j) % LtN] <=> j < h
        BY <2>2, <2>6 DEF LtWindow
      <4>4. QED
        BY <4>1, <4>2, <4>3
    <3>2. LtRun = {i \in LtRing : i < h}
      BY <2>3, <3>1 DEF LtRun
    <3>3. QED
      BY <2>3, <3>2
  <2>8. run = {RgSlot(ltCi, i, LtN) : i \in 0 .. (h - 1)}
    <3>1. \A i \in 0 .. (h - 1) : i \in LtRing
      BY <2>3
    <3>2. QED
      BY <2>6, <2>7, <3>1
  <2> HIDE DEF run
  <2>9. IsFiniteSet(run) /\ Cardinality(run) = h /\ run \subseteq LtRing
    BY <2>3, <2>8, SlotsCount
  <2>10. ltCi' = ltHw
    BY <1>3, <2>3, <2>5, <2>9, SlotFacts
  <2>11. /\ ltBd' \in [LtRing -> SUBSET {"sop", "eop", "done"}] /\ ltHeld' \in [LtRing -> Nat]
         /\ \A d \in LtRing : d \in run => ltBd'[d] = {} /\ ltHeld'[d] = 0
         /\ \A d \in LtRing : d \notin run => ltBd'[d] = ltBd[d] /\ ltHeld'[d] = ltHeld[d]
    BY <1>1, <1>2, <2>4 DEF LtDoneBd
  <2>12. ASSUME NEW j \in LtRing PROVE RgSlot(ltCi, j, LtN) \in run <=> j < h
    <3>1. ASSUME NEW i \in 0 .. (h - 1), RgSlot(ltCi, j, LtN) = RgSlot(ltCi, i, LtN) PROVE j < h
      <4>1. i \in 0 .. (LtN - 1)
        BY <2>3
      <4>2. i = j
        BY <2>3, <3>1, <4>1, SlotUnique
      <4>3. QED
        BY <2>3, <4>2
    <3>2. j < h => j \in 0 .. (h - 1)
      BY <2>3
    <3>3. QED
      BY <2>8, <3>1, <3>2
  <2>13. LtTypes'
    BY <1>3, <2>3, <2>10, <2>11 DEF LtTypes
  <2>14. h \in 0 .. LtN /\ w - h \in 0 .. LtN /\ h + (w - h) <= LtN /\ h + (w - h) = w /\ 0 <= w - h /\ 0 \in 0 .. LtN
    BY <2>3, <2>5
  <2>15. ltTail' = RgSlot(ltCi', w - h, LtN)
    <3>1. RgSlot(RgSlot(ltCi, h, LtN), w - h, LtN) = RgSlot(ltCi, h + (w - h), LtN)
      BY <2>3, <2>14, SlotSum
    <3>2. QED
      BY <1>3, <2>5, <2>10, <2>14, <3>1
  <2>16. ltHw' = RgSlot(ltCi', 0, LtN)
    BY <1>3, <2>3, <2>10 DEF RgSlot
  <2>17. ASSUME NEW d \in LtRing PROVE "done" \notin ltBd'[d] /\ (ltBd'[d] # {} => ltHeld'[d] # 0)
    <3>1. PICK j \in 0 .. (LtN - 1) : d = RgSlot(ltCi, j, LtN)
      BY <2>3, SlotOf
    <3>2. ("done" \in ltBd[d] <=> j < h) /\ (ltBd[d] # {} => ltHeld[d] # 0)
      BY <2>2, <2>3, <3>1 DEF LtWindow
    <3>3. d \in run <=> j < h
      BY <2>3, <2>12, <3>1
    <3>4. QED
      BY <2>11, <3>2, <3>3
  <2>18. ASSUME NEW j \in LtRing
         PROVE  RgSlot(ltCi', j, LtN) \in LtRing /\ (ltHeld'[RgSlot(ltCi', j, LtN)] # 0 <=> j < w - h)
    <3>1. j \in 0 .. LtN
      BY <2>3
    <3>2. RgSlot(ltCi', j, LtN) \in LtRing
      BY <2>3, <2>10, <3>1, SlotFacts
    <3>3. CASE h + j < LtN
      <4>1. RgSlot(ltCi', j, LtN) = RgSlot(ltCi, h + j, LtN) /\ h + j \in LtRing
        <5>1. h + j <= LtN /\ h + j \in LtRing
          BY <2>3, <3>1, <3>3
        <5>2. QED
          BY <2>3, <2>5, <2>10, <3>1, <5>1, SlotSum
      <4>2. ltHeld[RgSlot(ltCi, h + j, LtN)] # 0 <=> h + j < w
        BY <2>2, <4>1 DEF LtWindow
      <4>3. RgSlot(ltCi, h + j, LtN) \notin run
        <5>1. ~(h + j < h)
          BY <2>3
        <5>2. QED
          BY <2>12, <4>1, <5>1
      <4>4. ltHeld'[RgSlot(ltCi', j, LtN)] = ltHeld[RgSlot(ltCi, h + j, LtN)]
        BY <2>11, <3>2, <4>1, <4>3
      <4>5. h + j < w <=> j < w - h
        BY <2>3
      <4>6. QED
        BY <3>2, <4>2, <4>4, <4>5
    <3>4. CASE ~(h + j < LtN)
      <4>1. h + j >= LtN /\ h + j - LtN \in LtRing /\ h + j - LtN < h
        BY <2>3, <3>4
      <4>2. RgSlot(ltCi', j, LtN) = RgSlot(ltCi, h + j - LtN, LtN)
        BY <2>3, <2>5, <2>10, <3>1, <4>1, SlotWrap
      <4>3. RgSlot(ltCi', j, LtN) \in run
        BY <2>12, <4>1, <4>2
      <4>4. ltHeld'[RgSlot(ltCi', j, LtN)] = 0
        BY <2>11, <3>2, <4>3
      <4>5. ~(j < w - h)
        BY <2>3, <3>4
      <4>6. QED
        BY <3>2, <4>4, <4>5
    <3>5. QED
      BY <3>3, <3>4
  <2>19. ASSUME NEW j \in LtRing PROVE "done" \in ltBd'[RgSlot(ltCi', j, LtN)] <=> j < 0
    BY <2>3, <2>17, <2>18
  <2>20. LtWindow(0, w - h)'
    BY <1>4, <2>14, <2>15, <2>16, <2>17, <2>18, <2>19 DEF LtWindow
  <2>21. QED
    BY <2>13, <2>14, <2>20
<1>7. QED
  BY <1>5, <1>6 DEF LtInv

LEMMA LtStep == LtInv /\ [LtNext]_ltVars => LtInv'
<1> SUFFICES ASSUME LtInv, [LtNext]_ltVars PROVE LtInv'
  OBVIOUS
<1>1. CASE UNCHANGED ltVars
  <2>1. UNCHANGED <<ltBd, ltHeld, ltCi, ltTail, ltHw, ltCount, ltOver>>
    BY <1>1 DEF ltVars
  <2>2. UNCHANGED <<ltStopped, ltIrq>>
    BY <1>1 DEF ltVars
  <2>3. (LtTypes <=> LtTypes') /\ \A h, w \in 0 .. LtN : LtWindow(h, w) <=> LtWindow(h, w)'
    BY <2>1, <2>2 DEF LtTypes, LtWindow
  <2>4. QED
    BY <2>1, <2>3 DEF LtInv
<1>2. QED
  BY <1>1, LtXmitKeeps, LtHwDoneKeeps, LtTxIrqKeeps DEF LtNext

LEMMA LtInvMeans == LtInv => LtKept
<1> SUFFICES ASSUME LtInv PROVE LtKept
  OBVIOUS
<1>1. ltOver \subseteq {{}}
  BY DEF LtInv
<1>2. ASSUME ltStopped, ltOver = {} PROVE ltIrq \/ (ltHeld[ltHw] # 0 /\ "done" \notin ltBd[ltHw])
  <2>1. LtTypes
    BY <1>2 DEF LtInv
  <2>2. PICK h \in 0 .. LtN, w \in 0 .. LtN : LtWindow(h, w)
    BY <1>2 DEF LtInv
  <2>3. w > 0 /\ (h > 0 => ltIrq) /\ ltHw = RgSlot(ltCi, h, LtN)
    BY <1>2, <2>2 DEF LtWindow
  <2>4. CASE h = 0
    <3>1. 0 \in LtRing /\ 0 < w /\ ~(0 < h)
      BY <2>3, <2>4, LtConsts
    <3>2. QED
      BY <2>2, <2>3, <2>4, <3>1 DEF LtWindow
  <2>5. QED
    BY <2>3, <2>4
<1>3. QED
  BY <1>1, <1>2 DEF LtKept

----------------------------------------------------------------------------
(* The receive ring of the LL TEMAC driver (LlTemac).                       *)

LrTypes ==
  /\ lrCi \in 0 .. (LrN - 1) /\ lrHw \in 0 .. (LrN - 1) /\ lrTail \in 0 .. (LrN - 1)
  /\ lrSkb \in [0 .. (LrN - 1) -> Nat] /\ lrNew \in Nat

\* The w descriptors from rx_bd_ci on are the complete ones; the device works on the one behind
\* them, and has r more to fill when it does not wait.
LrWindow(w) ==
  /\ lrDone = {RgSlot(lrCi, j, LrN) : j \in 0 .. (w - 1)} /\ lrHw = RgSlot(lrCi, w, LrN)
  /\ ~lrIdle => \E r \in 1 .. LrN : w + r <= LrN /\ lrTail = RgSlot(lrHw, r - 1, LrN)

\* No skb of the ring was handed up, and none is there twice.
LrFresh ==
  /\ \A d \in 0 .. (LrN - 1) : lrSkb[d] <= lrNew /\ lrSkb[d] \notin lrUp
  /\ \A d, e \in 0 .. (LrN - 1) : lrSkb[d] = lrSkb[e] => d = e
  /\ \A s \in lrUp : s \in Nat /\ s <= lrNew

LrInv ==
  ~lrNoMem => /\ LrTypes /\ (\E w \in 0 .. LrN : LrWindow(w)) /\ LrFresh
              /\ ~lrTwice /\ ((lrIdle \/ lrDone # {}) => lrIrq)

LEMMA LrConsts == LrN \in Nat \ {0}
BY LlAssumption

LEMMA LrStarts == LrInit => LrInv
<1> SUFFICES ASSUME LrInit PROVE LrInv
  OBVIOUS
<1>1. lrDone = {} /\ lrSkb = [d \in 0 .. (LrN - 1) |-> d + 1] /\ lrCi = 0 /\ lrTail = LrN - 1 /\ lrHw = 0
      /\ lrUp = {} /\ lrNew = LrN
  BY DEF LrInit
<1>2. ~lrTwice /\ ~lrIdle
  BY DEF LrInit
<1>3. LrTypes
  BY <1>1, LrConsts DEF LrTypes
<1>4. LrWindow(0)
  <2>1. RgSlot(0, 0, LrN) = 0 /\ RgSlot(0, LrN - 1, LrN) = LrN - 1
    BY LrConsts DEF RgSlot
  <2>2. LrN \in 1 .. LrN /\ 0 + LrN <= LrN /\ 0 .. (0 - 1) = {}
    BY LrConsts
  <2>3. QED
    BY <1>1, <2>1, <2>2 DEF LrWindow
<1>5. LrFresh
  BY <1>1, LrConsts DEF LrFresh
<1>6. 0 \in 0 .. LrN
  BY LrConsts
<1>7. QED
  BY <1>1, <1>2, <1>3, <1>4, <1>5, <1>6 DEF LrInv

LEMMA LrHwFillKeeps == LrInv /\ LrHwFill => LrInv'
<1> SUFFICES ASSUME LrInv, LrHwFill, ~lrNoMem' PROVE LrInv'
  BY DEF LrInv
<1>1. lrDone' = lrDone \cup {lrHw} /\ lrHw' = (lrHw + 1) % LrN /\ lrSkb' = lrSkb /\ lrCi' = lrCi
      /\ lrTail' = lrTail /\ lrUp' = lrUp /\ lrNew' = lrNew
  BY DEF LrHwFill, LtInc
<1>2. ~lrIdle
  BY DEF LrHwFill
<1>3. lrIdle' <=> lrHw = lrTail
  BY DEF LrHwFill
<1>4. lrIrq'
  BY DEF LrHwFill
<1>5. ~lrNoMem
  BY DEF LrHwFill
<1>6. ~lrTwice'
  BY <1>5 DEF LrHwFill, LrInv
<1>7. LrTypes /\ LrFresh
  BY <1>5 DEF LrInv
<1>8. PICK w \in 0 .. LrN : LrWindow(w)
  BY <1>5 DEF LrInv
<1>9. PICK r \in 1 .. LrN : w + r <= LrN /\ lrTail = RgSlot(lrHw, r - 1, LrN)
  BY <1>2, <1>8 DEF LrWindow
<1>10. LrN \in Nat \ {0} /\ lrCi \in 0 .. (LrN - 1) /\ lrHw \in 0 .. (LrN - 1) /\ 1 \in 0 .. LrN /\ w + 1 \in 0 .. LrN
  BY <1>7, <1>9, LrConsts DEF LrTypes
<1>11. lrHw = RgSlot(lrCi, w, LrN)
       /\ lrDone = {RgSlot(lrCi, j, LrN) : j \in 0 .. (w - 1)}
  BY <1>8 DEF LrWindow
<1>12. lrHw' = RgSlot(lrCi', w + 1, LrN) /\ lrHw' = RgSlot(lrHw, 1, LrN)
  <2>1. (lrHw + 1) % LrN = RgSlot(lrHw, 1, LrN)
    BY <1>10, SlotFacts
  <2>2. RgSlot(RgSlot(lrCi, w, LrN), 1, LrN) = RgSlot(lrCi, w + 1, LrN)
    BY <1>10, SlotSum
  <2>3. QED
    BY <1>1, <1>11, <2>1, <2>2
<1>13. lrDone' = {RgSlot(lrCi', j, LrN) : j \in 0 .. ((w + 1) - 1)}
  <2>1. 0 .. ((w + 1) - 1) = 0 .. (w - 1) \cup {w}
    BY <1>10
  <2>2. QED
    BY <1>1, <1>11, <2>1
<1>14. ASSUME ~lrIdle' PROVE \E q \in 1 .. LrN : (w + 1) + q <= LrN /\ lrTail' = RgSlot(lrHw', q - 1, LrN)
  <2>1. r # 1
    <3>1. RgSlot(lrHw, 0, LrN) = lrHw
      BY <1>10, SlotFacts
    <3>2. QED
      BY <1>3, <1>9, <1>14, <3>1
  <2>2. r - 1 \in 1 .. LrN /\ (w + 1) + (r - 1) <= LrN /\ r - 2 \in 0 .. LrN /\ (r - 1) - 1 = r - 2
    BY <1>9, <1>10, <2>1
  <2>3. RgSlot(RgSlot(lrHw, 1, LrN), r - 2, LrN) = RgSlot(lrHw, r - 1, LrN)
    <3>1. 1 + (r - 2) <= LrN /\ 1 + (r - 2) = r - 1
      BY <1>10, <2>2
    <3>2. RgSlot(RgSlot(lrHw, 1, LrN), r - 2, LrN) = RgSlot(lrHw, 1 + (r - 2), LrN)
      BY <1>10, <2>2, <3>1, SlotSum
    <3>3. QED
      BY <3>1, <3>2
  <2>4. lrTail' = RgSlot(lrHw', (r - 1) - 1, LrN)
    BY <1>1, <1>9, <1>12, <2>2, <2>3
  <2>5. QED
    BY <2>2, <2>4
<1>15. LrWindow(w + 1)'
  BY <1>12, <1>13, <1>14 DEF LrWindow
<1>16. LrTypes'
  <2>1. lrHw' \in 0 .. (LrN - 1)
    BY <1>10, <1>12, SlotFacts
  <2>2. QED
    BY <1>1, <1>7, <2>1 DEF LrTypes
<1>17. LrFresh'
  BY <1>1, <1>7 DEF LrFresh
<1>18. QED
  BY <1>4, <1>6, <1>10, <1>15, <1>16, <1>17 DEF LrInv

LEMMA LrRunIs ==
  ASSUME LrTypes, NEW w \in 0 .. LrN, LrWindow(w)
  PROVE  LrRun = 0 .. (w - 1) /\ Cardinality(LrRun) = w
<1>1. LrN \in Nat \ {0} /\ lrCi \in 0 .. (LrN - 1)
  BY LrConsts DEF LrTypes
<1>2. ASSUME NEW j \in 0 .. (LrN - 1) PROVE (lrCi + j) % LrN \in lrDone <=> j < w
  <2>1. j \in 0 .. LrN
    BY <1>1
  <2>2. (lrCi + j) % LrN = RgSlot(lrCi, j, LrN)
    BY <1>1, <2>1, SlotFacts
  <2>3. ASSUME NEW i \in 0 .. (w - 1), RgSlot(lrCi, j, LrN) = RgSlot(lrCi, i, LrN) PROVE j < w
    <3>1. i \in 0 .. (LrN - 1)
      BY <1>1
    <3>2. i = j
      BY <1>1, <2>3, <3>1, SlotUnique
    <3>3. QED
      BY <1>1, <3>2
  <2>4. ASSUME j < w PROVE RgSlot(lrCi, j, LrN) \in lrDone
    <3>1. j \in 0 .. (w - 1)
      BY <1>1, <2>4
    <3>2. QED
      BY <3>1 DEF LrWindow
  <2>5. QED
    BY <2>2, <2>3, <2>4 DEF LrWindow
<1>3. ASSUME NEW i \in 0 .. (LrN - 1) PROVE (\A j \in 0 .. i : (lrCi + j) % LrN \in lrDone) <=> i < w
  <2>1. \A j \in 0 .. i : j \in 0 .. (LrN - 1)
    BY <1>1
  <2>2. i \in 0 .. i
    BY <1>1
  <2>3. i < w => \A j \in 0 .. i : j < w
    BY <1>1
  <2>4. QED
    BY <1>2, <2>1, <2>2, <2>3
<1>4. LrRun = {i \in 0 .. (LrN - 1) : i < w}
  BY <1>3 DEF LrRun
<1>5. LrRun = 0 .. (w - 1)
  BY <1>1, <1>4
<1>6. Cardinality(0 .. (w - 1)) = w
  BY <1>1, FS_Interval
<1>7. QED
  BY <1>5, <1>6

LEMMA LrRxIrqKeeps == ASSUME LrInv, NEW fail \in 0 .. LrN, LrRxIrq(fail) PROVE LrInv'
<1> DEFINE n == Cardinality(LrRun)
           k == IF fail \in 1 .. n THEN fail - 1 ELSE n
           given == {(lrCi + i) % LrN : i \in 0 .. (k - 1)}
           up == {lrSkb[d] : d \in given} \cup (IF fail \in 1 .. n THEN {lrSkb[(lrCi + k) % LrN]} ELSE {})
<1>1. lrUp' = lrUp \cup up /\ lrDone' = lrDone \ given
  BY DEF LrRxIrq
<1>2. lrSkb' = [d \in 0 .. (LrN - 1) |-> IF d \in given THEN lrNew + 1 + ((d - lrCi) % LrN) ELSE lrSkb[d]]
  BY DEF LrRxIrq
<1>3. lrNew' = lrNew + k /\ lrCi' = (lrCi + k) % LrN /\ lrHw' = lrHw
  BY DEF LrRxIrq
<1>4. lrTwice' = (lrTwice \/ up \cap lrUp # {})
  BY DEF LrRxIrq
<1>5. lrNoMem' = (lrNoMem \/ fail \in 1 .. n)
  BY DEF LrRxIrq
<1>6. fail \notin 1 .. n => lrTail' = lrCi
  BY DEF LrRxIrq, LrNewTail
<1>7. fail \notin 1 .. n => ~lrIdle'
  BY DEF LrRxIrq, LrNewTail
<1> HIDE DEF n, k, given, up
<1> SUFFICES ASSUME ~lrNoMem' PROVE LrInv'
  BY DEF LrInv
<1>8. fail \notin 1 .. n
  BY <1>5
<1>9. ~lrNoMem
  BY <1>5
<1>10. LrTypes /\ LrFresh
  BY <1>9 DEF LrInv
<1>11. ~lrTwice
  BY <1>9 DEF LrInv
<1>12. PICK w \in 0 .. LrN : LrWindow(w)
  BY <1>9 DEF LrInv
<1>13. n = w
  BY <1>10, <1>12, LrRunIs DEF n
<1>14. k = w
  BY <1>8, <1>13 DEF k
<1>15. LrN \in Nat \ {0} /\ lrCi \in 0 .. (LrN - 1) /\ lrHw \in 0 .. (LrN - 1) /\ lrNew \in Nat
  BY <1>10, LrConsts DEF LrTypes
<1>16. lrSkb \in [0 .. (LrN - 1) -> Nat]
  BY <1>10 DEF LrTypes
<1>17. \A i \in 0 .. LrN : (lrCi + i) % LrN = RgSlot(lrCi, i, LrN) /\ RgSlot(lrCi, i, LrN) \in 0 .. (LrN - 1)
  BY <1>15, SlotFacts
<1>18. \A i \in 0 .. (w - 1) : i \in 0 .. LrN /\ i \in 0 .. (LrN - 1)
  BY <1>15
<1>19. given = {RgSlot(lrCi, i, LrN) : i \in 0 .. (w - 1)}
  BY <1>14, <1>17, <1>18 DEF given
<1>20. given = lrDone /\ given \subseteq 0 .. (LrN - 1)
  BY <1>12, <1>17, <1>18, <1>19 DEF LrWindow
<1>21. lrDone' = {} /\ lrCi' = lrHw /\ lrCi' = RgSlot(lrCi, w, LrN)
  <2>1. lrHw = RgSlot(lrCi, w, LrN)
    BY <1>12 DEF LrWindow
  <2>2. QED
    BY <1>1, <1>3, <1>14, <1>17, <1>20, <2>1
<1>22. ASSUME NEW d \in given PROVE \E i \in 0 .. (w - 1) : d = RgSlot(lrCi, i, LrN) /\ (d - lrCi) % LrN = i
  <2>1. PICK i \in 0 .. (w - 1) : d = RgSlot(lrCi, i, LrN)
    BY <1>19
  <2>2. i \in 0 .. (LrN - 1)
    BY <1>18
  <2>3. d - lrCi = i \/ d - lrCi = i - LrN
    BY <1>15, <2>1, <2>2 DEF RgSlot
  <2>4. (d - lrCi) % LrN = i
    BY <1>15, <2>2, <2>3, SlotBack
  <2>5. QED
    BY <2>1, <2>4
<1>23. \A d \in given : lrSkb'[d] > lrNew /\ lrSkb'[d] <= lrNew + w /\ lrSkb'[d] \in Nat
  <2>1. ASSUME NEW d \in given PROVE lrSkb'[d] > lrNew /\ lrSkb'[d] <= lrNew + w /\ lrSkb'[d] \in Nat
    <3>1. PICK i \in 0 .. (w - 1) : d = RgSlot(lrCi, i, LrN) /\ (d - lrCi) % LrN = i
      BY <1>22
    <3>2. lrSkb'[d] = lrNew + 1 + i
      BY <1>2, <1>20, <3>1
    <3>3. QED
      BY <1>15, <3>2
  <2>2. QED
    BY <2>1
<1>24. \A d, e \in given : lrSkb'[d] = lrSkb'[e] => d = e
  <2>1. ASSUME NEW d \in given, NEW e \in given, lrSkb'[d] = lrSkb'[e] PROVE d = e
    <3>1. PICK i \in 0 .. (w - 1) : d = RgSlot(lrCi, i, LrN) /\ (d - lrCi) % LrN = i
      BY <1>22
    <3>2. PICK j \in 0 .. (w - 1) : e = RgSlot(lrCi, j, LrN) /\ (e - lrCi) % LrN = j
      BY <1>22
    <3>3. lrSkb'[d] = lrNew + 1 + i /\ lrSkb'[e] = lrNew + 1 + j
      BY <1>2, <1>20, <3>1, <3>2
    <3>4. lrNew + 1 + i = lrNew + 1 + j
      BY <2>1, <3>3
    <3>5. i \in Int /\ j \in Int /\ lrNew \in Int
      BY <1>15
    <3>6. i = j
      BY <3>4, <3>5
    <3>7. QED
      BY <3>1, <3>2, <3>6
  <2>2. QED
    BY <2>1
<1>25. \A d \in 0 .. (LrN - 1) : d \notin given => lrSkb'[d] = lrSkb[d]
  BY <1>2
<1>26. up = {lrSkb[d] : d \in given}
  BY <1>8 DEF up
<1>27. lrNew' = lrNew + w /\ lrNew' \in Nat /\ lrNew <= lrNew'
  BY <1>3, <1>14, <1>15
<1>28. LrTypes'
  <2>1. lrSkb' \in [0 .. (LrN - 1) -> Nat]
    BY <1>2, <1>16, <1>20, <1>23, <1>25
  <2>2. lrTail' \in 0 .. (LrN - 1) /\ lrCi' \in 0 .. (LrN - 1) /\ lrHw' \in 0 .. (LrN - 1)
    BY <1>3, <1>6, <1>8, <1>15, <1>21
  <2>3. QED
    BY <1>27, <2>1, <2>2 DEF LrTypes
<1>29. LrWindow(0)'
  <2>1. 0 .. (0 - 1) = {}
    OBVIOUS
  <2>2. lrHw' = RgSlot(lrCi', 0, LrN)
    BY <1>3, <1>15, <1>21 DEF RgSlot
  <2>3. \E r \in 1 .. LrN : 0 + r <= LrN /\ lrTail' = RgSlot(lrHw', r - 1, LrN)
    <3>1. CASE w = 0
      <4>1. lrTail' = RgSlot(lrHw', 1 - 1, LrN)
        BY <1>3, <1>6, <1>8, <1>15, <1>21, <3>1 DEF RgSlot
      <4>2. 1 \in 1 .. LrN /\ 0 + 1 <= LrN
        BY <1>15
      <4>3. QED
        BY <4>1, <4>2
    <3>2. CASE w # 0
      <4>1. LrN - w + 1 \in 1 .. LrN /\ 0 + (LrN - w + 1) <= LrN
        BY <1>15, <3>2
      <4>2. (LrN - w + 1) - 1 = LrN - w
        BY <1>15
      <4>3. lrCi = RgSlot(RgSlot(lrCi, w, LrN), LrN - w, LrN)
        BY <1>15 DEF RgSlot
      <4>4. lrTail' = RgSlot(lrHw', (LrN - w + 1) - 1, LrN)
        BY <1>3, <1>6, <1>8, <1>21, <4>2, <4>3
      <4>5. QED
        BY <4>1, <4>4
    <3>3. QED
      BY <3>1, <3>2
  <2>4. lrDone' = {RgSlot(lrCi', j, LrN) : j \in 0 .. (0 - 1)}
    BY <1>21, <2>1
  <2>5. QED
    BY <2>2, <2>3, <2>4 DEF LrWindow
<1>30. LrFresh'
  <2>1. ASSUME NEW d \in 0 .. (LrN - 1) PROVE lrSkb'[d] <= lrNew' /\ lrSkb'[d] \notin lrUp'
    <3>1. \A s \in lrUp' : s \in Nat /\ s <= lrNew
      BY <1>1, <1>10, <1>16, <1>20, <1>26 DEF LrFresh
    <3>2. CASE d \in given
      <4>1. lrSkb'[d] > lrNew /\ lrSkb'[d] <= lrNew + w /\ lrSkb'[d] \in Nat
        BY <1>23, <3>2
      <4>2. QED
        BY <1>15, <1>27, <3>1, <4>1
    <3>3. CASE d \notin given
      <4>1. lrSkb'[d] = lrSkb[d] /\ lrSkb[d] \in Nat
        BY <1>16, <1>25, <3>3
      <4>2. lrSkb[d] <= lrNew /\ lrSkb[d] \notin lrUp /\ \A e \in given : lrSkb[d] # lrSkb[e]
        BY <1>10, <1>20, <3>3 DEF LrFresh
      <4>3. QED
        BY <1>1, <1>15, <1>26, <1>27, <4>1, <4>2
    <3>4. QED
      BY <3>2, <3>3
  <2>2. ASSUME NEW d \in 0 .. (LrN - 1), NEW e \in 0 .. (LrN - 1), lrSkb'[d] = lrSkb'[e] PROVE d = e
    <3>1. CASE d \in given /\ e \in given
      BY <1>24, <2>2, <3>1
    <3>2. CASE d \notin given /\ e \notin given
      BY <1>10, <1>25, <2>2, <3>2 DEF LrFresh
    <3>3. \A x, y \in 0 .. (LrN - 1) : x \in given /\ y \notin given => lrSkb'[x] # lrSkb'[y]
      <4>1. ASSUME NEW x \in 0 .. (LrN - 1), NEW y \in 0 .. (LrN - 1), x \in given, y \notin given
            PROVE  lrSkb'[x] # lrSkb'[y]
        <5>1. lrSkb'[x] > lrNew /\ lrSkb'[x] \in Nat
          BY <1>23, <4>1
        <5>2. lrSkb'[y] = lrSkb[y] /\ lrSkb[y] <= lrNew /\ lrSkb[y] \in Nat
          BY <1>10, <1>16, <1>25, <4>1 DEF LrFresh
        <5>3. QED
          BY <1>15, <5>1, <5>2
      <4>2. QED
        BY <4>1
    <3>4. QED
      BY <2>2, <3>1, <3>2, <3>3
  <2>3. ASSUME NEW s \in lrUp' PROVE s \in Nat /\ s <= lrNew'
    <3>1. s \in Nat /\ s <= lrNew
      BY <1>1, <1>10, <1>16, <1>20, <1>26 DEF LrFresh
    <3>2. QED
      BY <1>15, <1>27, <3>1
  <2>4. QED
    BY <2>1, <2>2, <2>3 DEF LrFresh
<1>31. ~lrTwice'
  <2>1. up \cap lrUp = {}
    BY <1>10, <1>20, <1>26 DEF LrFresh
  <2>2. QED
    BY <1>4, <1>11, <2>1
<1>32. (lrIdle' \/ lrDone' # {}) => lrIrq'
  BY <1>7, <1>8, <1>21
<1>33. 0 \in 0 .. LrN
  BY <1>15
<1>34. QED
  BY <1>28, <1>29, <1>30, <1>31, <1>32, <1>33 DEF LrInv

LEMMA LrStep == LrInv /\ [LrNext]_lrVars => LrInv'
<1> SUFFICES ASSUME LrInv, [LrNext]_lrVars PROVE LrInv'
  OBVIOUS
<1>1. CASE UNCHANGED lrVars
  <2>1. UNCHANGED <<lrDone, lrSkb, lrCi, lrTail, lrHw, lrUp, lrNew>>
    BY <1>1 DEF lrVars
  <2>2. UNCHANGED <<lrIdle, lrIrq, lrNoMem, lrTwice>>
    BY <1>1 DEF lrVars
  <2>3. (LrTypes <=> LrTypes') /\ (LrFresh <=> LrFresh') /\ (\E w \in 0 .. LrN : LrWindow(w)) = (\E w \in 0 .. LrN : LrWindow(w))'
    BY <2>1, <2>2 DEF LrTypes, LrFresh, LrWindow
  <2>4. QED
    BY <2>1, <2>2, <2>3 DEF LrInv
<1>2. QED
  BY <1>1, LrHwFillKeeps, LrRxIrqKeeps DEF LrNext

LEMMA LrInvMeans == LrInv => LrServed
<1> SUFFICES ASSUME LrInv, ~lrNoMem PROVE LrServed
  BY DEF LrServed
<1>1. ~lrTwice /\ ((lrIdle \/ lrDone # {}) => lrIrq)
  BY DEF LrInv
<1>2. LrTypes
  BY DEF LrInv
<1>3. PICK w \in 0 .. LrN : LrWindow(w)
  BY DEF LrInv
<1>4. ASSUME ~lrIdle PROVE lrHw \notin lrDone
  <2>1. w < LrN /\ lrHw = RgSlot(lrCi, w, LrN)
    BY <1>3, <1>4, LrConsts DEF LrWindow
  <2>2. LrN \in Nat \ {0} /\ lrCi \in 0 .. (LrN - 1) /\ w \in 0 .. (LrN - 1)
    BY <1>2, <2>1, LrConsts DEF LrTypes
  <2>3. ASSUME NEW j \in 0 .. (w - 1), lrHw = RgSlot(lrCi, j, LrN) PROVE FALSE
    <3>1. j \in 0 .. (LrN - 1) /\ j # w
      BY <2>2
    <3>2. QED
      BY <2>1, <2>2, <2>3, <3>1, SlotUnique
  <2>4. QED
    BY <1>3, <2>3 DEF LrWindow
<1>5. QED
  BY <1>1, <1>4 DEF LrServed

----------------------------------------------------------------------------
(* The life of the LL TEMAC device (LlTemac).                               *)

LlInv ==
  ~llFailed => /\ ~llBad /\ llDev \in {"none", "probed", "open"}
               /\ llDev = "none" => llHas = {}
               /\ llDev = "probed" => "bus" \in llHas /\ "rings" \notin llHas
               /\ llDev = "open" => "bus" \in llHas /\ "rings" \in llHas

LlIsState(st) == DOMAIN st = {"dev", "has", "dangling", "bad", "failed", "options", "regs", "groups"}

\* Two states that agree in what the invariant is about
LlAlike(s, t) == s.dev = t.dev /\ s.has = t.has /\ s.bad = t.bad /\ s.failed = t.failed

LEMMA LlStIs ==
  LlIsState(LlSt) /\ LlSt.dev = llDev /\ LlSt.has = llHas /\ LlSt.bad = llBad /\ LlSt.failed = llFailed
BY DEF LlSt, LlIsState

LEMMA LlSetOptionsAlike ==
  ASSUME NEW st, NEW o, LlIsState(st) PROVE LlIsState(LlSetOptions(st, o)) /\ LlAlike(LlSetOptions(st, o), st)
BY DEF LlSetOptions, LlIsState, LlAlike

LEMMA LlSetMulticastAlike ==
  ASSUME NEW st, NEW flags, NEW groups, LlIsState(st)
  PROVE  LlIsState(LlSetMulticast(st, flags, groups)) /\ LlAlike(LlSetMulticast(st, flags, groups), st)
BY DEF LlSetMulticast, LlIsState, LlAlike

LEMMA LlBdReleaseIs ==
  ASSUME NEW st, LlIsState(st)
  PROVE  /\ LlIsState(LlBdRelease(st)) /\ LlBdRelease(st).dev = st.dev /\ LlBdRelease(st).failed = st.failed
         /\ LlBdRelease(st).has = st.has \ {"rings"} /\ LlBdRelease(st).bad = (st.bad \/ "rings" \notin st.has)
BY DEF LlBdRelease, LlIsState

LEMMA LlBdInitIs ==
  ASSUME NEW st, NEW ok \in BOOLEAN, LlIsState(st)
  PROVE  /\ LlIsState(LlBdInit(st, ok)) /\ LlBdInit(st, ok).dev = st.dev
         /\ ok => /\ LlBdInit(st, ok).failed = st.failed /\ LlBdInit(st, ok).has = st.has \cup {"rings"}
                  /\ LlBdInit(st, ok).bad = (st.bad \/ "rings" \in st.has)
         /\ ~ok => LlBdInit(st, ok).failed = TRUE
<1> DEFINE had == [st EXCEPT !.bad = @ \/ "rings" \in st.has, !.has = @ \cup {"rings"}, !.dangling = @ \ {"rings"}]
           failing == [had EXCEPT !.failed = TRUE]
<1>1. /\ LlIsState(had) /\ had.dev = st.dev /\ had.failed = st.failed /\ had.has = st.has \cup {"rings"}
      /\ had.bad = (st.bad \/ "rings" \in st.has)
  BY DEF LlIsState
<1> HIDE DEF had
<1>2. LlIsState(failing) /\ failing.dev = had.dev /\ failing.failed = TRUE
  BY <1>1 DEF LlIsState
<1> HIDE DEF failing
<1>3. LlBdInit(st, ok) = IF ok THEN had ELSE LlBdRelease(failing)
  BY DEF LlBdInit, had, failing
<1>4. CASE ok
  BY <1>1, <1>3, <1>4
<1>5. CASE ~ok
  <2>1. LlIsState(LlBdRelease(failing)) /\ LlBdRelease(failing).dev = failing.dev /\ LlBdRelease(failing).failed = failing.failed
    BY <1>2, LlBdReleaseIs
  <2>2. LlBdInit(st, ok) = LlBdRelease(failing)
    BY <1>3, <1>5
  <2>3. QED
    BY <1>1, <1>2, <1>5, <2>1, <2>2
<1>6. QED
  BY <1>4, <1>5

\* What temac_device_reset leaves of a state st when the memory is there (ok), and when not
LlResetTo(t, st, ok) ==
  /\ LlIsState(t) /\ t.dev = st.dev
  /\ ok => t.failed = st.failed /\ t.has = st.has \cup {"rings"} /\ t.bad = (st.bad \/ "rings" \in st.has)
  /\ ~ok => t.failed = TRUE

LEMMA LlDeviceResetIs ==
  ASSUME NEW st, NEW ok \in BOOLEAN, NEW flags, NEW groups, LlIsState(st)
  PROVE  LlResetTo(LlDeviceReset(st, ok, flags, groups), st, ok)
<1> DEFINE i == LlBdInit(st, ok)
           a == [i EXCEPT !.regs = {"flow"}]
           b == LlSetOptions(a, a.options \ {"txen", "rxen"})
           c == LlSetMulticast(b, flags, groups)
           t == LlSetOptions(c, c.options)
<1>1. LlIsState(i)
  BY LlBdInitIs
<1>2. LlIsState(a) /\ LlAlike(a, i)
  BY <1>1 DEF LlIsState, LlAlike
<1> HIDE DEF a
<1>3. LlIsState(b) /\ LlAlike(b, a)
  BY <1>2, LlSetOptionsAlike
<1> HIDE DEF b
<1>4. LlIsState(c) /\ LlAlike(c, b)
  BY <1>3, LlSetMulticastAlike
<1> HIDE DEF c
<1>5. LlIsState(t) /\ LlAlike(t, c)
  BY <1>4, LlSetOptionsAlike
<1> HIDE DEF t
<1>6. LlAlike(t, i)
  BY <1>2, <1>3, <1>4, <1>5 DEF LlAlike
<1>7. LlDeviceReset(st, ok, flags, groups) = t
  BY DEF LlDeviceReset, t, c, b, a, i
<1>8. /\ i.dev = st.dev
      /\ ok => i.failed = st.failed /\ i.has = st.has \cup {"rings"} /\ i.bad = (st.bad \/ "rings" \in st.has)
      /\ ~ok => i.failed = TRUE
  BY LlBdInitIs
<1> HIDE DEF i
<1>9. LlIsState(t) /\ t.dev = st.dev
  BY <1>5, <1>6, <1>8 DEF LlAlike
<1>10. ok => t.failed = st.failed /\ t.has = st.has \cup {"rings"} /\ t.bad = (st.bad \/ "rings" \in st.has)
  BY <1>6, <1>8 DEF LlAlike
<1>11. ~ok => t.failed = TRUE
  BY <1>6, <1>8 DEF LlAlike
<1>12. QED
  BY <1>7, <1>9, <1>10, <1>11 DEF LlResetTo

LEMMA LlOpenKeeps ==
  ASSUME LlInv, NEW memory \in BOOLEAN, NEW irq \in BOOLEAN, NEW flags, NEW groups, LlOpen(memory, irq, flags, groups)
  PROVE  LlInv'
<1> DEFINE st == LlDeviceReset(LlSt, memory, flags, groups)
           opened == [st EXCEPT !.dev = "open", !.has = @ \cup {"irqs", "phy"}]
           failing == [st EXCEPT !.failed = TRUE]
<1>1. llDev = "probed"
  BY DEF LlOpen
<1>2. LlBecomes(IF irq THEN opened ELSE failing)
  BY DEF LlOpen
<1>3. /\ LlIsState(st) /\ st.dev = llDev
      /\ memory => /\ st.failed = llFailed /\ st.has = llHas \cup {"rings"} /\ st.bad = (llBad \/ "rings" \in llHas)
      /\ ~memory => st.failed = TRUE
  <2>0. LlIsState(LlSt)
    BY LlStIs
  <2>1. LlResetTo(st, LlSt, memory)
    BY <2>0, LlDeviceResetIs
  <2> HIDE DEF st
  <2>2. QED
    BY <2>1, LlStIs DEF LlResetTo
<1> HIDE DEF st
<1>4. opened.dev = "open" /\ opened.has = st.has \cup {"irqs", "phy"} /\ opened.bad = st.bad /\ opened.failed = st.failed
  BY <1>3 DEF LlIsState
<1>5. failing.failed = TRUE
  BY <1>3 DEF LlIsState
<1> HIDE DEF opened, failing
<1>6. CASE ~irq
  <2>1. llFailed' = TRUE
    BY <1>2, <1>5, <1>6 DEF LlBecomes
  <2>2. QED
    BY <2>1 DEF LlInv
<1>7. CASE irq /\ ~memory
  <2>1. llFailed' = TRUE
    BY <1>2, <1>3, <1>4, <1>7 DEF LlBecomes
  <2>2. QED
    BY <2>1 DEF LlInv
<1>8. CASE irq /\ memory
  <2>1. llFailed' = llFailed
    BY <1>2, <1>3, <1>4, <1>8 DEF LlBecomes
  <2>2. llBad' = (llBad \/ "rings" \in llHas)
    BY <1>2, <1>3, <1>4, <1>8 DEF LlBecomes
  <2>3. llDev' = "open" /\ llHas' = llHas \cup {"rings"} \cup {"irqs", "phy"}
    BY <1>2, <1>3, <1>4, <1>8 DEF LlBecomes
  <2>4. QED
    BY <1>1, <2>1, <2>2, <2>3 DEF LlInv
<1>9. QED
  BY <1>6, <1>7, <1>8

LEMMA LlStopKeeps == LlInv /\ LlStop => LlInv'
<1> SUFFICES ASSUME LlInv, LlStop PROVE LlInv'
  OBVIOUS
<1> DEFINE st == [LlSt EXCEPT !.dev = "probed", !.has = @ \ {"irqs", "phy"}]
<1>1. llDev = "open"
  BY DEF LlStop
<1>2. LlBecomes(LlBdRelease(st))
  BY DEF LlStop
<1>3. LlIsState(st) /\ st.dev = "probed" /\ st.has = llHas \ {"irqs", "phy"} /\ st.bad = llBad /\ st.failed = llFailed
  BY LlStIs DEF LlIsState
<1> HIDE DEF st
<1>4. /\ LlBdRelease(st).dev = "probed" /\ LlBdRelease(st).failed = llFailed
      /\ LlBdRelease(st).has = (llHas \ {"irqs", "phy"}) \ {"rings"}
      /\ LlBdRelease(st).bad = (llBad \/ "rings" \notin llHas \ {"irqs", "phy"})
  BY <1>3, LlBdReleaseIs
<1>5. llFailed' = llFailed
  BY <1>2, <1>4 DEF LlBecomes
<1>6. llBad' = (llBad \/ "rings" \notin llHas \ {"irqs", "phy"})
  BY <1>2, <1>4 DEF LlBecomes
<1>7. llDev' = "probed" /\ llHas' = (llHas \ {"irqs", "phy"}) \ {"rings"}
  BY <1>2, <1>4 DEF LlBecomes
<1>8. QED
  BY <1>1, <1>5, <1>6, <1>7 DEF LlInv

LEMMA LlRemoveKeeps == LlInv /\ LlRemove => LlInv'
<1> SUFFICES ASSUME LlInv, LlRemove PROVE LlInv'
  OBVIOUS
<1> DEFINE st == [LlSt EXCEPT !.dev = "none", !.has = @ \cap {"rings"}, !.bad = @ \/ "bus" \notin llHas \/ "rings" \in llHas,
                              !.dangling = {}]
<1>1. llDev = "probed"
  BY DEF LlRemove
<1>2. LlBecomes(st)
  BY DEF LlRemove
<1>3. /\ st.dev = "none" /\ st.has = llHas \cap {"rings"} /\ st.failed = llFailed
      /\ st.bad = (llBad \/ "bus" \notin llHas \/ "rings" \in llHas)
  BY LlStIs DEF LlIsState
<1> HIDE DEF st
<1>4. llFailed' = llFailed
  BY <1>2, <1>3 DEF LlBecomes
<1>5. llBad' = (llBad \/ "bus" \notin llHas \/ "rings" \in llHas)
  BY <1>2, <1>3 DEF LlBecomes
<1>6. llDev' = "none" /\ llHas' = llHas \cap {"rings"}
  BY <1>2, <1>3 DEF LlBecomes
<1>7. QED
  BY <1>1, <1>4, <1>5, <1>6 DEF LlInv

LEMMA LlProbeKeeps ==
  ASSUME LlInv, NEW fail \in 0 .. 5, NEW bus \in {"ok", "fails", "absent"}, LlProbe(fail, bus) PROVE LlInv'
<1> DEFINE st == [LlSt EXCEPT !.dev = "probed", !.options = LlDefaults, !.has = {LlOrder[i] : i \in 1 .. 5}]
           lost == [LlSt EXCEPT !.has = IF fail \in 4 .. 5 /\ bus = "ok" THEN {"bus"} ELSE {}, !.failed = TRUE]
<1>1. fail = 0 => LlBecomes(LlMdio(st, bus))
  BY DEF LlProbe
<1>2. fail # 0 => LlBecomes(lost)
  BY DEF LlProbe
<1>3. LlIsState(st) /\ st.dev = "probed" /\ st.has = {LlOrder[i] : i \in 1 .. 5} /\ st.bad = llBad /\ st.failed = llFailed
  BY LlStIs DEF LlIsState
<1>4. lost.failed = TRUE
  BY LlStIs DEF LlIsState
<1> HIDE DEF st, lost
<1>5. CASE fail # 0
  <2>1. llFailed' = TRUE
    BY <1>2, <1>4, <1>5 DEF LlBecomes
  <2>2. QED
    BY <2>1 DEF LlInv
<1>6. CASE fail = 0 /\ bus # "ok"
  <2>1. LlMdio(st, bus).failed = TRUE
    <3>1. CASE bus = "fails"
      <4>1. LlMdio(st, bus) = [st EXCEPT !.dangling = @ \cup {"bus"}, !.failed = TRUE]
        BY <3>1 DEF LlMdio
      <4>2. QED
        BY <1>3, <4>1 DEF LlIsState
    <3>2. CASE bus = "absent"
      <4>1. LlMdio(st, bus) = [st EXCEPT !.failed = TRUE]
        BY <3>2 DEF LlMdio
      <4>2. QED
        BY <1>3, <4>1 DEF LlIsState
    <3>3. QED
      BY <1>6, <3>1, <3>2
  <2>2. llFailed' = TRUE
    BY <1>1, <1>6, <2>1 DEF LlBecomes
  <2>3. QED
    BY <2>2 DEF LlInv
<1>7. CASE fail = 0 /\ bus = "ok"
  <2>1. LlMdio(st, bus) = [st EXCEPT !.has = @ \cup {"bus"}]
    BY <1>7 DEF LlMdio
  <2>2. /\ LlMdio(st, bus).dev = "probed" /\ LlMdio(st, bus).has = {LlOrder[i] : i \in 1 .. 5} \cup {"bus"}
        /\ LlMdio(st, bus).bad = llBad /\ LlMdio(st, bus).failed = llFailed
    BY <1>3, <2>1 DEF LlIsState
  <2>3. llFailed' = llFailed
    BY <1>1, <1>7, <2>2 DEF LlBecomes
  <2>4. llBad' = llBad
    BY <1>1, <1>7, <2>2 DEF LlBecomes
  <2>5. llDev' = "probed" /\ llHas' = {LlOrder[i] : i \in 1 .. 5} \cup {"bus"}
    BY <1>1, <1>7, <2>2 DEF LlBecomes
  <2>6. \A i \in 1 .. 5 : LlOrder[i] # "rings"
    BY DEF LlOrder
  <2>7. "bus" \in llHas' /\ "rings" \notin llHas'
    BY <2>5, <2>6
  <2>8. QED
    BY <2>3, <2>4, <2>5, <2>7 DEF LlInv
<1>8. QED
  BY <1>5, <1>6, <1>7

LEMMA LlSameKeeps == LlInv /\ UNCHANGED <<llDev, llHas, llBad, llFailed>> => LlInv'
<1> SUFFICES ASSUME LlInv, UNCHANGED <<llDev, llHas, llBad, llFailed>> PROVE LlInv'
  OBVIOUS
<1>1. llDev' = llDev /\ llHas' = llHas
  OBVIOUS
<1>2. llBad' = llBad
  OBVIOUS
<1>3. llFailed' = llFailed
  OBVIOUS
<1>4. QED
  BY <1>1, <1>2, <1>3 DEF LlInv

LEMMA LlStep == LlInv /\ [LlNext]_llVars => LlInv'
<1> SUFFICES ASSUME LlInv, [LlNext]_llVars PROVE LlInv'
  OBVIOUS
<1>1. ASSUME NEW speed \in {10, 1000}, NEW duplex \in BOOLEAN, NEW link \in BOOLEAN, LlAdjustLink(speed, duplex, link)
      PROVE  LlInv'
  <2>1. UNCHANGED <<llDev, llHas, llBad, llFailed>>
    BY <1>1 DEF LlAdjustLink
  <2>2. QED
    BY <2>1, LlSameKeeps
<1>2. CASE UNCHANGED llVars
  BY <1>2, LlSameKeeps DEF llVars
<1>3. QED
  BY <1>1, <1>2, LlProbeKeeps, LlOpenKeeps, LlStopKeeps, LlRemoveKeeps DEF LlNext

LEMMA LlStarts == LlInit => LlInv
<1> SUFFICES ASSUME LlInit PROVE LlInv
  OBVIOUS
<1>1. llDev = "none" /\ llHas = {}
  BY DEF LlInit
<1>2. ~llBad
  BY DEF LlInit
<1>3. QED
  BY <1>1, <1>2 DEF LlInv

LEMMA LlInvMeans == LlInv => LlHeld
BY DEF LlInv, LlHeld

=============================================================================
