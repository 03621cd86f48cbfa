---------------------------- MODULE TrdpPdProof ----------------------------
(***************************************************************************)
(* Proofs about a process data subscription, for every time-out, every     *)
(* delay of the network and of the receiving thread, every socket buffer   *)
(* and every width of the counter, with packets lost, duplicated, damaged  *)
(* and reordered, and with or without requests of the application.         *)
(***************************************************************************)
EXTENDS TrdpPd, SequenceTheorems, TLAPS

----------------------------------------------------------------------------
(* The inductive invariant.                                                 *)

HistType == [good : BOOLEAN, silence : Nat, asked : BOOLEAN, forgiven : BOOLEAN,
             last : {-1} \cup Counters, pp : BOOLEAN, at : {-1} \cup Counters]

\* Types, and that only a subscription has a socket and is read.
Typed ==
  /\ TypeOK /\ hist \in HistType
  /\ ~Subscribed => rx = <<>> /\ holder = "none"

\* A packet is at most NetDelay on its way.
NetYoung == \A i \in DOMAIN net : net[i].age <= NetDelay

\* The longest that the packet at place i of a full buffer has waited when
\* the receiving thread was called at once.
WaitAt(i) == NetDelay + (RxCap - i) * RecvPoll

\* Each call of tlc_process_recv reads at least the first packet, so that the
\* others move up: the bound holds also where one packet is read at a time.
RxYoung ==
  /\ Len(rx) <= RxCap
  /\ \A i \in DOMAIN rx :
       rx[i].age <= WaitAt(i) + (IF holder = "recv" THEN RecvPoll ELSE rwait)

\* The timer started when the data came, or later for a request.
TimerFollowsData ==
  Subscribed /\ HasTimer /\ ~sub.invalid /\ sub.ttg >= 0
    => hist.asked \/ sub.age + sub.ttg <= Timeout + MaxWait

\* The timer is what is left of the time-out, and once it ran out the flag
\* waits for the receiving thread only.
TimerFollowsSilence ==
  Subscribed /\ HasTimer /\ ~sub.timedOut
    => /\ hist.silence <= Timeout + rwait
       /\ sub.ttg >= 0 => hist.silence + sub.ttg <= Timeout

\* Without a PP the list of senders, the frame header and the history agree.
CountersAgree ==
  Subscribed /\ ~hist.pp
    => /\ sub.seqs["PD"] = hist.last /\ sub.seqs["PP"] = -1
       /\ hist.last = -1 => sub.cur = 0
       /\ hist.last # -1 => sub.cur = hist.last

SubFacts == TimerFollowsData /\ TimerFollowsSilence /\ TimeoutIsRevoked /\ CountersAgree

SubInv == Typed /\ NetYoung /\ RxYoung /\ SubFacts

----------------------------------------------------------------------------
(* Sequences of packets.                                                    *)

\* What is left after a packet was taken out was there before.
LEMMA RemoveAtFacts ==
  ASSUME NEW q \in Seq(Pkt), NEW i \in DOMAIN q
  PROVE  /\ RemoveAt(q, i) \in Seq(Pkt)
         /\ \A j \in DOMAIN RemoveAt(q, i) : \E k \in DOMAIN q : RemoveAt(q, i)[j] = q[k]
         /\ Len(RemoveAt(q, i)) = Len(q) - 1
         /\ \A j \in i .. Len(q) - 1 : RemoveAt(q, i)[j] = q[j + 1]
<1> DEFINE a == SubSeq(q, 1, i - 1)
           b == SubSeq(q, i + 1, Len(q))
<1>1. Len(q) \in Nat /\ DOMAIN q = 1 .. Len(q) /\ i \in 1 .. Len(q)
  OBVIOUS
<1>2. \A k \in 1 .. Len(q) : q[k] \in Pkt
  BY ElementOfSeq
<1>3. /\ a \in Seq(Pkt) /\ Len(a) = i - 1
      /\ \A k \in 1 .. i - 1 : a[k] = q[k]
  <2>1. \A k \in 1 .. i - 1 : q[k] \in Pkt
    BY <1>1, <1>2
  <2>2. 1 \in Int /\ i - 1 \in Int
    BY <1>1
  <2>3. /\ a \in Seq(Pkt) /\ Len(a) = IF 1 <= i - 1 THEN (i - 1) - 1 + 1 ELSE 0
        /\ \A k \in 1 .. (i - 1) - 1 + 1 : a[k] = q[1 + k - 1]
    BY <2>1, <2>2, SubSeqProperties
  <2> QED
    BY <1>1, <2>3
<1>4. /\ b \in Seq(Pkt) /\ Len(b) = Len(q) - i
      /\ \A k \in 1 .. Len(q) - i : b[k] = q[i + k]
  <2>1. \A k \in i + 1 .. Len(q) : q[k] \in Pkt
    BY <1>1, <1>2
  <2>2. i + 1 \in Int /\ Len(q) \in Int
    BY <1>1
  <2>3. /\ b \in Seq(Pkt) /\ Len(b) = IF i + 1 <= Len(q) THEN Len(q) - (i + 1) + 1 ELSE 0
        /\ \A k \in 1 .. Len(q) - (i + 1) + 1 : b[k] = q[(i + 1) + k - 1]
    BY <2>1, <2>2, SubSeqProperties
  <2> QED
    BY <1>1, <2>3
<1> HIDE DEF a, b
<1>5. /\ a \o b \in Seq(Pkt) /\ Len(a \o b) = Len(a) + Len(b)
      /\ \A k \in 1 .. Len(a) + Len(b) :
           (a \o b)[k] = IF k <= Len(a) THEN a[k] ELSE b[k - Len(a)]
  BY <1>3, <1>4, ConcatProperties
<1>6. DOMAIN (a \o b) = 1 .. Len(a) + Len(b)
  BY <1>5
<1>7. ASSUME NEW j \in DOMAIN (a \o b) PROVE \E k \in DOMAIN q : (a \o b)[j] = q[k]
  <2>1. CASE j <= Len(a)
    <3>1. (a \o b)[j] = q[j] /\ j \in 1 .. Len(q)
      BY <1>1, <1>3, <1>4, <1>5, <1>6, <2>1
    <3> QED
      BY <1>1, <3>1
  <2>2. CASE ~(j <= Len(a))
    <3>1. j - Len(a) \in 1 .. Len(q) - i /\ i + (j - Len(a)) \in 1 .. Len(q)
      BY <1>1, <1>3, <1>4, <1>6, <2>2
    <3>2. (a \o b)[j] = q[i + (j - Len(a))]
      BY <1>4, <1>5, <1>6, <2>2, <3>1
    <3> QED
      BY <1>1, <3>1, <3>2
  <2> QED
    BY <2>1, <2>2
<1>8. RemoveAt(q, i) = a \o b
  BY DEF RemoveAt, a, b
<1>9. ASSUME NEW j \in i .. Len(q) - 1 PROVE (a \o b)[j] = q[j + 1]
  <2>1. /\ j \in 1 .. Len(a) + Len(b) /\ ~(j <= Len(a))
        /\ j - Len(a) \in 1 .. Len(q) - i /\ i + (j - Len(a)) = j + 1
    BY <1>1, <1>3, <1>4
  <2>2. (a \o b)[j] = b[j - Len(a)]
    BY <1>5, <2>1
  <2>3. b[j - Len(a)] = q[i + (j - Len(a))]
    BY <1>4, <2>1
  <2> QED
    BY <2>1, <2>2, <2>3
<1>10. Len(a \o b) = Len(q) - 1
  BY <1>1, <1>3, <1>4, <1>5
<1>11. QED
  BY <1>5, <1>7, <1>8, <1>9, <1>10

\* Marking packets leaves their number, their order and their age alone.
LEMMA OldFacts ==
  ASSUME NEW q \in Seq(Pkt)
  PROVE  /\ Old(q) \in Seq(Pkt) /\ Len(Old(q)) = Len(q) /\ DOMAIN Old(q) = DOMAIN q
         /\ \A i \in DOMAIN q : Old(q)[i].age = q[i].age
         /\ q = <<>> => Old(q) = <<>>
<1>1. Len(q) \in Nat /\ DOMAIN q = 1 .. Len(q)
  OBVIOUS
<1>2. \A i \in 1 .. Len(q) : q[i] \in Pkt
  BY ElementOfSeq
<1>3. \A i \in 1 .. Len(q) : /\ [q[i] EXCEPT !.live = FALSE] \in Pkt
                             /\ [q[i] EXCEPT !.live = FALSE].age = q[i].age
  BY <1>2 DEF Pkt
<1>4. Old(q) = [i \in 1 .. Len(q) |-> [q[i] EXCEPT !.live = FALSE]]
  BY <1>1 DEF Old
<1>5. Old(q) \in Seq(Pkt) /\ Len(Old(q)) = Len(q)
  BY <1>1, <1>3, <1>4
<1>6. DOMAIN Old(q) = DOMAIN q /\ \A i \in DOMAIN q : Old(q)[i].age = q[i].age
  BY <1>1, <1>3, <1>4
<1>7. q = <<>> => Old(q) = <<>>
  BY <1>5, EmptySeq
<1>8. QED
  BY <1>5, <1>6, <1>7

\* So does marking packets of a publisher that stopped.
LEMMA FormerFacts ==
  ASSUME NEW q \in Seq(Pkt)
  PROVE  /\ Former(q) \in Seq(Pkt) /\ Len(Former(q)) = Len(q) /\ DOMAIN Former(q) = DOMAIN q
         /\ \A i \in DOMAIN q : Former(q)[i].age = q[i].age
         /\ q = <<>> => Former(q) = <<>>
<1> DEFINE mark(p) == [p EXCEPT !.live = FALSE, !.no = -1]
<1>1. Len(q) \in Nat /\ DOMAIN q = 1 .. Len(q)
  OBVIOUS
<1>2. \A i \in 1 .. Len(q) : q[i] \in Pkt
  BY ElementOfSeq
<1>3. \A i \in 1 .. Len(q) : mark(q[i]) \in Pkt /\ mark(q[i]).age = q[i].age
  BY <1>2 DEF Pkt
<1>4. Former(q) = [i \in 1 .. Len(q) |-> mark(q[i])]
  BY <1>1 DEF Former
<1> HIDE DEF mark
<1>5. Former(q) \in Seq(Pkt) /\ Len(Former(q)) = Len(q)
  BY <1>1, <1>3, <1>4
<1>6. DOMAIN Former(q) = DOMAIN q /\ \A i \in DOMAIN q : Former(q)[i].age = q[i].age
  BY <1>1, <1>3, <1>4
<1>7. q = <<>> => Former(q) = <<>>
  BY <1>5, EmptySeq
<1>8. QED
  BY <1>5, <1>6, <1>7

\* The first packet leaves, the others move up.
LEMMA TailFacts ==
  ASSUME NEW q \in Seq(Pkt), q # <<>>
  PROVE  /\ Head(q) = q[1] /\ Head(q) \in Pkt /\ 1 \in DOMAIN q
         /\ Tail(q) \in Seq(Pkt) /\ Len(Tail(q)) = Len(q) - 1
         /\ \A i \in DOMAIN Tail(q) : i + 1 \in DOMAIN q /\ Tail(q)[i] = q[i + 1]
  BY HeadTailProperties

\* The types of the fields of a packet.
LEMMA PktTypes ==
  ASSUME NEW m \in Pkt
  PROVE  /\ m.type \in Types /\ m.seq \in Counters /\ m.data \in Data
         /\ m.ok \in BOOLEAN /\ m.age \in Nat /\ m.live \in BOOLEAN
         /\ m.no \in {-1} \cup Counters
  BY DEF Pkt

----------------------------------------------------------------------------
(* Counters.                                                                *)

\* A remainder has one value: what differs by a multiple leaves the same one.
LEMMA ModPlusMultiple ==
  ASSUME NEW x \in Int, NEW k \in Int, NEW g \in Int, g > 0
  PROVE  (x + k * g) % g = x % g
<1> DEFINE y == x + k * g
           q1 == x \div g
           r1 == x % g
           q2 == y \div g
           r2 == y % g
<1>1. k * g \in Int /\ y \in Int
  OBVIOUS
<1>2. q1 \in Int /\ r1 \in 0 .. g - 1 /\ x = q1 * g + r1
  OBVIOUS
<1>3. q2 \in Int /\ r2 \in 0 .. g - 1 /\ y = q2 * g + r2
  <2> HIDE DEF y
  <2> QED
    BY <1>1
<1>4. y = x + k * g
  OBVIOUS
<1> HIDE DEF y, q1, q2, r1, r2
<1>5. (q2 - q1 - k) * g = r1 - r2
  <2>1. (q2 - q1 - k) * g = q2 * g - q1 * g - k * g
    BY <1>2, <1>3
  <2>2. q2 * g \in Int /\ q1 * g \in Int /\ k * g \in Int
    BY <1>2, <1>3
  <2> DEFINE a == q2 * g
             b == q1 * g
             c == k * g
  <2>3. y = x + c /\ x = b + r1 /\ y = a + r2 /\ a \in Int /\ b \in Int /\ c \in Int
        /\ r1 \in Int /\ r2 \in Int /\ (q2 - q1 - k) * g = a - b - c
    BY <1>2, <1>3, <1>4, <2>1, <2>2
  <2> HIDE DEF a, b, c
  <2> QED
    BY <2>3, <1>1
<1>6. q2 - q1 - k \in Int /\ r1 - r2 \in Int /\ -g < r1 - r2 /\ r1 - r2 < g
  BY <1>2, <1>3
<1>7. ASSUME NEW n \in Int, NEW d \in Int, n * g = d, -g < d, d < g PROVE d = 0
  BY <1>7
<1>8. r1 - r2 = 0
  BY <1>5, <1>6, <1>7
<1>9. QED
  BY <1>2, <1>3, <1>8 DEF r1, r2, y

\* A remainder may be taken before or after a sum.
LEMMA ModSum ==
  ASSUME NEW x \in Int, NEW y \in Int, NEW g \in Int, g > 0
  PROVE  (x + (y % g)) % g = (x + y) % g
<1> DEFINE q == y \div g
           r == y % g
<1>1. q \in Int /\ r \in Int /\ y = q * g + r
  OBVIOUS
<1> HIDE DEF q, r
<1>2. x + y = (x + r) + q * g /\ x + r \in Int
  BY <1>1
<1>3. ((x + r) + q * g) % g = (x + r) % g
  BY <1>1, <1>2, ModPlusMultiple
<1>4. QED
  BY <1>2, <1>3 DEF r

\* trdp_pdReceive counts what was skipped, over the overflow of the counter:
\* the difference of the counters less one, unless the packet is a repeated 0.
LEMMA SkippedFacts ==
  ASSUME NEW c \in Counters, NEW n \in Counters, n # c, NEW x \in Counters
  PROVE  (x + Skipped(c, n)) % CntMod = (x + n - c - 1) % CntMod
<1>0. CntMod \in Int /\ CntMod > 1 /\ CntMod > 0 /\ 1 \in Int
  BY PacketAssumption
<1>1. c \in Int /\ n \in Int /\ x \in Int /\ 0 <= c /\ c < CntMod /\ 0 <= n /\ n < CntMod
  BY <1>0 DEF Counters
<1>2. Bump(c) = IF c = CntMod - 1 THEN 0 ELSE c + 1
  <2>1. CASE c = CntMod - 1
    <3>1. c + 1 = 1 * CntMod
      BY <1>0, <1>1, <2>1
    <3>2. (1 * CntMod) % CntMod = 0
      BY <1>0
    <3> QED
      BY <2>1, <3>1, <3>2 DEF Bump
  <2>2. CASE c # CntMod - 1
    <3>1. c + 1 \in 0 .. CntMod - 1
      BY <1>0, <1>1, <2>2
    <3> QED
      BY <1>0, <2>2, <3>1 DEF Bump
  <2> QED
    BY <2>1, <2>2
<1>3. CASE n > 0 /\ n > Bump(c)
  <2>1. Skipped(c, n) = (n - c - 1) % CntMod
    BY <1>3 DEF Skipped
  <2> DEFINE y == n - c - 1
  <2>2. y \in Int /\ x + y = x + n - c - 1
    BY <1>1
  <2>3. Skipped(c, n) = y % CntMod
    BY <2>1
  <2> HIDE DEF y
  <2>4. (x + (y % CntMod)) % CntMod = (x + y) % CntMod
    BY <1>0, <1>1, <2>2, ModSum
  <2> QED
    BY <2>2, <2>3, <2>4
<1>4. CASE ~(n > 0 /\ n > Bump(c)) /\ c > n
  <2>1. Skipped(c, n) = (CntMod - 1 - c + n) % CntMod
    BY <1>4 DEF Skipped
  <2> DEFINE y == CntMod - 1 - c + n
             z == x + n - c - 1
  <2>2. y \in Int /\ z \in Int /\ x + y = z + 1 * CntMod
    BY <1>0, <1>1
  <2>3. Skipped(c, n) = y % CntMod
    BY <2>1
  <2> HIDE DEF y, z
  <2>4. (x + (y % CntMod)) % CntMod = (x + y) % CntMod
    BY <1>0, <1>1, <2>2, ModSum
  <2>5. (z + 1 * CntMod) % CntMod = z % CntMod
    BY <1>0, <2>2, ModPlusMultiple
  <2>6. (x + Skipped(c, n)) % CntMod = z % CntMod
    BY <2>2, <2>3, <2>4, <2>5
  <2> QED
    BY <2>6 DEF z
<1>5. CASE ~(n > 0 /\ n > Bump(c)) /\ ~(c > n)
  <2>1. Skipped(c, n) = 0
    BY <1>5 DEF Skipped
  <2>2. n = c + 1
    BY <1>0, <1>1, <1>2, <1>5
  <2>3. x + n - c - 1 = x + 0
    BY <1>1, <2>2
  <2> QED
    BY <2>1, <2>3
<1>6. QED
  BY <1>3, <1>4, <1>5

\* The number of skipped packets is a counter.
LEMMA SkippedType ==
  ASSUME NEW c \in Counters, NEW n \in Counters
  PROVE  Skipped(c, n) \in Counters
<1>0. CntMod \in Int /\ CntMod > 1 /\ 0 \in Counters
  BY PacketAssumption DEF Counters
<1>1. n - c - 1 \in Int /\ CntMod - 1 - c + n \in Int
  BY <1>0 DEF Counters
<1>2. (n - c - 1) % CntMod \in Counters /\ (CntMod - 1 - c + n) % CntMod \in Counters
  BY <1>0, <1>1 DEF Counters
<1>3. QED
  BY <1>0, <1>2 DEF Skipped

----------------------------------------------------------------------------
(* What the steps of one party leave alone.                                 *)

\* The constants are numbers.
LEMMA Numbers ==
  /\ NetDelay \in Nat /\ RxCap \in Nat /\ RecvPoll \in Nat /\ Timeout \in Nat
  /\ MaxWait \in Nat /\ MaxAge \in Nat /\ MaxSilence \in Nat
<1>1. NetDelay \in Nat /\ RxCap \in Nat /\ RecvPoll \in Nat /\ Timeout \in Nat
  BY NetAssumption, RecvAssumption
<1>2. RxCap * RecvPoll \in Nat
  BY <1>1
<1>3. QED
  BY <1>1, <1>2 DEF MaxWait, MaxAge, MaxSilence

\* A packet that moves up gains one period of the receiving thread.
LEMMA WaitFacts ==
  ASSUME NEW i \in Int
  PROVE  /\ WaitAt(i) \in Int
         /\ WaitAt(i + 1) + RecvPoll = WaitAt(i)
         /\ WaitAt(1) + RecvPoll = MaxWait
         /\ i <= RxCap => NetDelay <= WaitAt(i)
<1>1. NetDelay \in Int /\ RxCap \in Int /\ RecvPoll \in Int /\ RecvPoll >= 0
  BY Numbers
<1>2. (RxCap - i) * RecvPoll \in Int /\ (RxCap - (i + 1)) * RecvPoll \in Int
  BY <1>1
<1>3. (RxCap - (i + 1)) * RecvPoll + RecvPoll = (RxCap - i) * RecvPoll
  BY <1>1
<1>4. (RxCap - 1) * RecvPoll + RecvPoll = RxCap * RecvPoll /\ (RxCap - 1) * RecvPoll \in Int
  BY <1>1
<1>5. i <= RxCap => (RxCap - i) * RecvPoll >= 0
  <2>1. ASSUME NEW a \in Nat, NEW b \in Nat PROVE a * b >= 0
    OBVIOUS
  <2>2. i <= RxCap => RxCap - i \in Nat
    BY <1>1
  <2> QED
    BY <1>1, <2>1, <2>2
<1>6. WaitAt(i) \in Int
  BY <1>1, <1>2 DEF WaitAt
<1>7. WaitAt(i + 1) + RecvPoll = WaitAt(i)
  BY <1>1, <1>2, <1>3 DEF WaitAt
<1>8. WaitAt(1) + RecvPoll = MaxWait
  BY <1>1, <1>4 DEF WaitAt, MaxWait
<1>9. i <= RxCap => NetDelay <= WaitAt(i)
  BY <1>1, <1>2, <1>5 DEF WaitAt
<1>10. QED
  BY <1>6, <1>7, <1>8, <1>9

\* What a subscription that exists looks like.
LEMMA SubTypes ==
  ASSUME NEW s \in {NoSub} \cup Sub, s.on
  PROVE  /\ s \in Sub /\ s.ttg \in Int /\ s.timedOut \in BOOLEAN /\ s.invalid \in BOOLEAN
         /\ s.seqs \in Entries /\ s.cur \in Counters /\ s.missed \in Counters
         /\ s.data \in Data /\ s.age \in Nat
<1>1. s \in Sub
  BY DEF NoSub
<1>2. QED
  BY <1>1 DEF Sub

\* The types of the fields of the history.
LEMMA HistTypes ==
  ASSUME NEW h \in HistType
  PROVE  /\ h.good \in BOOLEAN /\ h.silence \in Nat /\ h.asked \in BOOLEAN
         /\ h.forgiven \in BOOLEAN /\ h.last \in {-1} \cup Counters
         /\ h.pp \in BOOLEAN /\ h.at \in {-1} \cup Counters
  BY DEF HistType

\* Steps that leave the subscription alone.
LEMMA SameSub ==
  ASSUME SubFacts, UNCHANGED <<sub, told, rwait>>,
         hist'.silence = hist.silence, hist'.asked = hist.asked,
         hist'.forgiven = hist.forgiven, hist'.last = hist.last,
         hist'.pp = hist.pp
  PROVE  SubFacts'
<1>1. TimerFollowsData'
  BY DEF SubFacts, TimerFollowsData, Subscribed
<1>2. TimerFollowsSilence'
  BY DEF SubFacts, TimerFollowsSilence, Subscribed
<1>3. TimeoutIsRevoked'
  BY DEF SubFacts, TimeoutIsRevoked, Subscribed
<1>4. CountersAgree'
  BY DEF SubFacts, CountersAgree, Subscribed
<1>5. QED
  BY <1>1, <1>2, <1>3, <1>4 DEF SubFacts

\* Losing a packet is noted in the history and changes nothing else of it.
LEMMA BrokenFacts ==
  ASSUME hist \in HistType
  PROVE  /\ Broken \in HistType /\ Broken.silence = hist.silence /\ Broken.asked = hist.asked
         /\ Broken.forgiven = hist.forgiven /\ Broken.last = hist.last
         /\ Broken.pp = hist.pp /\ Broken.at = hist.at
  BY DEF Broken, HistType

\* The packets in the buffer stay, in their order and with their age.
LEMMA SameRx ==
  ASSUME RxYoung, NEW q \in Seq(Pkt), Len(q) = Len(rx), DOMAIN q = DOMAIN rx,
         \A i \in DOMAIN rx : q[i].age = rx[i].age,
         rx' = q, UNCHANGED <<holder, rwait>>
  PROVE  RxYoung'
  BY DEF RxYoung, WaitAt

\* A packet joins the buffer at its end.
LEMMA ArriveRx ==
  ASSUME Typed, RxYoung, NEW q \in Seq(Pkt), Len(q) = Len(rx), DOMAIN q = DOMAIN rx,
         \A i \in DOMAIN rx : q[i].age = rx[i].age,
         NEW m \in Pkt, m.age <= NetDelay, Len(rx) < RxCap,
         rx' = q \o <<m>>, UNCHANGED <<holder, rwait>>
  PROVE  RxYoung' /\ rx' \in Seq(Pkt)
<1>1. Len(q) \in Nat /\ DOMAIN q = 1 .. Len(q)
  OBVIOUS
<1>2. rx' = Append(q, m)
  BY AppendIsConcat
<1>3. /\ rx' \in Seq(Pkt) /\ Len(rx') = Len(q) + 1
      /\ \A i \in 1 .. Len(q) : rx'[i] = q[i]
      /\ rx'[Len(q) + 1] = m
  <2> DEFINE r == Append(q, m)
  <2>1. /\ r \in Seq(Pkt) /\ Len(r) = Len(q) + 1
        /\ \A i \in 1 .. Len(q) : r[i] = q[i]
        /\ r[Len(q) + 1] = m
    BY AppendProperties
  <2>2. rx' = r
    BY <1>2
  <2> HIDE DEF r
  <2> QED
    BY <2>1, <2>2
<1> DEFINE late == IF holder = "recv" THEN RecvPoll ELSE rwait
<1>4. late \in Nat
  BY Numbers DEF Typed, TypeOK
<1>5. ASSUME NEW i \in 1 .. Len(q) + 1 PROVE rx'[i].age <= WaitAt(i) + late
  <2>1. CASE i \in 1 .. Len(q)
    BY <1>1, <1>3, <2>1 DEF RxYoung
  <2>2. CASE i = Len(q) + 1
    <3>1. NetDelay <= WaitAt(i) /\ WaitAt(i) \in Int
      BY <1>1, <2>2, WaitFacts, Numbers
    <3>2. m.age \in Nat
      BY PktTypes
    <3> HIDE DEF late
    <3> QED
      BY <1>3, <1>4, <2>2, <3>1, <3>2, Numbers
  <2> QED
    BY <1>1, <2>1, <2>2
<1>6. Len(rx') <= RxCap
  BY <1>1, <1>3, Numbers
<1>7. DOMAIN rx' = 1 .. Len(q) + 1
  BY <1>3
<1>8. QED
  BY <1>3, <1>5, <1>6, <1>7 DEF RxYoung, WaitAt

\* The first packet is read: it has not waited longer than MaxWait.
LEMMA ReadRx ==
  ASSUME Typed, RxYoung, holder \in {"recv", "get"}, rx # <<>>, rx' = Tail(rx),
         rwait' = rwait, holder' \in {holder, "none"}
  PROVE  /\ RxYoung' /\ rx' \in Seq(Pkt)
         /\ Head(rx) \in Pkt /\ Head(rx).age <= MaxWait
<1>0. rx \in Seq(Pkt) /\ rwait \in 0 .. RecvPoll
  BY DEF Typed, TypeOK
<1>1. /\ Head(rx) = rx[1] /\ Head(rx) \in Pkt /\ 1 \in DOMAIN rx
      /\ rx' \in Seq(Pkt) /\ Len(rx') = Len(rx) - 1
      /\ \A i \in DOMAIN rx' : i + 1 \in DOMAIN rx /\ rx'[i] = rx[i + 1]
  BY <1>0, TailFacts
<1> DEFINE late == IF holder = "recv" THEN RecvPoll ELSE rwait
<1>2. late \in Int /\ late <= RecvPoll /\ late >= 0 /\ RecvPoll \in Int /\ MaxWait \in Int
  BY <1>0, Numbers
<1>3. Head(rx).age <= MaxWait
  <2>1. rx[1].age <= WaitAt(1) + late
    BY <1>1 DEF RxYoung
  <2>2. rx[1].age \in Nat /\ 1 \in Int
    BY <1>1, PktTypes
  <2>3. WaitAt(1) \in Int /\ WaitAt(1) + RecvPoll = MaxWait
    BY <2>2, WaitFacts
  <2> HIDE DEF late
  <2> QED
    BY <1>1, <1>2, <2>1, <2>2, <2>3
<1>4. Len(rx) <= RxCap /\ Len(rx) \in Nat /\ Len(rx') <= RxCap
  BY <1>0, <1>1, Numbers DEF RxYoung
<1> DEFINE after == IF holder' = "recv" THEN RecvPoll ELSE rwait
<1>5. ASSUME NEW i \in DOMAIN rx' PROVE rx'[i].age <= WaitAt(i) + after
  <2>1. rx'[i] = rx[i + 1] /\ i + 1 \in DOMAIN rx /\ i \in Int
    BY <1>0, <1>1
  <2>2. rx[i + 1].age <= WaitAt(i + 1) + late
    BY <2>1 DEF RxYoung
  <2>3. WaitAt(i + 1) \in Int /\ WaitAt(i) \in Int /\ WaitAt(i + 1) + RecvPoll = WaitAt(i)
    BY <2>1, WaitFacts
  <2>4. rx[i + 1].age \in Int
    BY <1>0, <2>1, ElementOfSeq, PktTypes
  <2>5. after \in Int /\ late <= RecvPoll + after
    BY <1>0, <1>2, Numbers
  <2> HIDE DEF late, after
  <2> QED
    BY <1>2, <2>1, <2>2, <2>3, <2>4, <2>5
<1>6. RxYoung'
  BY <1>4, <1>5 DEF RxYoung, WaitAt
<1>7. QED
  BY <1>1, <1>3, <1>6

----------------------------------------------------------------------------
(* The publisher and the network.                                           *)

\* A new packet is on its way.
LEMMA TransmitFacts ==
  ASSUME net \in Seq(Pkt), NetYoung, NEW type \in Types, NEW s \in Counters, NEW d \in Data,
         NEW o \in {-1} \cup Counters, Transmit(type, s, d, o)
  PROVE  net' \in Seq(Pkt) /\ NetYoung'
<1> DEFINE m == [type |-> type, seq |-> s, data |-> d, ok |-> TRUE, age |-> 0, live |-> TRUE,
                 no |-> o]
           n == Append(net, m)
<1>1. m \in Pkt /\ m.age = 0
  BY DEF Pkt
<1>2. net' = n
  BY DEF Transmit
<1> HIDE DEF m
<1>3. /\ n \in Seq(Pkt) /\ Len(n) = Len(net) + 1
      /\ \A i \in 1 .. Len(net) : n[i] = net[i]
      /\ n[Len(net) + 1] = m
  BY <1>1, AppendProperties
<1> HIDE DEF n
<1>4. DOMAIN n = 1 .. Len(net) + 1 /\ DOMAIN net = 1 .. Len(net) /\ Len(net) \in Nat
  BY <1>3
<1>5. ASSUME NEW i \in DOMAIN n PROVE n[i].age <= NetDelay
  <2>1. CASE i \in 1 .. Len(net)
    BY <1>3, <1>4, <2>1 DEF NetYoung
  <2>2. CASE i = Len(net) + 1
    BY <1>1, <1>3, <2>2, Numbers
  <2> QED
    BY <1>4, <2>1, <2>2
<1>6. QED
  BY <1>2, <1>3, <1>5 DEF NetYoung

LEMMA PubPdInv == ASSUME SubInv, PubPd PROVE SubInv'
<1>0. Typed /\ TypeOK /\ NetYoung /\ net \in Seq(Pkt)
  BY DEF SubInv, Typed, TypeOK
<1>1. /\ UNCHANGED <<sub, rx, rwait, holder, blocking, told, pr, hist>>
      /\ up' = TRUE /\ gap' = 0 /\ seq' = (seq + 1) % Modulus
  BY DEF PubPd, SourcePd, recvVars
<1>2. seq' \in Counters
  <2>1. Modulus \in Int /\ Modulus > 0 /\ Modulus = CntMod
    BY NetAssumption, SourceAssumption
  <2>2. seq + 1 \in Int
    BY <1>0, <2>1 DEF TypeOK, Counters
  <2> QED
    BY <1>1, <2>1, <2>2 DEF Counters
<1>3. PICK d \in Data : Transmit("PD", seq', d, seq')
  BY DEF PubPd
<1>4. net' \in Seq(Pkt) /\ NetYoung'
  BY <1>0, <1>2, <1>3, TransmitFacts DEF Types
<1>5. gap' \in 0 .. MaxGap
  BY <1>1, SourceAssumption
<1>6. TypeOK'
  BY <1>0, <1>1, <1>2, <1>4, <1>5 DEF TypeOK
<1>7. Typed' /\ RxYoung'
  BY <1>0, <1>1, <1>6 DEF Typed, Subscribed, SubInv, RxYoung, WaitAt
<1>8. SubFacts'
  BY <1>1, SameSub DEF SubInv
<1>9. QED
  BY <1>4, <1>7, <1>8 DEF SubInv

LEMMA PubPpInv == ASSUME SubInv, PubPp PROVE SubInv'
<1>0. Typed /\ TypeOK /\ NetYoung /\ net \in Seq(Pkt)
  BY DEF SubInv, Typed, TypeOK
<1>1. UNCHANGED <<sub, rx, rwait, holder, blocking, told, hist, up, gap, seq>> /\ pr' = FALSE
  BY DEF PubPp, SourcePp, recvVars, sourceVars
<1>2. PICK d \in Data, s \in Counters : Transmit("PP", s, d, -1)
  BY DEF PubPp
<1>3. net' \in Seq(Pkt) /\ NetYoung'
  BY <1>0, <1>2, TransmitFacts DEF Types
<1>4. TypeOK'
  BY <1>0, <1>1, <1>3 DEF TypeOK
<1>5. Typed' /\ RxYoung'
  BY <1>0, <1>1, <1>4 DEF Typed, Subscribed, SubInv, RxYoung, WaitAt
<1>6. SubFacts'
  BY <1>1, SameSub DEF SubInv
<1>7. QED
  BY <1>3, <1>5, <1>6 DEF SubInv

\* Marking what is on its way leaves it as young as it is.
LEMMA OldNet ==
  ASSUME NEW q \in Seq(Pkt), \A i \in DOMAIN q : q[i].age <= NetDelay, net' = Old(q)
  PROVE  net' \in Seq(Pkt) /\ NetYoung'
<1> DEFINE n == Old(q)
<1>1. n \in Seq(Pkt) /\ DOMAIN n = DOMAIN q /\ \A i \in DOMAIN q : n[i].age = q[i].age
  BY OldFacts
<1>2. net' = n
  OBVIOUS
<1> HIDE DEF n
<1>3. \A i \in DOMAIN n : n[i].age <= NetDelay
  BY <1>1
<1>4. QED
  BY <1>1, <1>2, <1>3 DEF NetYoung

\* So does marking what comes from a publisher that stopped.
LEMMA FormerNet ==
  ASSUME NEW q \in Seq(Pkt), \A i \in DOMAIN q : q[i].age <= NetDelay, net' = Former(q)
  PROVE  net' \in Seq(Pkt) /\ NetYoung'
<1> DEFINE n == Former(q)
<1>1. n \in Seq(Pkt) /\ DOMAIN n = DOMAIN q /\ \A i \in DOMAIN q : n[i].age = q[i].age
  BY FormerFacts
<1>2. net' = n
  OBVIOUS
<1> HIDE DEF n
<1>3. \A i \in DOMAIN n : n[i].age <= NetDelay
  BY <1>1
<1>4. QED
  BY <1>1, <1>2, <1>3 DEF NetYoung

\* What a stop of the publisher changes in the history.
LEMMA DownFacts ==
  ASSUME hist \in HistType
  PROVE  LET h == [Broken EXCEPT !.at = -1]
         IN  /\ h \in HistType /\ h.silence = hist.silence /\ h.asked = hist.asked
             /\ h.forgiven = hist.forgiven /\ h.last = hist.last /\ h.pp = hist.pp
             /\ h.at = -1 /\ ~h.good
  BY DEF Broken, HistType

LEMMA PubDownInv == ASSUME SubInv, PubDown PROVE SubInv'
<1>0. Typed /\ TypeOK /\ NetYoung /\ net \in Seq(Pkt) /\ rx \in Seq(Pkt) /\ hist \in HistType
  BY DEF SubInv, Typed, TypeOK
<1>1. /\ UNCHANGED <<sub, rwait, holder, blocking, told, pr>>
      /\ net' = Former(net) /\ rx' = Former(rx) /\ hist' = [Broken EXCEPT !.at = -1]
      /\ up' = FALSE /\ gap' = 0 /\ seq' \in Values
  BY DEF PubDown, SourceDown
<1>2. seq' \in Counters /\ gap' \in 0 .. MaxGap
  BY <1>1, NetAssumption, SourceAssumption DEF Values, Counters
<1>3. net' \in Seq(Pkt) /\ NetYoung'
  BY <1>0, <1>1, FormerNet DEF NetYoung
<1>4. /\ Former(rx) \in Seq(Pkt) /\ Len(Former(rx)) = Len(rx) /\ DOMAIN Former(rx) = DOMAIN rx
      /\ \A i \in DOMAIN rx : Former(rx)[i].age = rx[i].age
      /\ rx = <<>> => Former(rx) = <<>>
  BY <1>0, FormerFacts
<1>5. RxYoung'
  BY <1>1, <1>4, SameRx DEF SubInv
<1>9. /\ hist' \in HistType /\ hist'.silence = hist.silence /\ hist'.asked = hist.asked
      /\ hist'.forgiven = hist.forgiven /\ hist'.last = hist.last /\ hist'.pp = hist.pp
  BY <1>0, <1>1, DownFacts
<1>6. Typed'
  BY <1>0, <1>1, <1>2, <1>3, <1>4, <1>9 DEF Typed, TypeOK, Subscribed
<1>7. SubFacts'
  BY <1>1, <1>9, SameSub DEF SubInv
<1>8. QED
  BY <1>3, <1>5, <1>6, <1>7 DEF SubInv

\* What the network does to the packets, and what it leaves alone: the packets q
\* that were in the buffer are followed by m, and net is still young.
LEMMA ArriveInv ==
  ASSUME SubInv, NEW q \in Seq(Pkt), Len(q) = Len(rx), DOMAIN q = DOMAIN rx,
         \A i \in DOMAIN rx : q[i].age = rx[i].age, rx = <<>> => q = <<>>,
         NEW m \in Seq(Pkt), m = <<>> \/ (\E p \in Pkt : m = <<p>> /\ p.age <= NetDelay),
         Arrive(q, m), net' \in Seq(Pkt), NetYoung', hist' = hist \/ hist' = Broken
  PROVE  SubInv'
<1>0. Typed /\ TypeOK /\ RxYoung /\ hist \in HistType
  BY DEF SubInv, Typed
<1>1. /\ m # <<>> => Subscribed /\ Len(rx) < RxCap
      /\ rx' = q \o m
      /\ UNCHANGED <<up, gap, seq, sub, rwait, holder, blocking, told, pr>>
  BY DEF Arrive, sourceVars
<1>2. RxYoung' /\ rx' \in Seq(Pkt) /\ (~Subscribed => rx' = <<>>)
  <2>1. CASE m = <<>>
    <3>1. rx' = q
      BY <1>1, <2>1, ConcatEmptySeq
    <3> QED
      BY <1>0, <1>1, <3>1, SameRx DEF Typed
  <2>2. CASE m # <<>>
    <3>1. PICK p \in Pkt : m = <<p>> /\ p.age <= NetDelay
      BY <2>2
    <3>2. rx' = q \o <<p>> /\ Len(rx) < RxCap /\ Subscribed
      BY <1>1, <2>2, <3>1
    <3> QED
      BY <1>0, <1>1, <3>1, <3>2, ArriveRx
  <2> QED
    BY <2>1, <2>2
<1>3. hist' \in HistType
  BY <1>0, BrokenFacts
<1>4. Typed'
  BY <1>0, <1>1, <1>2, <1>3 DEF Typed, TypeOK, Subscribed
<1>5. SubFacts'
  <2>1. /\ hist'.silence = hist.silence /\ hist'.asked = hist.asked
        /\ hist'.forgiven = hist.forgiven /\ hist'.last = hist.last
        /\ hist'.pp = hist.pp
    BY <1>0, BrokenFacts
  <2> QED
    BY <1>1, <2>1, SameSub DEF SubInv
<1>6. QED
  BY <1>2, <1>4, <1>5 DEF SubInv

LEMMA NetworkInv == ASSUME SubInv, Deliver \/ Lose \/ Twice \/ Damage PROVE SubInv'
<1>0. Typed /\ NetYoung /\ net \in Seq(Pkt) /\ rx \in Seq(Pkt) /\ Movable \subseteq DOMAIN net
  BY DEF SubInv, Typed, TypeOK, Movable
<1>1. /\ Old(rx) \in Seq(Pkt) /\ Len(Old(rx)) = Len(rx) /\ DOMAIN Old(rx) = DOMAIN rx
      /\ \A i \in DOMAIN rx : Old(rx)[i].age = rx[i].age
      /\ rx = <<>> => Old(rx) = <<>>
  BY <1>0, OldFacts
<1>2. ASSUME NEW i \in Movable
      PROVE  /\ net[i] \in Pkt /\ net[i].age <= NetDelay
             /\ <<net[i]>> \in Seq(Pkt)
             /\ RemoveAt(net, i) \in Seq(Pkt)
             /\ \A j \in DOMAIN RemoveAt(net, i) : RemoveAt(net, i)[j].age <= NetDelay
  <2>1. i \in DOMAIN net /\ DOMAIN net = 1 .. Len(net)
    BY <1>0
  <2>2. net[i] \in Pkt /\ net[i].age <= NetDelay
    BY <1>0, <2>1, ElementOfSeq DEF NetYoung
  <2>3. RemoveAt(net, i) \in Seq(Pkt)
    BY <1>0, <2>1, RemoveAtFacts
  <2>4. ASSUME NEW j \in DOMAIN RemoveAt(net, i) PROVE RemoveAt(net, i)[j].age <= NetDelay
    <3>1. PICK k \in DOMAIN net : RemoveAt(net, i)[j] = net[k]
      BY <1>0, <2>1, RemoveAtFacts
    <3> QED
      BY <1>0, <3>1 DEF NetYoung
  <2> QED
    BY <2>2, <2>3, <2>4
<1>3. CASE Deliver
  <2>1. PICK i \in Movable : Arrive(rx, <<net[i]>>) /\ net' = RemoveAt(net, i) /\ hist' = hist
    BY <1>3 DEF Deliver
  <2>2. net' \in Seq(Pkt) /\ NetYoung'
    BY <1>2, <2>1 DEF NetYoung
  <2> QED
    BY <1>0, <1>2, <2>1, <2>2, ArriveInv
<1>4. CASE Twice
  <2>1. PICK i \in Movable : Arrive(rx, <<net[i]>>) /\ net' = net /\ hist' = hist
    BY <1>4 DEF Twice
  <2>2. net' \in Seq(Pkt) /\ NetYoung'
    BY <1>0, <2>1 DEF NetYoung
  <2> QED
    BY <1>0, <1>2, <2>1, <2>2, ArriveInv
<1>5. CASE Damage
  <2>1. PICK i \in Movable : /\ Arrive(Old(rx), <<[net[i] EXCEPT !.ok = FALSE]>>)
                             /\ net' = Old(RemoveAt(net, i)) /\ hist' = Broken
    BY <1>5 DEF Damage
  <2> DEFINE p == [net[i] EXCEPT !.ok = FALSE]
  <2>2. p \in Pkt /\ p.age = net[i].age
    BY <1>2 DEF Pkt
  <2>3. net' \in Seq(Pkt) /\ NetYoung'
    BY <1>2, <2>1, OldNet
  <2>4. Arrive(Old(rx), <<p>>) /\ p.age <= NetDelay
    BY <1>2, <2>1, <2>2
  <2> HIDE DEF p
  <2>5. <<p>> \in Seq(Pkt)
    BY <2>2
  <2> QED
    BY <1>1, <2>1, <2>2, <2>3, <2>4, <2>5, ArriveInv
<1>6. CASE Lose
  <2>1. PICK i \in Movable : /\ Arrive(Old(rx), <<>>)
                             /\ net' = Old(RemoveAt(net, i)) /\ hist' = Broken
    BY <1>6 DEF Lose
  <2>2. net' \in Seq(Pkt) /\ NetYoung'
    BY <1>2, <2>1, OldNet
  <2>3. <<>> \in Seq(Pkt)
    BY EmptySeq
  <2> QED
    BY <1>1, <2>1, <2>2, <2>3, ArriveInv
<1>7. QED
  BY <1>3, <1>4, <1>5, <1>6

LEMMA LosePrInv == ASSUME SubInv, LosePr PROVE SubInv'
<1>1. UNCHANGED <<up, gap, seq, sub, rx, rwait, holder, blocking, told, net, hist>> /\ pr' = FALSE
  BY DEF LosePr, sourceVars, recvVars
<1>2. Typed' /\ NetYoung' /\ RxYoung'
  BY <1>1 DEF SubInv, Typed, TypeOK, Subscribed, NetYoung, RxYoung, WaitAt
<1>3. SubFacts'
  BY <1>1, SameSub DEF SubInv
<1>4. QED
  BY <1>2, <1>3 DEF SubInv

----------------------------------------------------------------------------
(* The subscriber.                                                          *)

\* The history of a subscription starts with nothing.
LEMMA NoHistFacts ==
  /\ NoHist \in HistType /\ NoHist.silence = 0 /\ ~NoHist.asked /\ ~NoHist.forgiven
  /\ NoHist.last = -1 /\ NoHist.at = -1 /\ ~NoHist.pp
<1>1. 0 \in Counters
  BY PacketAssumption DEF Counters
<1>2. QED
  BY <1>1 DEF NoHist, HistType

LEMMA PSubscribeInv == ASSUME SubInv, PSubscribe PROVE SubInv'
<1>0. Typed /\ TypeOK /\ rwait \in 0 .. RecvPoll /\ ~Subscribed
  BY DEF SubInv, Typed, TypeOK, PSubscribe, Subscribe
<1>1. /\ UNCHANGED <<up, gap, seq, rx, rwait, holder, blocking, net, pr>>
      /\ told' = "none" /\ hist' = NoHist
      /\ sub' = [on |-> TRUE, ttg |-> Timeout, timedOut |-> FALSE, invalid |-> TRUE,
                 seqs |-> [k \in Types |-> -1], cur |-> 0, missed |-> 0,
                 data |-> 0, age |-> 0]
  BY DEF PSubscribe, Subscribe, sourceVars
<1>2. sub' \in Sub
  <2>1. 0 \in Counters /\ 0 \in Data /\ Timeout \in Int
    BY PacketAssumption, Numbers DEF Counters
  <2>2. [k \in Types |-> -1] \in Entries
    BY DEF Entries
  <2> QED
    BY <1>1, <2>1, <2>2 DEF Sub
<1>3. Typed'
  BY <1>0, <1>1, <1>2, NoHistFacts DEF Typed, TypeOK, Subscribed
<1>4. NetYoung' /\ RxYoung'
  BY <1>1 DEF SubInv, NetYoung, RxYoung, WaitAt
<1>5. /\ sub'.invalid /\ sub'.ttg = Timeout /\ sub'.cur = 0 /\ sub'.missed = 0
      /\ sub'.seqs["PD"] = -1 /\ sub'.seqs["PP"] = -1
  BY <1>1 DEF Types
<1>6. TimerFollowsData' /\ TimeoutIsRevoked'
  BY <1>1, <1>5 DEF TimerFollowsData, TimeoutIsRevoked
<1>7. TimerFollowsSilence'
  BY <1>0, <1>1, <1>5, NoHistFacts, Numbers DEF TimerFollowsSilence
<1>8. CountersAgree'
  BY <1>1, <1>5, NoHistFacts DEF CountersAgree
<1>9. QED
  BY <1>3, <1>4, <1>6, <1>7, <1>8 DEF SubInv, SubFacts

LEMMA PUnsubscribeInv == ASSUME SubInv, PUnsubscribe PROVE SubInv'
<1>0. Typed /\ TypeOK /\ NetYoung /\ holder = "none"
  BY DEF SubInv, Typed, PUnsubscribe, Unsubscribe
<1>1. /\ UNCHANGED <<up, gap, seq, rwait, holder, blocking, net, pr>>
      /\ told' = "none" /\ hist' = NoHist /\ sub' = NoSub /\ rx' = <<>>
  BY DEF PUnsubscribe, Unsubscribe, sourceVars
<1>2. rx' \in Seq(Pkt) /\ Len(rx') = 0 /\ DOMAIN rx' = {}
  BY <1>1, EmptySeq
<1>3. ~Subscribed'
  BY <1>1 DEF Subscribed, NoSub
<1>4. Typed'
  BY <1>0, <1>1, <1>2, NoHistFacts DEF Typed, TypeOK
<1>5. NetYoung' /\ RxYoung'
  BY <1>0, <1>1, <1>2, Numbers DEF NetYoung, RxYoung
<1>6. SubFacts'
  BY <1>3 DEF SubFacts, TimerFollowsData, TimerFollowsSilence, TimeoutIsRevoked, CountersAgree
<1>7. QED
  BY <1>4, <1>5, <1>6 DEF SubInv

LEMMA PRequestInv == ASSUME SubInv, PRequest PROVE SubInv'
<1>0. /\ Typed /\ TypeOK /\ Subscribed /\ sub \in Sub /\ hist \in HistType
      /\ sub.timedOut \in BOOLEAN /\ rwait \in 0 .. RecvPoll
  BY SubTypes DEF SubInv, Typed, TypeOK, PRequest, Request, Subscribed
<1>1. /\ UNCHANGED <<up, gap, seq, rx, rwait, holder, blocking, told, net>> /\ pr' = TRUE
      /\ sub' = IF HasTimer THEN [sub EXCEPT !.ttg = Timeout, !.timedOut = FALSE] ELSE sub
      /\ hist' = [hist EXCEPT !.silence = 0, !.asked = TRUE,
                              !.forgiven = @ \/ sub.timedOut]
  BY DEF PRequest, Request, sourceVars
<1>2. /\ sub' \in Sub /\ sub'.on
      /\ sub'.seqs = sub.seqs /\ sub'.cur = sub.cur /\ sub'.missed = sub.missed
      /\ HasTimer => sub'.ttg = Timeout /\ ~sub'.timedOut
      /\ ~HasTimer => sub' = sub
  <2>1. Timeout \in Int
    BY Numbers
  <2> QED
    BY <1>0, <1>1, <2>1 DEF Sub
<1>3. /\ hist' \in HistType /\ hist'.silence = 0 /\ hist'.asked
      /\ hist'.forgiven = (hist.forgiven \/ sub.timedOut)
      /\ hist'.last = hist.last /\ hist'.pp = hist.pp
  BY <1>0, <1>1 DEF HistType
<1>4. Typed'
  BY <1>0, <1>1, <1>2, <1>3 DEF Typed, TypeOK, Subscribed
<1>5. NetYoung' /\ RxYoung'
  BY <1>1 DEF SubInv, NetYoung, RxYoung, WaitAt
<1>6. TimerFollowsData'
  BY <1>3 DEF TimerFollowsData
<1>7. TimerFollowsSilence'
  BY <1>0, <1>1, <1>2, <1>3, Numbers DEF TimerFollowsSilence
<1>8. TimeoutIsRevoked'
  BY <1>0, <1>1, <1>2, <1>3 DEF SubInv, SubFacts, TimeoutIsRevoked, Subscribed
<1>9. CountersAgree'
  BY <1>0, <1>2, <1>3 DEF SubInv, SubFacts, CountersAgree, Subscribed
<1>10. QED
  BY <1>4, <1>5, <1>6, <1>7, <1>8, <1>9 DEF SubInv, SubFacts

LEMMA PProcessRecvInv == ASSUME SubInv, PProcessRecv PROVE SubInv'
<1>0. /\ Typed /\ TypeOK /\ RxYoung /\ SubFacts /\ hist \in HistType
      /\ rx \in Seq(Pkt) /\ rwait \in 0 .. RecvPoll
  BY DEF SubInv, Typed, TypeOK
<1>1. /\ UNCHANGED <<up, gap, seq, rx, blocking, net, pr>> /\ holder = "none"
      /\ rwait' = 0 /\ holder' = IF Readable THEN "recv" ELSE "none"
      /\ sub' = IF Late THEN [sub EXCEPT !.timedOut = TRUE] ELSE sub
      /\ told' = IF Late THEN "timeout" ELSE told
      /\ hist' = IF Late THEN [hist EXCEPT !.forgiven = FALSE] ELSE hist
  BY DEF PProcessRecv, ProcessRecv, sourceVars
<1>2. /\ hist' \in HistType /\ hist'.silence = hist.silence /\ hist'.asked = hist.asked
      /\ hist'.last = hist.last /\ hist'.pp = hist.pp
      /\ ~Late => hist' = hist
  BY <1>0, <1>1 DEF HistType
<1>3. /\ Late => sub' \in Sub /\ sub'.timedOut
      /\ Subscribed => /\ sub'.ttg = sub.ttg /\ sub'.invalid = sub.invalid
                       /\ sub'.seqs = sub.seqs /\ sub'.cur = sub.cur
                       /\ sub'.missed = sub.missed /\ sub'.age = sub.age
      /\ Subscribed' = Subscribed
      /\ ~Late => sub' = sub
  <2>1. CASE Late
    <3>1. sub \in Sub
      BY <1>0, <2>1, SubTypes DEF TypeOK, Late, Subscribed
    <3> QED
      BY <1>1, <2>1, <3>1 DEF Sub, Late, Subscribed
  <2>2. CASE ~Late
    BY <1>1, <2>2 DEF Subscribed
  <2> QED
    BY <2>1, <2>2
<1>4. Typed'
  <2>1. sub' \in {NoSub} \cup Sub /\ told' \in {"none", "data", "timeout"}
        /\ holder' \in {"none", "recv", "get"} /\ rwait' \in 0 .. RecvPoll
    BY <1>0, <1>1, <1>3, Numbers DEF TypeOK
  <2>2. TypeOK'
    BY <1>0, <1>1, <2>1 DEF TypeOK
  <2>3. ~Subscribed' => rx' = <<>> /\ holder' = "none"
    BY <1>0, <1>1, <1>3 DEF Typed, Readable
  <2> QED
    BY <1>2, <2>2, <2>3 DEF Typed
<1>5. NetYoung'
  BY <1>1 DEF SubInv, NetYoung
<1>6. RxYoung'
  <2>1. CASE rx = <<>>
    BY <1>0, <1>1, <2>1, EmptySeq DEF RxYoung
  <2>2. CASE rx # <<>>
    <3>1. holder' = "recv"
      BY <1>0, <1>1, <2>2 DEF Typed, Readable
    <3>2. ASSUME NEW i \in DOMAIN rx PROVE rx[i].age <= WaitAt(i) + RecvPoll
      <4>1. rx[i].age <= WaitAt(i) + rwait
        BY <1>0, <1>1 DEF RxYoung
      <4>2. i \in Int /\ rx[i] \in Pkt
        BY <1>0, ElementOfSeq
      <4>3. rx[i].age \in Int /\ WaitAt(i) \in Int
        BY <4>2, PktTypes, WaitFacts
      <4> QED
        BY <1>0, <4>1, <4>3, Numbers
    <3> QED
      BY <1>0, <1>1, <3>1, <3>2 DEF RxYoung, WaitAt
  <2> QED
    BY <2>1, <2>2
<1>7. TimerFollowsData'
  BY <1>0, <1>2, <1>3 DEF SubFacts, TimerFollowsData
<1>8. TimerFollowsSilence'
  <2>1. CASE Late
    BY <1>3, <2>1 DEF TimerFollowsSilence
  <2>2. CASE ~Late
    <3> SUFFICES ASSUME Subscribed', HasTimer, ~sub'.timedOut
                 PROVE  /\ hist'.silence <= Timeout + rwait'
                        /\ sub'.ttg >= 0 => hist'.silence + sub'.ttg <= Timeout
      BY DEF TimerFollowsSilence
    <3>1. Subscribed /\ sub' = sub /\ ~sub.timedOut
      BY <1>3, <2>2
    <3>2. sub.ttg \in Int /\ hist.silence \in Nat
      BY <1>0, <3>1, SubTypes, HistTypes DEF TypeOK, Subscribed
    <3>3. sub.ttg > 0
      BY <2>2, <3>1, <3>2 DEF Late
    <3>4. hist.silence + sub.ttg <= Timeout
      BY <1>0, <3>1, <3>2, <3>3 DEF SubFacts, TimerFollowsSilence
    <3> QED
      BY <1>1, <1>2, <3>1, <3>2, <3>3, <3>4, Numbers
  <2> QED
    BY <2>1, <2>2
<1>9. TimeoutIsRevoked'
  BY <1>0, <1>1, <1>2, <1>3 DEF SubFacts, TimeoutIsRevoked
<1>10. CountersAgree'
  BY <1>0, <1>2, <1>3 DEF SubFacts, CountersAgree
<1>11. QED
  BY <1>4, <1>5, <1>6, <1>7, <1>8, <1>9, <1>10 DEF SubInv, SubFacts

\* A packet that is read and not taken over, or the end of the receive loop.
LEMMA ReadNothingInv ==
  ASSUME SubInv, UNCHANGED <<up, gap, seq, sub, rwait, blocking, told, net, pr>>,
         Subscribed, hist' = hist \/ hist' = Broken,
         \/ holder = "none" /\ holder' = "get" /\ rx' = rx
         \/ /\ holder \in {"recv", "get"} /\ holder' \in {holder, "none"}
            /\ rx # <<>> /\ rx' = Tail(rx)
         \/ rx = <<>> /\ rx' = rx /\ holder' = "none"
  PROVE  SubInv'
<1>0. Typed /\ TypeOK /\ RxYoung /\ hist \in HistType /\ rx \in Seq(Pkt)
  BY DEF SubInv, Typed, TypeOK
<1>1. hist' \in HistType
  BY <1>0, BrokenFacts
<1>2. rx' \in Seq(Pkt) /\ RxYoung'
  <2>1. CASE holder = "none" /\ holder' = "get" /\ rx' = rx
    BY <1>0, <2>1 DEF RxYoung, WaitAt
  <2>2. CASE /\ holder \in {"recv", "get"} /\ holder' \in {holder, "none"}
             /\ rx # <<>> /\ rx' = Tail(rx)
    BY <1>0, <2>2, ReadRx
  <2>3. CASE rx = <<>> /\ rx' = rx /\ holder' = "none"
    BY <1>0, <2>3, EmptySeq DEF RxYoung
  <2> QED
    BY <2>1, <2>2, <2>3
<1>3. Typed'
  BY <1>0, <1>1, <1>2 DEF Typed, TypeOK, Subscribed
<1>4. NetYoung'
  BY DEF SubInv, NetYoung
<1>5. SubFacts'
  <2>1. /\ hist'.silence = hist.silence /\ hist'.asked = hist.asked
        /\ hist'.forgiven = hist.forgiven /\ hist'.last = hist.last
        /\ hist'.pp = hist.pp
    BY <1>0, BrokenFacts
  <2> QED
    BY <2>1, SameSub DEF SubInv
<1>6. QED
  BY <1>2, <1>3, <1>4, <1>5 DEF SubInv

LEMMA QuietInv == ASSUME SubInv, PQuiet \/ PDropped PROVE SubInv'
<1>0. ~Subscribed => holder = "none"
  BY DEF SubInv, Typed
<1>1. /\ UNCHANGED <<up, gap, seq, sub, rwait, blocking, told, net, pr>>
      /\ hist' = hist \/ hist' = Broken
  BY DEF PQuiet, PDropped, Get, ReadDuplicate, ReadEmpty, ReadCorrupt, ReadNoMem, sourceVars
<1>2. Subscribed
  BY <1>0 DEF PQuiet, PDropped, Get, ReadDuplicate, ReadEmpty, ReadCorrupt, ReadNoMem
<1>3. \/ holder = "none" /\ holder' = "get" /\ rx' = rx
      \/ /\ holder \in {"recv", "get"} /\ holder' \in {holder, "none"}
         /\ rx # <<>> /\ rx' = Tail(rx)
      \/ rx = <<>> /\ rx' = rx /\ holder' = "none"
  BY DEF PQuiet, PDropped, Get, ReadDuplicate, ReadEmpty, ReadCorrupt, ReadNoMem, AfterRead
<1>4. QED
  BY <1>1, <1>2, <1>3, ReadNothingInv

\* What a packet that is taken over makes of the subscription.
LEMMA AcceptedFacts ==
  ASSUME sub \in Sub, NEW m \in Pkt
  PROVE  /\ Accepted(m) \in Sub /\ Accepted(m).on /\ Accepted(m).ttg = Timeout
         /\ ~Accepted(m).timedOut /\ Accepted(m).age = m.age /\ Accepted(m).cur = m.seq
         /\ Accepted(m).missed = (sub.missed + Skipped(sub.cur, m.seq)) % CntMod
         /\ Accepted(m).seqs[m.type] = m.seq
         /\ \A k \in Types \ {m.type} : Accepted(m).seqs[k] = sub.seqs[k]
<1>0. /\ m.type \in Types /\ m.seq \in Counters /\ m.data \in Data /\ m.age \in Nat
      /\ Timeout \in Int
  BY PktTypes, Numbers
<1>1. /\ sub.missed \in Counters /\ sub.cur \in Counters /\ sub.seqs \in Entries
      /\ Skipped(sub.cur, m.seq) \in Counters
  BY <1>0, SkippedType DEF Sub
<1> DEFINE new == (sub.missed + Skipped(sub.cur, m.seq)) % CntMod
           ent == [sub.seqs EXCEPT ![m.type] = m.seq]
<1>2. new \in Counters
  <2>1. CntMod \in Int /\ CntMod > 0
    BY PacketAssumption
  <2>2. sub.missed + Skipped(sub.cur, m.seq) \in Int
    BY <1>1, <2>1 DEF Counters
  <2> QED
    BY <2>1, <2>2 DEF Counters
<1>3. /\ ent \in Entries /\ ent[m.type] = m.seq
      /\ \A k \in Types \ {m.type} : ent[k] = sub.seqs[k]
  BY <1>0, <1>1 DEF Entries
<1>4. Accepted(m) = [sub EXCEPT !.seqs = ent, !.missed = new, !.cur = m.seq,
                                !.ttg = Timeout, !.timedOut = FALSE, !.invalid = FALSE,
                                !.data = m.data, !.age = m.age]
  BY <1>0, <1>1 DEF Accepted, Sub
<1>5. new = (sub.missed + Skipped(sub.cur, m.seq)) % CntMod
  OBVIOUS
<1> HIDE DEF new, ent
<1>6. QED
  BY <1>0, <1>2, <1>3, <1>4, <1>5 DEF Sub

LEMMA PReadAcceptInv == ASSUME SubInv, PReadAccept PROVE SubInv'
<1> DEFINE m == Head(rx)
           pd == m.type = "PD"
<1>0. /\ Typed /\ TypeOK /\ RxYoung /\ SubFacts /\ hist \in HistType
      /\ rx \in Seq(Pkt) /\ rwait \in 0 .. RecvPoll
  BY DEF SubInv, Typed, TypeOK
<1>1. /\ holder \in {"recv", "get"} /\ rx # <<>> /\ holder' \in {holder, "none"}
      /\ UNCHANGED <<up, gap, seq, rwait, blocking, net, pr>>
      /\ sub' = Accepted(m) /\ rx' = Tail(rx) /\ ~Duplicate(m)
      /\ told' = IF Informs(m) THEN "data" ELSE told
  BY DEF PReadAccept, ReadAccept, AfterRead, sourceVars
<1>2. hist' = [hist EXCEPT
           !.good = @ \/ (pd /\ m.live),
           !.silence = 0, !.asked = FALSE,
           !.forgiven = @ /\ ~Informs(m),
           !.last = IF pd THEN m.seq ELSE @,
           !.pp = @ \/ ~pd, !.at = m.no]
  BY DEF PReadAccept
<1>3. RxYoung' /\ rx' \in Seq(Pkt) /\ m \in Pkt /\ m.age <= MaxWait
  BY <1>0, <1>1, ReadRx
<1> HIDE DEF m
<1>4. /\ m.type \in Types /\ m.seq \in Counters /\ m.age \in Nat /\ m.live \in BOOLEAN
      /\ m.no \in {-1} \cup Counters
  BY <1>3, PktTypes
<1>5. Subscribed /\ sub \in Sub /\ sub.cur \in Counters /\ sub.missed \in Counters
  <2>1. Subscribed
    BY <1>0, <1>1 DEF Typed
  <2> QED
    BY <1>0, <2>1, SubTypes DEF TypeOK, Subscribed
<1>6. /\ sub' \in Sub /\ sub'.on /\ sub'.ttg = Timeout /\ ~sub'.timedOut
      /\ sub'.age = m.age /\ sub'.cur = m.seq
      /\ sub'.missed = (sub.missed + Skipped(sub.cur, m.seq)) % CntMod
      /\ sub'.seqs[m.type] = m.seq
      /\ \A k \in Types \ {m.type} : sub'.seqs[k] = sub.seqs[k]
  BY <1>1, <1>3, <1>5, AcceptedFacts
<1>7. CntMod \in Int /\ CntMod > 0 /\ 0 \in Counters
  BY PacketAssumption DEF Counters
<1>8. /\ hist.last \in {-1} \cup Counters
      /\ hist.pp \in BOOLEAN /\ hist.good \in BOOLEAN /\ hist.forgiven \in BOOLEAN
      /\ hist.silence \in Nat
  BY <1>0, HistTypes
<1>10. /\ hist' \in HistType /\ hist'.silence = 0 /\ ~hist'.asked
       /\ hist'.last = (IF pd THEN m.seq ELSE hist.last)
       /\ hist'.pp = (hist.pp \/ ~pd)
       /\ hist'.forgiven = (hist.forgiven /\ ~Informs(m))
  <2>1. hist' = [hist EXCEPT !.good = hist.good \/ (pd /\ m.live), !.silence = 0,
                             !.asked = FALSE, !.forgiven = hist.forgiven /\ ~Informs(m),
                             !.last = IF pd THEN m.seq ELSE hist.last,
                             !.pp = hist.pp \/ ~pd, !.at = m.no]
    BY <1>0, <1>2 DEF HistType
  <2>2. (hist.good \/ (pd /\ m.live)) \in BOOLEAN /\ (hist.forgiven /\ ~Informs(m)) \in BOOLEAN
        /\ (hist.pp \/ ~pd) \in BOOLEAN
    BY Zenon
  <2>3. (IF pd THEN m.seq ELSE hist.last) \in {-1} \cup Counters
    BY <1>4, <1>8
  <2> DEFINE g == hist.good \/ (pd /\ m.live)
             f == hist.forgiven /\ ~Informs(m)
             p == hist.pp \/ ~pd
             l == IF pd THEN m.seq ELSE hist.last
  <2>4. hist' = [hist EXCEPT !.good = g, !.silence = 0, !.asked = FALSE, !.forgiven = f,
                             !.last = l, !.pp = p, !.at = m.no]
        /\ g \in BOOLEAN /\ f \in BOOLEAN /\ p \in BOOLEAN /\ l \in {-1} \cup Counters
    BY <2>1, <2>2, <2>3
  <2>5. p = (hist.pp \/ ~pd) /\ f = (hist.forgiven /\ ~Informs(m))
        /\ l = (IF pd THEN m.seq ELSE hist.last)
    OBVIOUS
  <2> HIDE DEF g, f, p, l, pd
  <2>6. /\ hist' \in HistType /\ hist'.silence = 0 /\ ~hist'.asked
        /\ hist'.last = l /\ hist'.pp = p /\ hist'.forgiven = f
    BY <1>0, <1>4, <2>4 DEF HistType
  <2> QED
    BY <2>5, <2>6
<1>11. Typed'
  <2>1. TypeOK'
    BY <1>0, <1>1, <1>3, <1>6 DEF TypeOK
  <2> QED
    BY <1>6, <1>10, <2>1 DEF Typed, Subscribed
<1>12. NetYoung'
  BY <1>1 DEF SubInv, NetYoung
<1>13. TimerFollowsData'
  BY <1>3, <1>4, <1>6, Numbers DEF TimerFollowsData
<1>14. TimerFollowsSilence'
  BY <1>0, <1>1, <1>6, <1>10, Numbers DEF TimerFollowsSilence
<1>15. TimeoutIsRevoked'
  <2> SUFFICES ASSUME told' = "timeout" PROVE hist'.forgiven
    BY DEF TimeoutIsRevoked
  <2>1. ~Informs(m) /\ told = "timeout"
    BY <1>1
  <2>2. ~sub.timedOut
    BY <2>1 DEF Informs
  <2>3. hist.forgiven
    BY <1>0, <1>5, <2>1, <2>2 DEF SubFacts, TimeoutIsRevoked
  <2> QED
    BY <1>10, <2>1, <2>3
<1>16. CountersAgree'
  <2> SUFFICES ASSUME ~hist'.pp
               PROVE  /\ sub'.seqs["PD"] = hist'.last /\ sub'.seqs["PP"] = -1
                      /\ hist'.last # -1
                      /\ sub'.cur = hist'.last
    BY DEF CountersAgree
  <2>1. pd /\ ~hist.pp /\ hist'.last = m.seq
    BY <1>10
  <2>2. /\ sub.seqs["PD"] = hist.last /\ sub.seqs["PP"] = -1
        /\ hist.last = -1 => sub.cur = 0
        /\ hist.last # -1 => sub.cur = hist.last
    BY <1>0, <1>5, <2>1 DEF SubFacts, CountersAgree
  <2>3. sub'.seqs["PD"] = m.seq /\ sub'.seqs["PP"] = -1
    BY <1>6, <2>1, <2>2 DEF Types
  <2>4. m.seq # -1
    BY <1>4, <1>7 DEF Counters
  <2> QED
    BY <1>6, <1>10, <2>1, <2>3, <2>4
<1>17. QED
  BY <1>3, <1>11, <1>12, <1>13, <1>14, <1>15, <1>16 DEF SubInv, SubFacts

----------------------------------------------------------------------------
(* Time, and the specification.                                             *)

LEMMA TickInv == ASSUME SubInv, Tick PROVE SubInv'
<1>0. /\ Typed /\ TypeOK /\ NetYoung /\ RxYoung /\ SubFacts /\ hist \in HistType
      /\ rx \in Seq(Pkt) /\ net \in Seq(Pkt) /\ rwait \in 0 .. RecvPoll
  BY DEF SubInv, Typed, TypeOK
<1>1. /\ \A i \in DOMAIN net : net[i].age < NetDelay
      /\ holder = "none" /\ holder' = "none" /\ rwait < RecvPoll /\ rwait' = rwait + 1
      /\ UNCHANGED <<up, seq, blocking, told, pr>>
      /\ up => gap < MaxGap
      /\ gap' = IF up THEN gap + 1 ELSE 0
      /\ net' = [i \in DOMAIN net |-> [net[i] EXCEPT !.age = @ + 1]]
      /\ rx' = [i \in DOMAIN rx |-> [rx[i] EXCEPT !.age = IF @ < MaxAge THEN @ + 1 ELSE @]]
      /\ sub' = IF ~Subscribed THEN sub
                ELSE [sub EXCEPT !.ttg = IF HasTimer /\ @ >= 0 THEN @ - 1 ELSE @,
                                 !.age = IF @ < MaxAge THEN @ + 1 ELSE @]
      /\ hist' = [hist EXCEPT !.silence = IF @ < MaxSilence THEN @ + 1 ELSE @]
  BY DEF Tick, SourceTick, RecvTick
<1>2. net' \in Seq(Pkt) /\ NetYoung'
  <2>1. Len(net) \in Nat /\ DOMAIN net = 1 .. Len(net) /\ \A i \in 1 .. Len(net) : net[i] \in Pkt
    BY <1>0, ElementOfSeq
  <2>2. \A i \in 1 .. Len(net) : /\ [net[i] EXCEPT !.age = @ + 1] \in Pkt
                                 /\ [net[i] EXCEPT !.age = @ + 1].age = net[i].age + 1
                                 /\ net[i].age \in Nat
    BY <2>1 DEF Pkt
  <2> DEFINE n == [i \in 1 .. Len(net) |-> [net[i] EXCEPT !.age = @ + 1]]
  <2>3. net' = n /\ n \in Seq(Pkt) /\ DOMAIN n = 1 .. Len(net)
    BY <1>1, <2>1, <2>2
  <2>4. ASSUME NEW i \in 1 .. Len(net) PROVE n[i].age <= NetDelay
    <3>1. n[i].age = net[i].age + 1 /\ net[i].age \in Nat
      BY <2>2
    <3>2. net[i].age < NetDelay
      BY <1>1, <2>1
    <3> HIDE DEF n
    <3> QED
      BY <3>1, <3>2, Numbers
  <2> HIDE DEF n
  <2> QED
    BY <2>3, <2>4 DEF NetYoung
<1>3. rx' \in Seq(Pkt) /\ Len(rx') = Len(rx) /\ RxYoung'
  <2>1. Len(rx) \in Nat /\ DOMAIN rx = 1 .. Len(rx) /\ \A i \in 1 .. Len(rx) : rx[i] \in Pkt
    BY <1>0, ElementOfSeq
  <2> DEFINE old(p) == [p EXCEPT !.age = IF @ < MaxAge THEN @ + 1 ELSE @]
  <2>2. ASSUME NEW p \in Pkt
        PROVE  old(p) \in Pkt /\ old(p).age <= p.age + 1 /\ p.age \in Nat /\ old(p).age \in Nat
    BY Numbers DEF Pkt
  <2> DEFINE r == [i \in 1 .. Len(rx) |-> old(rx[i])]
  <2>3. rx' = r
    BY <1>1, <2>1
  <2>4. \A i \in 1 .. Len(rx) : r[i] = old(rx[i])
    OBVIOUS
  <2>5. \A i \in 1 .. Len(rx) : /\ r[i] \in Pkt /\ r[i].age <= rx[i].age + 1
                                /\ rx[i].age \in Nat /\ r[i].age \in Nat
    <3> HIDE DEF old, r
    <3> QED
      BY <2>1, <2>2, <2>4
  <2>6. r \in Seq(Pkt) /\ Len(r) = Len(rx) /\ DOMAIN r = 1 .. Len(rx)
    <3>1. \A i \in 1 .. Len(rx) : old(rx[i]) \in Pkt
      BY <2>4, <2>5
    <3> HIDE DEF old
    <3> QED
      BY <2>1, <3>1
  <2> HIDE DEF r, old
  <2>7. ASSUME NEW i \in 1 .. Len(rx) PROVE r[i].age <= WaitAt(i) + (rwait + 1)
    <3>1. rx[i].age <= WaitAt(i) + rwait
      BY <1>0, <1>1, <2>1 DEF RxYoung
    <3>2. WaitAt(i) \in Int
      BY <2>1, WaitFacts
    <3> QED
      BY <1>0, <2>5, <3>1, <3>2, Numbers
  <2>8. Len(r) <= RxCap
    BY <1>0, <2>6 DEF RxYoung
  <2> QED
    BY <1>1, <2>3, <2>6, <2>7, <2>8 DEF RxYoung, WaitAt
<1>4. /\ hist' \in HistType /\ hist'.asked = hist.asked /\ hist'.forgiven = hist.forgiven
      /\ hist'.last = hist.last /\ hist'.pp = hist.pp
      /\ hist'.silence \in Nat /\ hist.silence \in Nat /\ hist'.silence <= hist.silence + 1
  <2> DEFINE s == IF hist.silence < MaxSilence THEN hist.silence + 1 ELSE hist.silence
  <2>1. hist' = [hist EXCEPT !.silence = s]
    BY <1>0, <1>1 DEF HistType
  <2>2. hist.silence \in Nat
    BY <1>0, HistTypes
  <2>3. s \in Nat /\ s <= hist.silence + 1
    BY <2>2, Numbers
  <2> HIDE DEF s
  <2> QED
    BY <1>0, <2>1, <2>2, <2>3 DEF HistType
<1>5. ASSUME Subscribed
      PROVE  /\ sub \in Sub /\ sub' \in Sub /\ sub'.on /\ sub'.timedOut = sub.timedOut
             /\ sub'.invalid = sub.invalid /\ sub'.seqs = sub.seqs /\ sub'.cur = sub.cur
             /\ sub'.missed = sub.missed /\ sub'.age <= sub.age + 1
             /\ sub'.age \in Nat /\ sub.age \in Nat /\ sub.ttg \in Int /\ sub'.ttg \in Int
             /\ HasTimer /\ sub.ttg >= 0 => sub'.ttg = sub.ttg - 1
             /\ HasTimer /\ sub.ttg < 0 => sub'.ttg = sub.ttg
  <2>1. sub \in Sub
    BY <1>0, <1>5, SubTypes DEF TypeOK, Subscribed
  <2> DEFINE t == IF HasTimer /\ sub.ttg >= 0 THEN sub.ttg - 1 ELSE sub.ttg
             a == IF sub.age < MaxAge THEN sub.age + 1 ELSE sub.age
  <2>2. sub' = [sub EXCEPT !.ttg = t, !.age = a]
    BY <1>1, <1>5, <2>1 DEF Sub
  <2>3. sub.ttg \in Int /\ sub.age \in Nat
    BY <2>1 DEF Sub
  <2>4. t \in Int /\ a \in Nat /\ a <= sub.age + 1
        /\ (HasTimer /\ sub.ttg >= 0 => t = sub.ttg - 1)
        /\ (HasTimer /\ sub.ttg < 0 => t = sub.ttg)
    BY <2>3, Numbers
  <2> HIDE DEF t, a
  <2>5. /\ sub' \in Sub /\ sub'.on /\ sub'.timedOut = sub.timedOut
        /\ sub'.invalid = sub.invalid /\ sub'.seqs = sub.seqs /\ sub'.cur = sub.cur
        /\ sub'.missed = sub.missed /\ sub'.ttg = t /\ sub'.age = a
    BY <2>1, <2>2, <2>4 DEF Sub
  <2> QED
    BY <2>1, <2>3, <2>4, <2>5
<1>6. Subscribed' = Subscribed /\ (~Subscribed => sub' = sub /\ rx' = <<>>)
  <2>1. CASE Subscribed
    BY <1>5, <2>1, <1>0 DEF Subscribed, Sub
  <2>2. CASE ~Subscribed
    <3>1. sub' = sub /\ rx = <<>>
      BY <1>0, <1>1, <2>2 DEF Typed
    <3>2. rx' = <<>>
      BY <1>0, <1>3, <3>1, EmptySeq
    <3> QED
      BY <3>1, <3>2 DEF Subscribed
  <2> QED
    BY <2>1, <2>2
<1>7. Typed'
  <2>1. gap' \in 0 .. MaxGap
    BY <1>0, <1>1, SourceAssumption DEF TypeOK
  <2>2. rwait' \in 0 .. RecvPoll
    BY <1>0, <1>1, Numbers
  <2>3. sub' \in {NoSub} \cup Sub
    BY <1>0, <1>5, <1>6 DEF TypeOK
  <2>4. TypeOK'
    BY <1>0, <1>1, <1>2, <1>3, <2>1, <2>2, <2>3 DEF TypeOK
  <2> QED
    BY <1>1, <1>4, <1>6, <2>4 DEF Typed
<1>8. TimerFollowsData'
  <2> SUFFICES ASSUME Subscribed', HasTimer, ~sub'.invalid, sub'.ttg >= 0, ~hist'.asked
               PROVE  sub'.age + sub'.ttg <= Timeout + MaxWait
    BY DEF TimerFollowsData
  <2>1. Subscribed /\ ~sub.invalid /\ ~hist.asked /\ sub.ttg \in Int
    BY <1>4, <1>5, <1>6
  <2>2. sub.ttg >= 0 /\ sub'.ttg = sub.ttg - 1
    BY <1>5, <2>1
  <2>3. sub.age + sub.ttg <= Timeout + MaxWait
    BY <1>0, <2>1, <2>2 DEF SubFacts, TimerFollowsData
  <2> QED
    BY <1>5, <2>1, <2>2, <2>3, Numbers
<1>9. TimerFollowsSilence'
  <2> SUFFICES ASSUME Subscribed', HasTimer, ~sub'.timedOut
               PROVE  /\ hist'.silence <= Timeout + rwait'
                      /\ sub'.ttg >= 0 => hist'.silence + sub'.ttg <= Timeout
    BY DEF TimerFollowsSilence
  <2>1. Subscribed /\ ~sub.timedOut
    BY <1>5, <1>6
  <2>2. /\ hist.silence <= Timeout + rwait
        /\ sub.ttg >= 0 => hist.silence + sub.ttg <= Timeout
    BY <1>0, <2>1 DEF SubFacts, TimerFollowsSilence
  <2>3. hist'.silence <= Timeout + rwait'
    BY <1>0, <1>1, <1>4, <2>2, Numbers
  <2>4. ASSUME sub'.ttg >= 0 PROVE hist'.silence + sub'.ttg <= Timeout
    <3>1. sub.ttg >= 0 /\ sub'.ttg = sub.ttg - 1 /\ sub.ttg \in Int
      BY <1>5, <2>1, <2>4
    <3> QED
      BY <1>4, <2>2, <3>1, Numbers
  <2> QED
    BY <2>3, <2>4
<1>10. TimeoutIsRevoked' /\ CountersAgree'
  BY <1>0, <1>1, <1>4, <1>5, <1>6 DEF SubFacts, TimeoutIsRevoked, CountersAgree
<1>11. QED
  BY <1>2, <1>3, <1>7, <1>8, <1>9, <1>10 DEF SubInv, SubFacts

LEMMA InitSubInv == ASSUME Init PROVE SubInv
<1>1. /\ up = FALSE /\ gap = 0 /\ seq \in Values /\ sub = NoSub /\ rx = <<>> /\ rwait = 0
      /\ holder = "none" /\ blocking \in Options /\ told = "none"
      /\ net = <<>> /\ pr = FALSE /\ hist = NoHist
  BY DEF Init, SourceInit, RecvInit
<1>2. ~Subscribed
  BY <1>1 DEF Subscribed, NoSub
<1>3. seq \in Counters /\ gap \in 0 .. MaxGap /\ rwait \in 0 .. RecvPoll /\ blocking \in BOOLEAN
  BY <1>1, NetAssumption, SourceAssumption, RecvAssumption DEF Values, Counters
<1>4. /\ rx \in Seq(Pkt) /\ Len(rx) = 0 /\ DOMAIN rx = {}
      /\ net \in Seq(Pkt) /\ DOMAIN net = {}
  BY <1>1, EmptySeq
<1>5. Typed
  BY <1>1, <1>3, <1>4, NoHistFacts DEF Typed, TypeOK
<1>6. NetYoung /\ RxYoung
  BY <1>4, Numbers DEF NetYoung, RxYoung
<1>7. SubFacts
  BY <1>2 DEF SubFacts, TimerFollowsData, TimerFollowsSilence, TimeoutIsRevoked, CountersAgree
<1>8. QED
  BY <1>5, <1>6, <1>7 DEF SubInv

LEMMA NextSubInv == ASSUME SubInv, [Next]_vars PROVE SubInv'
<1>1. CASE UNCHANGED vars
  <2>1. UNCHANGED <<up, gap, seq, sub, rx, rwait, holder, blocking, told, net, pr, hist>>
    BY <1>1 DEF vars
  <2>2. Typed' /\ NetYoung' /\ RxYoung'
    BY <2>1 DEF SubInv, Typed, TypeOK, Subscribed, NetYoung, RxYoung, WaitAt
  <2>3. SubFacts'
    BY <2>1, SameSub DEF SubInv
  <2> QED
    BY <2>2, <2>3 DEF SubInv
<1>2. CASE PubPd \/ PubPp \/ PubDown
  BY <1>2, PubPdInv, PubPpInv, PubDownInv
<1>3. CASE Deliver \/ Lose \/ Twice \/ Damage \/ LosePr
  BY <1>3, NetworkInv, LosePrInv
<1>4. CASE PSubscribe \/ PUnsubscribe \/ PRequest
  BY <1>4, PSubscribeInv, PUnsubscribeInv, PRequestInv
<1>5. CASE PProcessRecv \/ PQuiet \/ PDropped \/ PReadAccept
  BY <1>5, PProcessRecvInv, QuietInv, PReadAcceptInv
<1>6. CASE Tick
  BY <1>6, TickInv
<1>7. QED
  BY <1>1, <1>2, <1>3, <1>4, <1>5, <1>6 DEF Next

LEMMA SubInvAlways == Spec => []SubInv
<1>1. Init => SubInv
  BY InitSubInv
<1>2. SubInv /\ [Next]_vars => SubInv'
  BY NextSubInv
<1>3. QED
  BY <1>1, <1>2, PTL DEF Spec

\* The state keeps its types, whatever the network does: in particular no
\* counter leaves its width.
THEOREM PdTypes == Spec => []TypeOK
<1>1. SubInv => TypeOK
  BY DEF SubInv, Typed
<1>2. QED
  BY <1>1, SubInvAlways, PTL

\* What tlp_get returns as good was sent at most a time-out and the longest wait
\* of a packet ago: the timer that trdp_pdReceive starts counts from the
\* reception, and reception follows transmission by at most MaxWait even when
\* the socket buffer is full and one packet is read at a time.
THEOREM PdDataIsFresh == Spec => []DataIsFresh
<1>1. ASSUME SubInv PROVE DataIsFresh
  <2> SUFFICES ASSUME Subscribed, HasTimer, GetResult = "NO_ERR", ~hist.asked
               PROVE  sub.age <= Timeout + MaxWait
    BY DEF DataIsFresh
  <2>1. sub.ttg \in Int /\ sub.age \in Nat
    BY <1>1, SubTypes DEF SubInv, Typed, TypeOK, Subscribed
  <2>2. sub.ttg >= 0 /\ ~sub.invalid
    BY <2>1 DEF GetResult
  <2>3. sub.age + sub.ttg <= Timeout + MaxWait
    BY <1>1, <2>2 DEF SubInv, SubFacts, TimerFollowsData
  <2> QED
    BY <2>1, <2>2, <2>3, Numbers
<1>2. QED
  BY <1>1, SubInvAlways, PTL

\* A subscription that heard nothing for its time-out and one period of the
\* receiving thread is flagged (trdp_pdHandleTimeOuts).
THEOREM PdSilenceIsReported == Spec => []SilenceIsReported
<1>1. ASSUME SubInv PROVE SilenceIsReported
  <2> SUFFICES ASSUME Subscribed, HasTimer, ~sub.timedOut
               PROVE  ~(hist.silence > Timeout + RecvPoll)
    BY DEF SilenceIsReported
  <2>1. hist.silence <= Timeout + rwait
    BY <1>1 DEF SubInv, SubFacts, TimerFollowsSilence
  <2>2. rwait \in 0 .. RecvPoll /\ hist.silence \in Nat
    BY <1>1, HistTypes DEF SubInv, Typed, TypeOK
  <2> QED
    BY <2>1, <2>2, Numbers
<1>2. QED
  BY <1>1, SubInvAlways, PTL

----------------------------------------------------------------------------
(* What numMissed counts.                                                   *)

\* The number that the publisher gave a packet is the one in its header, until
\* the publisher stops.
Right(m) == m.no \in {-1, m.seq}
Numbered(q) == \A i \in DOMAIN q : Right(q[i])

\* The frame header of the subscription holds the number last accepted.
HeaderAgrees == hist.at # -1 => Subscribed /\ sub.cur = hist.at

NumInv == Numbered(rx) /\ Numbered(net) /\ HeaderAgrees

LEMMA NumTransmit ==
  ASSUME net \in Seq(Pkt), Numbered(net), NEW type \in Types, NEW s \in Counters, NEW d \in Data,
         NEW o \in {-1} \cup Counters, o \in {-1, s}, Transmit(type, s, d, o)
  PROVE  Numbered(net')
<1> DEFINE m == [type |-> type, seq |-> s, data |-> d, ok |-> TRUE, age |-> 0, live |-> TRUE,
                 no |-> o]
           n == Append(net, m)
<1>1. m \in Pkt /\ Right(m)
  BY DEF Pkt, Right
<1>2. net' = n
  BY DEF Transmit
<1> HIDE DEF m
<1>3. /\ n \in Seq(Pkt) /\ Len(n) = Len(net) + 1
      /\ \A i \in 1 .. Len(net) : n[i] = net[i]
      /\ n[Len(net) + 1] = m
  BY <1>1, AppendProperties
<1> HIDE DEF n
<1>4. DOMAIN n = 1 .. Len(net) + 1 /\ DOMAIN net = 1 .. Len(net) /\ Len(net) \in Nat
  BY <1>3
<1>5. ASSUME NEW i \in DOMAIN n PROVE Right(n[i])
  <2>1. CASE i \in 1 .. Len(net)
    BY <1>3, <1>4, <2>1 DEF Numbered
  <2>2. CASE i = Len(net) + 1
    BY <1>1, <1>3, <2>2
  <2> QED
    BY <1>4, <2>1, <2>2
<1>6. QED
  BY <1>2, <1>5 DEF Numbered

\* Marking packets keeps their numbers, or takes them away.
LEMMA NumMarks ==
  ASSUME NEW q \in Seq(Pkt)
  PROVE  /\ Numbered(q) => Numbered(Old(q))
         /\ Numbered(Former(q))
<1>1. DOMAIN q = 1 .. Len(q) /\ \A i \in DOMAIN q : q[i] \in Pkt
  BY ElementOfSeq
<1>2. ASSUME NEW m \in Pkt
      PROVE  /\ Right(m) => Right([m EXCEPT !.live = FALSE])
             /\ Right([m EXCEPT !.live = FALSE, !.no = -1])
  BY DEF Pkt, Right
<1>3. /\ DOMAIN Old(q) = DOMAIN q
      /\ \A i \in DOMAIN q : Old(q)[i] = [q[i] EXCEPT !.live = FALSE]
  BY DEF Old
<1>4. /\ DOMAIN Former(q) = DOMAIN q
      /\ \A i \in DOMAIN q : Former(q)[i] = [q[i] EXCEPT !.live = FALSE, !.no = -1]
  BY DEF Former
<1>5. ASSUME Numbered(q) PROVE Numbered(Old(q))
  <2>1. ASSUME NEW i \in DOMAIN q PROVE Right(Old(q)[i])
    <3>1. q[i] \in Pkt /\ Right(q[i])
      BY <1>1, <1>5 DEF Numbered
    <3>2. Right([q[i] EXCEPT !.live = FALSE])
      BY <1>2, <3>1
    <3> QED
      BY <1>3, <3>2
  <2> QED
    BY <1>3, <2>1 DEF Numbered
<1>6. Numbered(Former(q))
  <2>1. ASSUME NEW i \in DOMAIN q PROVE Right(Former(q)[i])
    <3>1. Right([q[i] EXCEPT !.live = FALSE, !.no = -1])
      BY <1>1, <1>2
    <3> QED
      BY <1>4, <3>1
  <2> QED
    BY <1>4, <2>1 DEF Numbered
<1>7. QED
  BY <1>5, <1>6

\* What is left after a packet was taken out, and what a packet joins.
LEMMA NumMoves ==
  ASSUME NEW q \in Seq(Pkt), Numbered(q)
  PROVE  /\ \A i \in DOMAIN q : Numbered(RemoveAt(q, i))
         /\ q # <<>> => Numbered(Tail(q)) /\ Right(Head(q))
         /\ \A m \in Pkt : Right(m) => Numbered(q \o <<m>>)
<1>1. ASSUME NEW i \in DOMAIN q PROVE Numbered(RemoveAt(q, i))
  <2>1. \A j \in DOMAIN RemoveAt(q, i) : \E k \in DOMAIN q : RemoveAt(q, i)[j] = q[k]
    BY RemoveAtFacts
  <2> QED
    BY <2>1 DEF Numbered
<1>2. ASSUME q # <<>> PROVE Numbered(Tail(q)) /\ Right(Head(q))
  BY <1>2, TailFacts DEF Numbered
<1>3. ASSUME NEW m \in Pkt, Right(m) PROVE Numbered(q \o <<m>>)
  <2> DEFINE r == Append(q, m)
  <2>1. q \o <<m>> = r
    BY AppendIsConcat
  <2>2. /\ r \in Seq(Pkt) /\ Len(r) = Len(q) + 1 /\ Len(q) \in Nat
        /\ \A i \in 1 .. Len(q) : r[i] = q[i]
        /\ r[Len(q) + 1] = m
    BY AppendProperties
  <2> HIDE DEF r
  <2>3. DOMAIN r = 1 .. Len(q) + 1 /\ DOMAIN q = 1 .. Len(q)
    BY <2>2
  <2>4. ASSUME NEW i \in DOMAIN r PROVE Right(r[i])
    <3>1. CASE i \in 1 .. Len(q)
      BY <2>2, <2>3, <3>1 DEF Numbered
    <3>2. CASE i = Len(q) + 1
      BY <1>3, <2>2, <3>2
    <3> QED
      BY <2>2, <2>3, <3>1, <3>2
  <2> QED
    BY <2>1, <2>4 DEF Numbered
<1>4. QED
  BY <1>1, <1>2, <1>3

\* The publisher and the network.
LEMMA NumNetwork ==
  ASSUME SubInv, NumInv, PubPd \/ PubPp \/ PubDown \/ Deliver \/ Lose \/ Twice \/ Damage
  PROVE  NumInv'
<1>0. /\ rx \in Seq(Pkt) /\ net \in Seq(Pkt) /\ Numbered(rx) /\ Numbered(net) /\ HeaderAgrees
      /\ hist \in HistType /\ Movable \subseteq DOMAIN net
  BY DEF SubInv, Typed, TypeOK, NumInv, Movable
<1>1. sub' = sub
  BY DEF PubPd, PubPp, PubDown, Deliver, Lose, Twice, Damage, Arrive, recvVars
<1>2. ASSUME hist'.at = hist.at \/ hist'.at = -1 PROVE HeaderAgrees'
  BY <1>0, <1>1, <1>2 DEF HeaderAgrees, Subscribed
<1>3. CASE PubPd
  <2>1. PICK d \in Data : Transmit("PD", seq', d, seq')
    BY <1>3 DEF PubPd
  <2>2. seq' \in Counters /\ rx' = rx /\ hist' = hist
    <3>1. SubInv'
      BY <1>3, PubPdInv
    <3> QED
      BY <1>3, <3>1 DEF PubPd, SubInv, Typed, TypeOK, recvVars
  <2>3. Numbered(net')
    BY <1>0, <2>1, <2>2, NumTransmit DEF Types
  <2> QED
    BY <1>0, <1>2, <2>2, <2>3 DEF NumInv
<1>4. CASE PubPp
  <2>1. PICK d \in Data, s \in Counters : Transmit("PP", s, d, -1)
    BY <1>4 DEF PubPp
  <2>2. rx' = rx /\ hist' = hist
    BY <1>4 DEF PubPp, recvVars
  <2>3. Numbered(net')
    BY <1>0, <2>1, NumTransmit DEF Types
  <2> QED
    BY <1>0, <1>2, <2>2, <2>3 DEF NumInv
<1>5. CASE PubDown
  <2>1. net' = Former(net) /\ rx' = Former(rx) /\ hist' = [Broken EXCEPT !.at = -1]
    BY <1>5 DEF PubDown
  <2>2. Numbered(rx') /\ Numbered(net')
    BY <1>0, <2>1, NumMarks
  <2>3. hist'.at = -1
    BY <1>0, <2>1, DownFacts
  <2> QED
    BY <1>2, <2>2, <2>3 DEF NumInv
<1>6. ASSUME NEW i \in Movable
      PROVE  /\ net[i] \in Pkt /\ Right(net[i])
             /\ RemoveAt(net, i) \in Seq(Pkt) /\ Numbered(RemoveAt(net, i))
             /\ [net[i] EXCEPT !.ok = FALSE] \in Pkt
             /\ Right([net[i] EXCEPT !.ok = FALSE])
  <2>1. net[i] \in Pkt /\ Right(net[i])
    BY <1>0, ElementOfSeq DEF Numbered
  <2>2. RemoveAt(net, i) \in Seq(Pkt) /\ Numbered(RemoveAt(net, i))
    BY <1>0, RemoveAtFacts, NumMoves
  <2> QED
    BY <2>1, <2>2 DEF Pkt, Right
<1>7. CASE Deliver \/ Twice
  <2>1. PICK i \in Movable : /\ rx' = rx \o <<net[i]>> /\ hist' = hist
                             /\ net' = net \/ net' = RemoveAt(net, i)
    BY <1>7 DEF Deliver, Twice, Arrive
  <2>2. Numbered(rx') /\ Numbered(net')
    BY <1>0, <1>6, <2>1, NumMoves
  <2> QED
    BY <1>2, <2>1, <2>2 DEF NumInv
<1>8. CASE Damage \/ Lose
  <2>1. PICK i \in Movable : /\ net' = Old(RemoveAt(net, i)) /\ hist' = Broken
                             /\ \/ rx' = Old(rx) \o <<[net[i] EXCEPT !.ok = FALSE]>>
                                \/ rx' = Old(rx) \o <<>>
    BY <1>8 DEF Damage, Lose, Arrive
  <2>2. Numbered(net')
    BY <1>6, <2>1, NumMarks
  <2>3. Old(rx) \in Seq(Pkt) /\ Numbered(Old(rx))
    BY <1>0, OldFacts, NumMarks
  <2>4. Numbered(rx')
    <3>1. Old(rx) \o <<>> = Old(rx)
      BY <2>3, ConcatEmptySeq
    <3> QED
      BY <1>6, <2>1, <2>3, <3>1, NumMoves
  <2>5. hist'.at = hist.at
    BY <1>0, <2>1, BrokenFacts
  <2> QED
    BY <1>2, <2>2, <2>4, <2>5 DEF NumInv
<1>9. QED
  BY <1>3, <1>4, <1>5, <1>7, <1>8

\* The subscriber and time.
LEMMA NumSubscriber ==
  ASSUME SubInv, NumInv,
         \/ LosePr \/ PSubscribe \/ PUnsubscribe \/ PRequest \/ PProcessRecv
         \/ PQuiet \/ PDropped \/ Tick
  PROVE  NumInv'
<1>0. /\ rx \in Seq(Pkt) /\ net \in Seq(Pkt) /\ Numbered(rx) /\ Numbered(net) /\ HeaderAgrees
      /\ hist \in HistType /\ TypeOK
  BY DEF SubInv, Typed, TypeOK, NumInv
<1>1. CASE PSubscribe \/ PUnsubscribe
  <2>1. hist' = NoHist /\ net' = net /\ (rx' = rx \/ rx' = <<>>)
    BY <1>1 DEF PSubscribe, PUnsubscribe, Subscribe, Unsubscribe
  <2>2. Numbered(rx') /\ Numbered(net')
    BY <1>0, <2>1, EmptySeq DEF Numbered
  <2> QED
    BY <2>1, <2>2, NoHistFacts DEF NumInv, HeaderAgrees
<1>2. ASSUME hist'.at = hist.at, Subscribed => Subscribed' /\ sub'.cur = sub.cur
      PROVE  HeaderAgrees'
  BY <1>0, <1>2 DEF HeaderAgrees
<1>3. CASE LosePr
  BY <1>0, <1>2, <1>3 DEF LosePr, recvVars, NumInv, Subscribed
<1>4. CASE PRequest
  <2>1. /\ rx' = rx /\ net' = net /\ Subscribed
        /\ sub' = IF HasTimer THEN [sub EXCEPT !.ttg = Timeout, !.timedOut = FALSE] ELSE sub
        /\ hist' = [hist EXCEPT !.silence = 0, !.asked = TRUE, !.forgiven = @ \/ sub.timedOut]
    BY <1>4 DEF PRequest, Request
  <2>2. hist'.at = hist.at
    BY <1>0, <2>1 DEF HistType
  <2>3. sub'.on /\ sub'.cur = sub.cur
    <3>1. sub \in Sub
      BY <1>0, <2>1, SubTypes DEF TypeOK, Subscribed
    <3> QED
      BY <2>1, <3>1 DEF Sub
  <2> QED
    BY <1>0, <1>2, <2>1, <2>2, <2>3 DEF NumInv, Subscribed
<1>5. CASE PProcessRecv
  <2>1. /\ rx' = rx /\ net' = net
        /\ sub' = IF Late THEN [sub EXCEPT !.timedOut = TRUE] ELSE sub
        /\ hist' = IF Late THEN [hist EXCEPT !.forgiven = FALSE] ELSE hist
    BY <1>5 DEF PProcessRecv, ProcessRecv
  <2>2. hist'.at = hist.at
    BY <1>0, <2>1 DEF HistType
  <2>3. ASSUME Subscribed PROVE sub'.on /\ sub'.cur = sub.cur
    <3>1. sub \in Sub
      BY <1>0, <2>3, SubTypes DEF TypeOK, Subscribed
    <3> QED
      BY <2>1, <3>1 DEF Sub
  <2> QED
    BY <1>0, <1>2, <2>1, <2>2, <2>3 DEF NumInv, Subscribed
<1>6. CASE PQuiet \/ PDropped
  <2>1. /\ net' = net /\ sub' = sub /\ (hist' = hist \/ hist' = Broken)
        /\ rx' = rx \/ (rx # <<>> /\ rx' = Tail(rx))
    BY <1>6 DEF PQuiet, PDropped, Get, ReadDuplicate, ReadEmpty, ReadCorrupt, ReadNoMem
  <2>2. Numbered(rx')
    BY <1>0, <2>1, NumMoves
  <2>3. hist'.at = hist.at
    BY <1>0, <2>1, BrokenFacts
  <2> QED
    BY <1>0, <1>2, <2>1, <2>2, <2>3 DEF NumInv, Subscribed
<1>7. CASE Tick
  <2>1. /\ net' = [i \in DOMAIN net |-> [net[i] EXCEPT !.age = @ + 1]]
        /\ rx' = [i \in DOMAIN rx |-> [rx[i] EXCEPT !.age = IF @ < MaxAge THEN @ + 1 ELSE @]]
        /\ sub' = IF ~Subscribed THEN sub
                  ELSE [sub EXCEPT !.ttg = IF HasTimer /\ @ >= 0 THEN @ - 1 ELSE @,
                                   !.age = IF @ < MaxAge THEN @ + 1 ELSE @]
        /\ hist' = [hist EXCEPT !.silence = IF @ < MaxSilence THEN @ + 1 ELSE @]
    BY <1>7 DEF Tick, RecvTick
  <2>2. ASSUME NEW m \in Pkt, NEW a, Right(m) PROVE Right([m EXCEPT !.age = a])
    BY <2>2 DEF Pkt, Right
  <2>3. /\ \A i \in DOMAIN net : net[i] \in Pkt
        /\ \A i \in DOMAIN rx : rx[i] \in Pkt
    BY <1>0, ElementOfSeq
  <2>4. Numbered(net')
    <3>1. ASSUME NEW i \in DOMAIN net PROVE Right([net[i] EXCEPT !.age = @ + 1])
      BY <1>0, <2>2, <2>3 DEF Numbered
    <3> QED
      BY <2>1, <3>1 DEF Numbered
  <2>5. Numbered(rx')
    <3>1. ASSUME NEW i \in DOMAIN rx
          PROVE  Right([rx[i] EXCEPT !.age = IF @ < MaxAge THEN @ + 1 ELSE @])
      BY <1>0, <2>2, <2>3 DEF Numbered
    <3> QED
      BY <2>1, <3>1 DEF Numbered
  <2>6. hist'.at = hist.at
    BY <1>0, <2>1 DEF HistType
  <2>7. ASSUME Subscribed PROVE sub'.on /\ sub'.cur = sub.cur
    <3>1. sub \in Sub
      BY <1>0, <2>7, SubTypes DEF TypeOK, Subscribed
    <3> QED
      BY <2>1, <2>7, <3>1 DEF Sub
  <2> QED
    BY <1>2, <2>4, <2>5, <2>6, <2>7 DEF NumInv, Subscribed
<1>8. QED
  BY <1>1, <1>3, <1>4, <1>5, <1>6, <1>7

\* A packet that is accepted leaves its number in the header, and numMissed grows by what was
\* sent since the one accepted before it.
LEMMA NumRead ==
  ASSUME SubInv, NumInv, PReadAccept
  PROVE  /\ NumInv'
         /\ hist.at # -1 /\ Head(rx).no \notin {-1, hist.at}
              => sub'.missed = (sub.missed + Between(hist.at, Head(rx).no) - 1) % CntMod
<1> DEFINE m == Head(rx)
<1>0. /\ rx \in Seq(Pkt) /\ net \in Seq(Pkt) /\ Numbered(rx) /\ Numbered(net) /\ HeaderAgrees
      /\ hist \in HistType /\ TypeOK /\ (~Subscribed => holder = "none")
  BY DEF SubInv, Typed, TypeOK, NumInv
<1>1. /\ rx # <<>> /\ rx' = Tail(rx) /\ net' = net /\ sub' = Accepted(m) /\ Subscribed
  BY <1>0 DEF PReadAccept, ReadAccept
<1>2. m \in Pkt /\ Right(m) /\ Numbered(rx') /\ Numbered(net')
  BY <1>0, <1>1, TailFacts, NumMoves
<1>3. hist'.at = m.no
  <2> DEFINE g == hist.good \/ (m.type = "PD" /\ m.live)
             f == hist.forgiven /\ ~Informs(m)
             p == hist.pp \/ ~(m.type = "PD")
             l == IF m.type = "PD" THEN m.seq ELSE hist.last
  <2>1. hist' = [hist EXCEPT !.good = g, !.silence = 0, !.asked = FALSE, !.forgiven = f,
                             !.last = l, !.pp = p, !.at = m.no]
    BY <1>0 DEF PReadAccept, HistType
  <2> HIDE DEF g, f, p, l
  <2> QED
    BY <1>0, <2>1 DEF HistType
<1> HIDE DEF m
<1>4. sub \in Sub /\ sub.cur \in Counters /\ sub.missed \in Counters
  BY <1>0, <1>1, SubTypes DEF TypeOK, Subscribed
<1>5. /\ sub'.on /\ sub'.cur = m.seq
      /\ sub'.missed = (sub.missed + Skipped(sub.cur, m.seq)) % CntMod
  BY <1>1, <1>2, <1>4, AcceptedFacts
<1>6. NumInv'
  BY <1>2, <1>3, <1>5 DEF NumInv, HeaderAgrees, Subscribed, Right
<1>7. ASSUME hist.at # -1, m.no \notin {-1, hist.at}
      PROVE  sub'.missed = (sub.missed + Between(hist.at, m.no) - 1) % CntMod
  <2>1. sub.cur = hist.at /\ m.no = m.seq /\ m.seq # sub.cur /\ m.seq \in Counters
    BY <1>0, <1>2, <1>7, PktTypes DEF HeaderAgrees, Right
  <2>2. sub'.missed = (sub.missed + m.seq - sub.cur - 1) % CntMod
    BY <1>4, <1>5, <2>1, SkippedFacts
  <2>3. (sub.missed + Between(hist.at, m.no) - 1) % CntMod
           = (sub.missed + m.seq - sub.cur - 1) % CntMod
    <3> DEFINE x == sub.missed - 1
               y == m.seq - sub.cur
    <3>1. CntMod \in Int /\ CntMod > 0
      BY PacketAssumption
    <3>2. /\ x \in Int /\ y \in Int /\ sub.missed + m.seq - sub.cur - 1 = x + y
          /\ sub.missed \in Int /\ x = sub.missed - 1
      BY <1>4, <2>1, <3>1 DEF Counters
    <3>3. Between(hist.at, m.no) = y % CntMod
      BY <2>1 DEF Between
    <3> HIDE DEF y
    <3> DEFINE z == y % CntMod
    <3>5. z \in Int
      BY <3>1, <3>2
    <3> HIDE DEF x, z
    <3>6. sub.missed + z - 1 = x + z
      BY <3>2, <3>5
    <3> USE DEF z
    <3>4. (x + (y % CntMod)) % CntMod = (x + y) % CntMod
      BY <3>1, <3>2, ModSum
    <3> QED
      BY <3>2, <3>3, <3>4, <3>6
  <2> QED
    BY <2>2, <2>3
<1>8. QED
  BY <1>6, <1>7 DEF m

\* numMissed of trdp_pdReceive grows by the number of PDs that the publisher sent
\* between two packets accepted one after the other, over losses, duplicates,
\* damage and the overflow of the counter.
THEOREM PdMissedIsExact == Spec => MissedIsExact
<1>1. Init => NumInv
  BY EmptySeq, NoHistFacts DEF Init, RecvInit, NumInv, Numbered, HeaderAgrees
<1>2. SubInv /\ NumInv /\ [Next]_vars => NumInv'
  <2> SUFFICES ASSUME SubInv, NumInv, [Next]_vars PROVE NumInv'
    OBVIOUS
  <2>1. CASE UNCHANGED vars
    BY <2>1 DEF vars, NumInv, Numbered, HeaderAgrees, Subscribed
  <2>2. CASE Next
    BY <2>2, NumNetwork, NumSubscriber, NumRead DEF Next
  <2> QED
    BY <2>1, <2>2
<1>3. SubInv /\ NumInv /\ PReadAccept /\ hist.at # -1 /\ Head(rx).no \notin {-1, hist.at}
        => sub'.missed = (sub.missed + Between(hist.at, Head(rx).no) - 1) % CntMod
  BY NumRead
<1>4. QED
  BY <1>1, <1>2, <1>3, SubInvAlways, PTL DEF Spec, MissedIsExact

\* A reported time-out is taken back only by data or by tlp_request.
THEOREM PdTimeoutIsRevoked == Spec => []TimeoutIsRevoked
<1>1. SubInv => TimeoutIsRevoked
  BY DEF SubInv, SubFacts
<1>2. QED
  BY <1>1, SubInvAlways, PTL

\* All three promises also hold when the application asks for data itself.
THEOREM PdPullKeepsPromises == Spec => []PullKeepsPromises
<1>1. DataIsFresh /\ SilenceIsReported /\ TimeoutIsRevoked => PullKeepsPromises
  BY DEF PullKeepsPromises
<1>2. QED
  BY <1>1, PdDataIsFresh, PdSilenceIsReported, PdTimeoutIsRevoked, PTL

----------------------------------------------------------------------------
(* No spurious time-out.  What is under way, in the order in which it will  *)
(* be read, is a chain: each packet is the copy of the one before or its    *)
(* successor, sent at most MaxGap later.  The chain starts at the packet    *)
(* that was accepted last and ends at the one that was sent last.           *)

\* Nothing was lost since the packet was sent, and it will be accepted.
Counts(p) == p.live /\ p.ok

\* A packet with counter s sent a ticks ago is followed by packet p.
Linked(s, a, p) ==
  \/ p.seq = s /\ p.age = a
  \/ p.seq = Bump(s) /\ a <= p.age + MaxGap

\* What is under way is q, and the last packet was sent g ticks ago with counter
\* s by a publisher that is running if u.
Chain(q, u, s, g) ==
  /\ \A i \in 1 .. Len(q) : q[i].type = "PD" /\ (Counts(q[i]) => u)
  /\ \A i \in 1 .. Len(q) - 1 :
       Counts(q[i]) => Counts(q[i + 1]) /\ Linked(q[i].seq, q[i].age, q[i + 1])
  /\ Len(q) > 0 /\ Counts(q[Len(q)]) => q[Len(q)].seq = s /\ q[Len(q)].age = g

\* The packet that was accepted last, with counter l, was sent a ticks ago, and
\* it is followed by what is under way.
Follows(q, l, a, s, g) ==
  /\ Len(q) = 0 => l = s /\ a = g
  /\ Len(q) > 0 => Counts(q[1]) /\ Linked(l, a, q[1])

\* The timer was started no earlier than that packet was sent.
TimerFollowsChain ==
  hist.good => /\ Subscribed /\ up /\ hist.last # -1
               /\ \E a \in Nat : /\ Timeout - sub.ttg <= a
                                 /\ Follows(rx \o net, hist.last, a, seq, gap)
               /\ Timeout > MaxGap + MaxWait => ~sub.timedOut

ChainInv == /\ SubInv /\ ~pr /\ ~hist.pp
            /\ Chain(rx \o net, up, seq, gap)
            /\ TimerFollowsChain

\* The first packets are read, or lost with the socket.
LEMMA ChainDrop ==
  ASSUME NEW p \in Seq(Pkt), NEW q \in Seq(Pkt), NEW u, NEW s, NEW g, Chain(p, u, s, g),
         NEW k \in 0 .. Len(p), Len(q) = Len(p) - k, \A i \in 1 .. Len(q) : q[i] = p[i + k]
  PROVE  Chain(q, u, s, g)
<1>1. Len(p) \in Nat /\ Len(q) \in Nat
  OBVIOUS
<1>2. ASSUME NEW i \in 1 .. Len(q) PROVE q[i].type = "PD" /\ (Counts(q[i]) => u)
  <2>1. q[i] = p[i + k] /\ i + k \in 1 .. Len(p)
    BY <1>1
  <2> QED
    BY <2>1 DEF Chain
<1>3. ASSUME NEW i \in 1 .. Len(q) - 1, Counts(q[i])
      PROVE  Counts(q[i + 1]) /\ Linked(q[i].seq, q[i].age, q[i + 1])
  <2>1. /\ i + k \in 1 .. Len(p) - 1 /\ i \in 1 .. Len(q) /\ i + 1 \in 1 .. Len(q)
        /\ (i + 1) + k = (i + k) + 1
    BY <1>1
  <2>2. q[i] = p[i + k] /\ q[i + 1] = p[(i + k) + 1]
    BY <2>1
  <2> QED
    BY <1>3, <2>1, <2>2 DEF Chain
<1>4. Len(q) > 0 => q[Len(q)] = p[Len(p)] /\ Len(p) > 0
  BY <1>1
<1>5. QED
  BY <1>2, <1>3, <1>4 DEF Chain

\* The packet that is read is followed by the next one.
LEMMA ChainRead ==
  ASSUME NEW p \in Seq(Pkt), NEW q \in Seq(Pkt), NEW u, NEW s, NEW g, Chain(p, u, s, g),
         Len(p) > 0, Counts(p[1]), Len(q) = Len(p) - 1, \A i \in 1 .. Len(q) : q[i] = p[i + 1]
  PROVE  Follows(q, p[1].seq, p[1].age, s, g) /\ u
<1>1. Len(p) \in Nat /\ Len(q) \in Nat /\ 1 \in 1 .. Len(p)
  OBVIOUS
<1>2. CASE Len(p) = 1
  BY <1>1, <1>2 DEF Chain, Follows
<1>3. CASE Len(p) > 1
  <2>1. 1 \in 1 .. Len(p) - 1 /\ 1 \in 1 .. Len(q)
    BY <1>1, <1>3
  <2>2. q[1] = p[2]
    BY <2>1
  <2>3. Counts(p[1 + 1]) /\ Linked(p[1].seq, p[1].age, p[1 + 1])
    BY <2>1 DEF Chain
  <2>4. u
    BY <1>1 DEF Chain
  <2> QED
    BY <1>1, <1>3, <2>2, <2>3, <2>4 DEF Follows
<1>4. QED
  BY <1>1, <1>2, <1>3

\* One more packet is sent.
LEMMA ChainSend ==
  ASSUME NEW p \in Seq(Pkt), NEW q \in Seq(Pkt), NEW u, NEW s \in Counters, NEW g \in 0 .. MaxGap,
         Chain(p, u, s, g),
         Len(q) = Len(p) + 1, \A i \in 1 .. Len(p) : q[i] = p[i],
         q[Len(p) + 1].type = "PD", q[Len(p) + 1].live, q[Len(p) + 1].ok,
         q[Len(p) + 1].age = 0, q[Len(p) + 1].seq = Bump(s)
  PROVE  /\ Chain(q, TRUE, Bump(s), 0)
         /\ \A l, a : Follows(p, l, a, s, g) => Follows(q, l, a, Bump(s), 0)
<1>0. Len(p) \in Nat /\ Len(q) \in Nat /\ MaxGap \in Nat
  BY SourceAssumption
<1>1. \A i \in 1 .. Len(q) : q[i].type = "PD"
  BY <1>0 DEF Chain
<1>2. ASSUME NEW i \in 1 .. Len(q) - 1, Counts(q[i])
      PROVE  Counts(q[i + 1]) /\ Linked(q[i].seq, q[i].age, q[i + 1])
  <2>1. CASE i \in 1 .. Len(p) - 1
    <3>1. q[i] = p[i] /\ q[i + 1] = p[i + 1]
      BY <1>0, <2>1
    <3> QED
      BY <1>2, <2>1, <3>1 DEF Chain
  <2>2. CASE i = Len(p)
    <3>1. q[i] = p[Len(p)] /\ Len(p) > 0
      BY <1>0, <2>2
    <3>2. q[i].seq = s /\ q[i].age = g
      BY <1>2, <3>1 DEF Chain
    <3> QED
      BY <1>0, <2>2, <3>2 DEF Counts, Linked
  <2> QED
    BY <1>0, <2>1, <2>2
<1>3. q[Len(q)] = q[Len(p) + 1]
  OBVIOUS
<1>4. Chain(q, TRUE, Bump(s), 0)
  BY <1>1, <1>2, <1>3 DEF Chain
<1>5. ASSUME NEW l, NEW a, Follows(p, l, a, s, g) PROVE Follows(q, l, a, Bump(s), 0)
  <2>1. CASE Len(p) = 0
    <3>1. l = s /\ a = g
      BY <1>5, <2>1 DEF Follows
    <3>2. Len(q) = 1 /\ q[1] = q[Len(p) + 1]
      BY <2>1
    <3>3. Linked(l, a, q[1]) /\ Counts(q[1])
      BY <1>0, <3>1, <3>2 DEF Linked, Counts
    <3> QED
      BY <3>2, <3>3 DEF Follows
  <2>2. CASE Len(p) > 0
    <3>1. q[1] = p[1] /\ Len(q) > 0
      BY <1>0, <2>2
    <3> QED
      BY <1>0, <1>5, <2>2, <3>1 DEF Follows
  <2> QED
    BY <1>0, <2>1, <2>2
<1>6. QED
  BY <1>4, <1>5

\* A packet is duplicated.
LEMMA ChainTwice ==
  ASSUME NEW p \in Seq(Pkt), NEW q \in Seq(Pkt), NEW u, NEW s, NEW g, Chain(p, u, s, g),
         NEW k \in 1 .. Len(p), Len(q) = Len(p) + 1,
         \A i \in 1 .. k : q[i] = p[i], \A i \in k + 1 .. Len(q) : q[i] = p[i - 1]
  PROVE  /\ Chain(q, u, s, g)
         /\ \A l, a : Follows(p, l, a, s, g) => Follows(q, l, a, s, g)
<1>0. Len(p) \in Nat /\ Len(q) \in Nat /\ k \in Int
  OBVIOUS
<1>1. ASSUME NEW i \in 1 .. Len(q) PROVE q[i].type = "PD" /\ (Counts(q[i]) => u)
  <2>1. CASE i \in 1 .. k
    BY <1>0, <2>1 DEF Chain
  <2>2. CASE i \in k + 1 .. Len(q)
    <3>1. q[i] = p[i - 1] /\ i - 1 \in 1 .. Len(p)
      BY <1>0, <2>2
    <3> QED
      BY <3>1 DEF Chain
  <2> QED
    BY <1>0, <2>1, <2>2
<1>2. ASSUME NEW i \in 1 .. Len(q) - 1, Counts(q[i])
      PROVE  Counts(q[i + 1]) /\ Linked(q[i].seq, q[i].age, q[i + 1])
  <2>1. CASE i < k
    <3>1. q[i] = p[i] /\ q[i + 1] = p[i + 1] /\ i \in 1 .. Len(p) - 1
      BY <1>0, <2>1
    <3> QED
      BY <1>2, <3>1 DEF Chain
  <2>2. CASE i = k
    <3>1. q[i] = p[k] /\ q[i + 1] = p[k]
      BY <1>0, <2>2
    <3> QED
      BY <1>2, <3>1 DEF Linked
  <2>3. CASE i > k
    <3>1. q[i] = p[i - 1] /\ q[i + 1] = p[(i - 1) + 1] /\ i - 1 \in 1 .. Len(p) - 1
      BY <1>0, <2>3
    <3> QED
      BY <1>2, <3>1 DEF Chain
  <2> QED
    BY <1>0, <2>1, <2>2, <2>3
<1>3. q[Len(q)] = p[Len(p)] /\ Len(p) > 0 /\ q[1] = p[1]
  BY <1>0
<1>4. Chain(q, u, s, g)
  BY <1>1, <1>2, <1>3 DEF Chain
<1>5. \A l, a : Follows(p, l, a, s, g) => Follows(q, l, a, s, g)
  BY <1>0, <1>3 DEF Follows
<1>6. QED
  BY <1>4, <1>5

\* Something is lost, or the publisher stops: nothing under way counts.
LEMMA ChainDead ==
  ASSUME NEW q \in Seq(Pkt), NEW u, NEW s, NEW g,
         \A i \in 1 .. Len(q) : q[i].type = "PD" /\ ~Counts(q[i])
  PROVE  Chain(q, u, s, g)
<1>1. Len(q) \in Nat
  OBVIOUS
<1>2. \A i \in 1 .. Len(q) - 1 : ~Counts(q[i])
  BY <1>1
<1>3. Len(q) > 0 => ~Counts(q[Len(q)])
  BY <1>1
<1>4. QED
  BY <1>2, <1>3 DEF Chain

\* Time passes for all packets, and for the publisher.
LEMMA ChainTick ==
  ASSUME NEW p \in Seq(Pkt), NEW q \in Seq(Pkt), NEW u, NEW s, NEW g, Chain(p, u, s, g),
         Len(q) = Len(p),
         \A i \in 1 .. Len(p) :
           /\ q[i].type = p[i].type /\ q[i].seq = p[i].seq /\ q[i].ok = p[i].ok
           /\ q[i].live = p[i].live /\ q[i].age = p[i].age + 1 /\ p[i].age \in Nat
  PROVE  /\ u => Chain(q, u, s, g + 1)
         /\ ~u => Chain(q, u, s, 0)
         /\ \A l, a \in Nat : Follows(p, l, a, s, g) => Follows(q, l, a + 1, s, g + 1)
<1>0. Len(p) \in Nat /\ MaxGap \in Nat
  BY SourceAssumption
<1>2. \A i \in 1 .. Len(q) : Counts(q[i]) = Counts(p[i])
  BY DEF Counts
<1>1. \A i \in 1 .. Len(q) : q[i].type = "PD" /\ (Counts(q[i]) => u)
  BY <1>0, <1>2 DEF Chain
<1>3. ASSUME NEW i \in 1 .. Len(q), NEW l, NEW a \in Nat, Linked(l, a, p[i])
      PROVE  Linked(l, a + 1, q[i])
  BY <1>0, <1>3 DEF Linked
<1>4. ASSUME NEW i \in 1 .. Len(q) - 1, Counts(q[i])
      PROVE  Counts(q[i + 1]) /\ Linked(q[i].seq, q[i].age, q[i + 1])
  <2>1. i \in 1 .. Len(q) /\ i + 1 \in 1 .. Len(q) /\ i \in 1 .. Len(p) - 1
    BY <1>0
  <2>2. Counts(p[i])
    BY <1>2, <1>4, <2>1
  <2>3. Counts(p[i + 1]) /\ Linked(p[i].seq, p[i].age, p[i + 1])
    BY <2>1, <2>2 DEF Chain
  <2>4. Linked(p[i].seq, p[i].age + 1, q[i + 1])
    BY <1>3, <2>1, <2>3
  <2> QED
    BY <1>2, <2>1, <2>3, <2>4
<1>5. Len(q) > 0 => Len(q) \in 1 .. Len(q)
  BY <1>0
<1>6. Len(q) > 0 /\ Counts(q[Len(q)]) => q[Len(q)].seq = s /\ q[Len(q)].age = g + 1
  BY <1>2, <1>5 DEF Chain
<1>7. \A l, a \in Nat : Follows(p, l, a, s, g) => Follows(q, l, a + 1, s, g + 1)
  <2> SUFFICES ASSUME NEW l \in Nat, NEW a \in Nat, Follows(p, l, a, s, g)
               PROVE  Follows(q, l, a + 1, s, g + 1)
    OBVIOUS
  <2>1. Len(q) > 0 => 1 \in 1 .. Len(q)
    BY <1>0
  <2>2. Len(q) > 0 => Counts(q[1]) /\ Linked(l, a + 1, q[1])
    BY <1>2, <1>3, <2>1 DEF Follows
  <2> QED
    BY <2>2 DEF Follows
<1>8. QED
  BY <1>1, <1>4, <1>6, <1>7 DEF Chain

\* What is under way, place by place.
LEMMA UnderWay ==
  ASSUME NEW r \in Seq(Pkt), NEW n \in Seq(Pkt)
  PROVE  /\ r \o n \in Seq(Pkt) /\ Len(r \o n) = Len(r) + Len(n)
         /\ Len(r) \in Nat /\ Len(n) \in Nat
         /\ \A i \in 1 .. Len(r) : (r \o n)[i] = r[i]
         /\ \A i \in Len(r) + 1 .. Len(r) + Len(n) : (r \o n)[i] = n[i - Len(r)]
<1>1. /\ r \o n \in Seq(Pkt) /\ Len(r \o n) = Len(r) + Len(n)
      /\ \A i \in 1 .. Len(r) + Len(n) :
           (r \o n)[i] = IF i <= Len(r) THEN r[i] ELSE n[i - Len(r)]
  BY ConcatProperties
<1>2. Len(r) \in Nat /\ Len(n) \in Nat
  OBVIOUS
<1> DEFINE c == r \o n
<1>3. /\ c \in Seq(Pkt) /\ Len(c) = Len(r) + Len(n)
      /\ \A i \in 1 .. Len(r) + Len(n) : c[i] = IF i <= Len(r) THEN r[i] ELSE n[i - Len(r)]
  BY <1>1
<1> HIDE DEF c
<1>4. /\ \A i \in 1 .. Len(r) : c[i] = r[i]
      /\ \A i \in Len(r) + 1 .. Len(r) + Len(n) : c[i] = n[i - Len(r)]
  BY <1>2, <1>3
<1>5. QED
  BY <1>2, <1>3, <1>4 DEF c

\* No packet under way is older than MaxWait.
LEMMA UnderWayYoung ==
  ASSUME SubInv
  PROVE  /\ rx \in Seq(Pkt) /\ net \in Seq(Pkt)
         /\ \A i \in DOMAIN rx : rx[i].age <= MaxWait
         /\ \A i \in DOMAIN net : net[i].age <= MaxWait
         /\ \A i \in 1 .. Len(rx \o net) :
              (rx \o net)[i] \in Pkt /\ (rx \o net)[i].age <= MaxWait
<1>0. /\ rx \in Seq(Pkt) /\ net \in Seq(Pkt) /\ RxYoung /\ NetYoung /\ rwait \in 0 .. RecvPoll
      /\ Len(rx) \in Nat /\ Len(net) \in Nat
      /\ DOMAIN rx = 1 .. Len(rx) /\ DOMAIN net = 1 .. Len(net)
  BY DEF SubInv, Typed, TypeOK
<1>1. ASSUME NEW i \in DOMAIN rx PROVE rx[i].age <= MaxWait
  <2>1. rx[i] \in Pkt /\ rx[i].age \in Nat /\ i \in Int /\ i >= 1
    BY <1>0, ElementOfSeq, PktTypes
  <2>2. rx[i].age <= WaitAt(i) + RecvPoll
    <3>1. rx[i].age <= WaitAt(i) + (IF holder = "recv" THEN RecvPoll ELSE rwait)
      BY <1>0 DEF RxYoung
    <3>2. WaitAt(i) \in Int
      BY <2>1, WaitFacts
    <3> QED
      BY <1>0, <2>1, <3>1, <3>2, Numbers
  <2>3. WaitAt(i) + RecvPoll <= MaxWait
    <3>1. ASSUME NEW x \in Nat, NEW y \in Nat PROVE x * y \in Nat
      OBVIOUS
    <3>2. (i - 1) * RecvPoll \in Nat
      BY <2>1, <3>1, Numbers
    <3>3. RxCap * RecvPoll = (RxCap - i) * RecvPoll + RecvPoll + (i - 1) * RecvPoll
          /\ (RxCap - i) * RecvPoll \in Int
      BY <2>1, Numbers
    <3> QED
      BY <3>2, <3>3, Numbers DEF WaitAt, MaxWait
  <2>4. WaitAt(i) \in Int
    BY <2>1, WaitFacts
  <2> QED
    BY <2>1, <2>2, <2>3, <2>4, Numbers
<1>2. ASSUME NEW i \in DOMAIN net PROVE net[i].age <= MaxWait
  <2>1. net[i].age \in Nat /\ net[i].age <= NetDelay
    BY <1>0, ElementOfSeq, PktTypes DEF NetYoung
  <2>2. RxCap * RecvPoll \in Nat
    BY Numbers
  <2> QED
    BY <2>1, <2>2, Numbers DEF MaxWait
<1> DEFINE p == rx \o net
<1>3. /\ p \in Seq(Pkt) /\ Len(p) = Len(rx) + Len(net)
      /\ \A i \in 1 .. Len(rx) : p[i] = rx[i]
      /\ \A i \in Len(rx) + 1 .. Len(rx) + Len(net) : p[i] = net[i - Len(rx)]
  BY <1>0, UnderWay
<1> HIDE DEF p
<1>4. ASSUME NEW i \in 1 .. Len(p) PROVE p[i] \in Pkt /\ p[i].age <= MaxWait
  <2>1. p[i] \in Pkt
    BY <1>3, ElementOfSeq
  <2>2. CASE i \in 1 .. Len(rx)
    BY <1>0, <1>1, <1>3, <2>1, <2>2
  <2>3. CASE i \in Len(rx) + 1 .. Len(rx) + Len(net)
    <3>1. p[i] = net[i - Len(rx)] /\ i - Len(rx) \in DOMAIN net
      BY <1>0, <1>3, <2>3
    <3> QED
      BY <1>2, <2>1, <3>1
  <2> QED
    BY <1>0, <1>3, <2>2, <2>3
<1>5. QED
  BY <1>0, <1>1, <1>2, <1>4 DEF p

\* The heart of the argument: the timer of a good subscription is running.
LEMMA GoodTimer ==
  ASSUME ChainInv, hist.good, Timeout > MaxGap + MaxWait
  PROVE  sub.ttg \in Int /\ sub.ttg > 0 /\ ~sub.timedOut
<1>0. SubInv /\ Subscribed /\ up /\ ~sub.timedOut /\ gap \in 0 .. MaxGap /\ MaxGap \in Nat
  BY SourceAssumption DEF ChainInv, TimerFollowsChain, SubInv, Typed, TypeOK
<1>1. sub.ttg \in Int
  BY <1>0, SubTypes DEF SubInv, Typed, TypeOK, Subscribed
<1> DEFINE p == rx \o net
<1>2. PICK a \in Nat : Timeout - sub.ttg <= a /\ Follows(p, hist.last, a, seq, gap)
  BY DEF ChainInv, TimerFollowsChain
<1>3. /\ p \in Seq(Pkt) /\ Len(p) \in Nat
      /\ \A i \in 1 .. Len(p) : p[i] \in Pkt /\ p[i].age <= MaxWait
  <2>1. rx \in Seq(Pkt) /\ net \in Seq(Pkt)
    BY <1>0, UnderWayYoung
  <2>2. p \in Seq(Pkt)
    BY <2>1, UnderWay
  <2>3. \A i \in 1 .. Len(p) : p[i] \in Pkt /\ p[i].age <= MaxWait
    BY <1>0, UnderWayYoung
  <2> HIDE DEF p
  <2> QED
    BY <2>2, <2>3
<1> HIDE DEF p
<1>4. a <= MaxGap + MaxWait
  <2>1. CASE Len(p) = 0
    BY <1>0, <1>2, <2>1, Numbers DEF Follows
  <2>2. CASE Len(p) > 0
    <3>1. Linked(hist.last, a, p[1]) /\ 1 \in 1 .. Len(p)
      BY <1>2, <1>3, <2>2 DEF Follows
    <3>2. p[1].age \in Nat /\ p[1].age <= MaxWait
      BY <1>3, <3>1, PktTypes
    <3> QED
      BY <1>0, <3>1, <3>2, Numbers DEF Linked
  <2> QED
    BY <1>3, <2>1, <2>2
<1>5. QED
  BY <1>0, <1>1, <1>2, <1>4, Numbers

\* Without reordering the network takes the first packet.
LEMMA FirstTaken ==
  ASSUME NEW q \in Seq(Pkt), NEW i \in DOMAIN q, i = 1
  PROVE  /\ RemoveAt(q, i) \in Seq(Pkt) /\ Len(RemoveAt(q, i)) = Len(q) - 1
         /\ \A j \in 1 .. Len(q) - 1 : RemoveAt(q, i)[j] = q[j + 1]
<1> DEFINE r == RemoveAt(q, i)
<1>1. r \in Seq(Pkt) /\ Len(r) = Len(q) - 1 /\ \A j \in i .. Len(q) - 1 : r[j] = q[j + 1]
  BY RemoveAtFacts
<1> HIDE DEF r
<1>2. \A j \in 1 .. Len(q) - 1 : r[j] = q[j + 1]
  BY <1>1
<1>3. QED
  BY <1>1, <1>2 DEF r

\* Packets that were marked do not count.
LEMMA OldDoNotCount ==
  ASSUME NEW q \in Seq(Pkt), \A i \in 1 .. Len(q) : q[i].type = "PD"
  PROVE  /\ Old(q) \in Seq(Pkt) /\ Len(Old(q)) = Len(q)
         /\ \A i \in 1 .. Len(q) : Old(q)[i].type = "PD" /\ ~Counts(Old(q)[i])
<1>0. ASSUME NEW m \in Pkt
      PROVE  [m EXCEPT !.live = FALSE].type = m.type /\ ~[m EXCEPT !.live = FALSE].live
  BY DEF Pkt
<1>1. \A i \in 1 .. Len(q) : /\ [q[i] EXCEPT !.live = FALSE].type = q[i].type
                             /\ ~[q[i] EXCEPT !.live = FALSE].live
  BY <1>0, ElementOfSeq
<1>2. DOMAIN q = 1 .. Len(q)
  OBVIOUS
<1>3. \A i \in 1 .. Len(q) : Old(q)[i] = [q[i] EXCEPT !.live = FALSE]
  BY <1>2 DEF Old
<1>4. Old(q) \in Seq(Pkt) /\ Len(Old(q)) = Len(q)
  BY OldFacts
<1> DEFINE o == Old(q)
<1>5. \A i \in 1 .. Len(q) : o[i].type = "PD" /\ ~o[i].live
  BY <1>1, <1>3
<1> HIDE DEF o
<1>6. \A i \in 1 .. Len(q) : o[i].type = "PD" /\ ~Counts(o[i])
  BY <1>5 DEF Counts
<1>7. QED
  BY <1>4, <1>6 DEF o

\* Nor does a packet of a publisher that stopped.
LEMMA FormerDoNotCount ==
  ASSUME NEW q \in Seq(Pkt), \A i \in 1 .. Len(q) : q[i].type = "PD"
  PROVE  /\ Former(q) \in Seq(Pkt) /\ Len(Former(q)) = Len(q)
         /\ \A i \in 1 .. Len(q) : Former(q)[i].type = "PD" /\ ~Counts(Former(q)[i])
<1>0. ASSUME NEW m \in Pkt
      PROVE  [m EXCEPT !.live = FALSE, !.no = -1].type = m.type /\ ~[m EXCEPT !.live = FALSE, !.no = -1].live
  BY DEF Pkt
<1>1. \A i \in 1 .. Len(q) : /\ [q[i] EXCEPT !.live = FALSE, !.no = -1].type = q[i].type
                             /\ ~[q[i] EXCEPT !.live = FALSE, !.no = -1].live
  BY <1>0, ElementOfSeq
<1>2. DOMAIN q = 1 .. Len(q)
  OBVIOUS
<1>3. \A i \in 1 .. Len(q) : Former(q)[i] = [q[i] EXCEPT !.live = FALSE, !.no = -1]
  BY <1>2 DEF Former
<1>4. Former(q) \in Seq(Pkt) /\ Len(Former(q)) = Len(q)
  BY FormerFacts
<1> DEFINE o == Former(q)
<1>5. \A i \in 1 .. Len(q) : o[i].type = "PD" /\ ~o[i].live
  BY <1>1, <1>3
<1> HIDE DEF o
<1>6. \A i \in 1 .. Len(q) : o[i].type = "PD" /\ ~Counts(o[i])
  BY <1>5 DEF Counts
<1>7. QED
  BY <1>4, <1>6 DEF o

\* All packets in the buffer and on their way are PD packets.
LEMMA AllPd ==
  ASSUME ChainInv
  PROVE  /\ rx \in Seq(Pkt) /\ net \in Seq(Pkt) /\ hist \in HistType
         /\ \A i \in 1 .. Len(rx) : rx[i].type = "PD"
         /\ \A i \in 1 .. Len(net) : net[i].type = "PD"
<1>0. rx \in Seq(Pkt) /\ net \in Seq(Pkt) /\ hist \in HistType
  BY DEF ChainInv, SubInv, Typed, TypeOK
<1> DEFINE p == rx \o net
<1>1. \A i \in 1 .. Len(p) : p[i].type = "PD"
  BY DEF ChainInv, Chain
<1>2. /\ Len(p) = Len(rx) + Len(net) /\ Len(rx) \in Nat /\ Len(net) \in Nat
      /\ \A i \in 1 .. Len(rx) : p[i] = rx[i]
      /\ \A i \in Len(rx) + 1 .. Len(rx) + Len(net) : p[i] = net[i - Len(rx)]
  BY <1>0, UnderWay
<1> HIDE DEF p
<1>3. \A i \in 1 .. Len(rx) : rx[i].type = "PD"
  BY <1>1, <1>2
<1>4. ASSUME NEW i \in 1 .. Len(net) PROVE net[i].type = "PD"
  <2>1. /\ i + Len(rx) \in Len(rx) + 1 .. Len(rx) + Len(net) /\ i + Len(rx) \in 1 .. Len(p)
        /\ (i + Len(rx)) - Len(rx) = i
    BY <1>2
  <2>2. p[i + Len(rx)] = net[i]
    BY <1>2, <2>1
  <2> QED
    BY <1>1, <2>1, <2>2
<1>5. QED
  BY <1>0, <1>3, <1>4

\* Steps after which nothing under way counts.
LEMMA DeadChain ==
  ASSUME SubInv', ~pr', ~hist'.pp, ~hist'.good,
         NEW r \in Seq(Pkt), NEW n \in Seq(Pkt), rx' = r, net' = n,
         \A i \in 1 .. Len(r) : r[i].type = "PD" /\ ~Counts(r[i]),
         \A i \in 1 .. Len(n) : n[i].type = "PD" /\ ~Counts(n[i])
  PROVE  ChainInv'
<1> DEFINE q == r \o n
<1>1. /\ q \in Seq(Pkt) /\ Len(q) = Len(r) + Len(n) /\ Len(r) \in Nat /\ Len(n) \in Nat
      /\ \A i \in 1 .. Len(r) : q[i] = r[i]
      /\ \A i \in Len(r) + 1 .. Len(r) + Len(n) : q[i] = n[i - Len(r)]
  BY UnderWay
<1>2. rx' \o net' = q
  OBVIOUS
<1> HIDE DEF q
<1>3. ASSUME NEW i \in 1 .. Len(q) PROVE q[i].type = "PD" /\ ~Counts(q[i])
  <2>1. CASE i \in 1 .. Len(r)
    BY <1>1, <2>1
  <2>2. CASE i \in Len(r) + 1 .. Len(r) + Len(n)
    <3>1. i - Len(r) \in 1 .. Len(n)
      BY <1>1, <2>2
    <3>2. q[i] = n[i - Len(r)]
      BY <1>1, <2>2
    <3> QED
      BY <3>1, <3>2
  <2> QED
    BY <1>1, <2>1, <2>2
<1>4. Chain(q, up', seq', gap')
  BY <1>1, <1>3, ChainDead
<1>5. TimerFollowsChain'
  BY DEF TimerFollowsChain
<1>6. QED
  BY <1>2, <1>4, <1>5 DEF ChainInv

\* Steps after which what is under way is what was, in its order.
LEMMA SameChain ==
  ASSUME ChainInv, SubInv', ~pr', UNCHANGED <<up, seq, gap>>, ~hist'.pp,
         rx' \in Seq(Pkt), net' \in Seq(Pkt),
         NEW q \in Seq(Pkt), q = rx' \o net', Len(q) = Len(rx \o net),
         \A i \in 1 .. Len(q) : q[i] = (rx \o net)[i],
         hist'.good => /\ hist.good /\ hist'.last = hist.last /\ Subscribed'
                       /\ sub'.ttg = sub.ttg
                       /\ Timeout > MaxGap + MaxWait => ~sub'.timedOut
  PROVE  ChainInv'
<1>0. rx \in Seq(Pkt) /\ net \in Seq(Pkt)
  BY AllPd
<1> DEFINE p == rx \o net
<1>1. p \in Seq(Pkt) /\ Chain(p, up, seq, gap) /\ Len(p) = Len(q)
      /\ \A i \in 1 .. Len(q) : q[i] = p[i]
  BY <1>0, UnderWay DEF ChainInv
<1>2. TimerFollowsChain /\ (hist.good => \E a \in Nat : Timeout - sub.ttg <= a
                                           /\ Follows(p, hist.last, a, seq, gap))
  BY DEF ChainInv, TimerFollowsChain
<1> HIDE DEF p
<1>3. Len(q) \in Nat /\ 0 \in 0 .. Len(p) /\ Len(q) = Len(p) - 0
      /\ \A i \in 1 .. Len(q) : q[i] = p[i + 0]
  BY <1>1
<1>4. Chain(q, up, seq, gap)
  BY <1>1, <1>3, ChainDrop
<1>5. ASSUME NEW a \in Nat, Follows(p, hist.last, a, seq, gap)
      PROVE  Follows(q, hist.last, a, seq, gap)
  BY <1>1, <1>3, <1>5 DEF Follows
<1>6. TimerFollowsChain'
  <2> SUFFICES ASSUME hist'.good
               PROVE  /\ Subscribed' /\ up' /\ hist'.last # -1
                      /\ \E a \in Nat : /\ Timeout - sub'.ttg <= a
                                        /\ Follows(q, hist'.last, a, seq', gap')
                      /\ Timeout > MaxGap + MaxWait => ~sub'.timedOut
    BY DEF TimerFollowsChain
  <2>1. PICK a \in Nat : Timeout - sub.ttg <= a /\ Follows(p, hist.last, a, seq, gap)
    BY <1>2
  <2>2. Timeout - sub'.ttg <= a /\ Follows(q, hist'.last, a, seq', gap')
    BY <1>5, <2>1
  <2>3. up' /\ hist'.last # -1
    BY <1>2 DEF TimerFollowsChain
  <2> QED
    BY <2>2, <2>3
<1>7. QED
  BY <1>4, <1>6 DEF ChainInv

\* The publisher sends.
LEMMA PubPdChain == ASSUME ChainInv, PubPd PROVE ChainInv'
<1>0. /\ rx \in Seq(Pkt) /\ net \in Seq(Pkt) /\ seq \in Counters /\ gap \in 0 .. MaxGap
      /\ SubInv /\ Chain(rx \o net, up, seq, gap) /\ TimerFollowsChain /\ ~pr /\ ~hist.pp
  BY DEF ChainInv, SubInv, Typed, TypeOK
<1>1. /\ UNCHANGED <<sub, rx, rwait, holder, blocking, told, pr, hist>>
      /\ up' = TRUE /\ gap' = 0 /\ seq' = Bump(seq)
  BY NetAssumption DEF PubPd, SourcePd, recvVars, Bump
<1>2. SubInv'
  BY <1>0, PubPdInv
<1>3. PICK d \in Data : net' = Append(net, [type |-> "PD", seq |-> seq', data |-> d,
                                            ok |-> TRUE, age |-> 0, live |-> TRUE,
                                            no |-> seq'])
  BY DEF PubPd, Transmit
<1> DEFINE m == [type |-> "PD", seq |-> seq', data |-> d, ok |-> TRUE, age |-> 0, live |-> TRUE,
                 no |-> seq']
           n == Append(net, m)
           p == rx \o net
           q == rx \o n
<1>4. m \in Pkt /\ m.type = "PD" /\ m.live /\ m.ok /\ m.age = 0 /\ m.seq = Bump(seq)
  <2>1. seq' \in Counters
    BY <1>2 DEF SubInv, Typed, TypeOK
  <2> QED
    BY <1>1, <2>1 DEF Pkt, Types
<1>5. net' = n
  BY <1>3
<1> HIDE DEF m
<1>6. /\ n \in Seq(Pkt) /\ Len(n) = Len(net) + 1
      /\ \A i \in 1 .. Len(net) : n[i] = net[i]
      /\ n[Len(net) + 1] = m
  BY <1>0, <1>4, AppendProperties
<1>7. /\ p \in Seq(Pkt) /\ Len(p) = Len(rx) + Len(net)
      /\ Len(rx) \in Nat /\ Len(net) \in Nat
      /\ \A i \in 1 .. Len(rx) : p[i] = rx[i]
      /\ \A i \in Len(rx) + 1 .. Len(rx) + Len(net) : p[i] = net[i - Len(rx)]
  BY <1>0, UnderWay
<1> HIDE DEF n
<1>8. /\ q \in Seq(Pkt) /\ Len(q) = Len(rx) + Len(n)
      /\ \A i \in 1 .. Len(rx) : q[i] = rx[i]
      /\ \A i \in Len(rx) + 1 .. Len(rx) + Len(n) : q[i] = n[i - Len(rx)]
  BY <1>0, <1>6, UnderWay
<1>9. rx' \o net' = q
  BY <1>1, <1>5
<1>10. Chain(p, up, seq, gap)
  BY <1>0
<1>11. hist.good => \E a \in Nat : Timeout - sub.ttg <= a /\ Follows(p, hist.last, a, seq, gap)
  BY <1>0 DEF TimerFollowsChain
<1> HIDE DEF p, q
<1>12. Len(q) = Len(p) + 1
  BY <1>6, <1>7, <1>8
<1>13. ASSUME NEW i \in 1 .. Len(p) PROVE q[i] = p[i]
  <2>1. CASE i \in 1 .. Len(rx)
    BY <1>7, <1>8, <2>1
  <2>2. CASE i \in Len(rx) + 1 .. Len(rx) + Len(net)
    <3>1. p[i] = net[i - Len(rx)] /\ i - Len(rx) \in 1 .. Len(net)
      BY <1>7, <2>2
    <3>2. q[i] = n[i - Len(rx)]
      BY <1>6, <1>7, <1>8, <2>2
    <3> QED
      BY <1>6, <3>1, <3>2
  <2> QED
    BY <1>7, <2>1, <2>2
<1>14. q[Len(p) + 1] = m
  <2>1. Len(p) + 1 \in Len(rx) + 1 .. Len(rx) + Len(n) /\ (Len(p) + 1) - Len(rx) = Len(net) + 1
    BY <1>6, <1>7
  <2> QED
    BY <1>6, <1>8, <2>1
<1>15. /\ Chain(q, TRUE, Bump(seq), 0)
       /\ \A l, a : Follows(p, l, a, seq, gap) => Follows(q, l, a, Bump(seq), 0)
  BY <1>0, <1>4, <1>7, <1>8, <1>10, <1>12, <1>13, <1>14, ChainSend
<1>16. TimerFollowsChain'
  <2> SUFFICES ASSUME hist'.good
               PROVE  /\ Subscribed' /\ up' /\ hist'.last # -1
                      /\ \E a \in Nat : /\ Timeout - sub'.ttg <= a
                                        /\ Follows(q, hist'.last, a, seq', gap')
                      /\ Timeout > MaxGap + MaxWait => ~sub'.timedOut
    BY <1>9 DEF TimerFollowsChain
  <2>1. PICK a \in Nat : Timeout - sub.ttg <= a /\ Follows(p, hist.last, a, seq, gap)
    BY <1>1, <1>11
  <2>2. Timeout - sub'.ttg <= a /\ Follows(q, hist'.last, a, seq', gap')
    BY <1>1, <1>15, <2>1
  <2>3. /\ Subscribed' /\ hist'.last # -1
        /\ Timeout > MaxGap + MaxWait => ~sub'.timedOut
    BY <1>0, <1>1 DEF TimerFollowsChain, Subscribed
  <2> QED
    BY <1>1, <2>2, <2>3
<1>17. Chain(rx' \o net', up', seq', gap')
  BY <1>1, <1>9, <1>15
<1>18. QED
  BY <1>0, <1>1, <1>2, <1>16, <1>17 DEF ChainInv

\* Losing something is noted.
LEMMA BrokenIsNotGood == ASSUME hist \in HistType PROVE ~Broken.good /\ Broken.pp = hist.pp
  BY DEF Broken, HistType

LEMMA PubDownChain == ASSUME ChainInv, PubDown PROVE ChainInv'
<1>0. /\ rx \in Seq(Pkt) /\ net \in Seq(Pkt) /\ hist \in HistType /\ SubInv
      /\ \A i \in 1 .. Len(rx) : rx[i].type = "PD"
      /\ \A i \in 1 .. Len(net) : net[i].type = "PD"
      /\ ~pr /\ ~hist.pp
  BY AllPd DEF ChainInv
<1>1. net' = Former(net) /\ rx' = Former(rx) /\ hist' = [Broken EXCEPT !.at = -1] /\ pr' = pr
  BY DEF PubDown
<1> DEFINE r == Former(rx)
           n == Former(net)
<1>2. /\ r \in Seq(Pkt) /\ Len(r) = Len(rx)
      /\ \A i \in 1 .. Len(rx) : r[i].type = "PD" /\ ~Counts(r[i])
  BY <1>0, FormerDoNotCount
<1>3. /\ n \in Seq(Pkt) /\ Len(n) = Len(net)
      /\ \A i \in 1 .. Len(net) : n[i].type = "PD" /\ ~Counts(n[i])
  BY <1>0, FormerDoNotCount
<1>4. rx' = r /\ net' = n
  BY <1>1
<1> HIDE DEF r, n
<1>5. SubInv' /\ ~pr' /\ ~hist'.pp /\ ~hist'.good
  BY <1>0, <1>1, PubDownInv, DownFacts
<1>6. QED
  BY <1>2, <1>3, <1>4, <1>5, DeadChain

\* A packet is lost on its way, or damaged.
LEMMA LoseChain == ASSUME ChainInv, Reorder = FALSE, Lose \/ Damage PROVE ChainInv'
<1>0. /\ rx \in Seq(Pkt) /\ net \in Seq(Pkt) /\ hist \in HistType /\ SubInv
      /\ \A i \in 1 .. Len(rx) : rx[i].type = "PD"
      /\ \A i \in 1 .. Len(net) : net[i].type = "PD"
      /\ DOMAIN net = 1 .. Len(net) /\ ~pr /\ ~hist.pp
  BY AllPd DEF ChainInv
<1>1. PICK i \in Movable : /\ \/ rx' = Old(rx) \o <<>>
                              \/ rx' = Old(rx) \o <<[net[i] EXCEPT !.ok = FALSE]>>
                           /\ net' = Old(RemoveAt(net, i)) /\ hist' = Broken /\ pr' = pr
  BY DEF Lose, Damage, Arrive
<1>2. i \in DOMAIN net /\ i = 1
  BY DEF Movable
<1> DEFINE k == RemoveAt(net, i)
           n == Old(k)
           o == Old(rx)
           m == [net[i] EXCEPT !.ok = FALSE]
<1>3. /\ o \in Seq(Pkt) /\ Len(o) = Len(rx)
      /\ \A j \in 1 .. Len(rx) : o[j].type = "PD" /\ ~Counts(o[j])
  BY <1>0, OldDoNotCount
<1>4. k \in Seq(Pkt) /\ Len(k) = Len(net) - 1 /\ \A j \in 1 .. Len(net) - 1 : k[j] = net[j + 1]
  BY <1>0, <1>2, FirstTaken
<1>5. m \in Pkt /\ m.type = "PD" /\ ~m.ok
  <2>1. net[i] \in Pkt /\ net[i].type = "PD"
    BY <1>0, <1>2, ElementOfSeq
  <2> QED
    BY <2>1 DEF Pkt
<1>6. net' = n /\ (rx' = o \o <<>> \/ rx' = o \o <<m>>)
  BY <1>1
<1> HIDE DEF k, o, m
<1>7. \A j \in 1 .. Len(k) : k[j].type = "PD"
  <2>1. Len(net) \in Nat
    BY <1>0
  <2>2. \A j \in 1 .. Len(k) : j + 1 \in 1 .. Len(net) /\ k[j] = net[j + 1]
    BY <1>4, <2>1
  <2> QED
    BY <1>0, <2>2
<1>8. n \in Seq(Pkt) /\ Len(n) = Len(k) /\ \A j \in 1 .. Len(k) : n[j].type = "PD" /\ ~Counts(n[j])
  BY <1>4, <1>7, OldDoNotCount
<1> HIDE DEF n
<1>9. SubInv' /\ ~pr' /\ ~hist'.pp /\ ~hist'.good
  BY <1>0, <1>1, NetworkInv, BrokenIsNotGood
<1>10. CASE rx' = o \o <<>>
  <2>1. rx' = o
    BY <1>3, <1>10, ConcatEmptySeq
  <2> QED
    BY <1>3, <1>6, <1>8, <1>9, <2>1, DeadChain
<1>11. CASE rx' = o \o <<m>>
  <2> DEFINE r == Append(o, m)
  <2>1. rx' = r
    BY <1>3, <1>5, <1>11, AppendIsConcat
  <2>2. /\ r \in Seq(Pkt) /\ Len(r) = Len(o) + 1
        /\ \A j \in 1 .. Len(o) : r[j] = o[j]
        /\ r[Len(o) + 1] = m
    BY <1>3, <1>5, AppendProperties
  <2> HIDE DEF r
  <2>3. Len(o) \in Nat
    BY <1>3
  <2>4. ASSUME NEW j \in 1 .. Len(r) PROVE r[j].type = "PD" /\ ~Counts(r[j])
    <3>1. CASE j \in 1 .. Len(o)
      BY <1>3, <2>2, <3>1
    <3>2. CASE j = Len(o) + 1
      BY <1>5, <2>2, <3>2 DEF Counts
    <3> QED
      BY <2>2, <2>3, <3>1, <3>2
  <2> QED
    BY <1>6, <1>8, <1>9, <2>1, <2>2, <2>4, DeadChain
<1>12. QED
  BY <1>6, <1>10, <1>11

\* The first packet on its way joins the buffer.
LEMMA JoinsBuffer ==
  ASSUME NEW r \in Seq(Pkt), NEW n \in Seq(Pkt), Len(n) > 0, NEW x \in Seq(Pkt)
  PROVE  LET q == (r \o <<n[1]>>) \o x
             p == r \o n
         IN  /\ q \in Seq(Pkt) /\ Len(q) = Len(r) + 1 + Len(x)
             /\ \A i \in 1 .. Len(r) + 1 : q[i] = p[i]
             /\ \A i \in Len(r) + 2 .. Len(r) + 1 + Len(x) : q[i] = x[i - (Len(r) + 1)]
<1>0. Len(r) \in Nat /\ Len(n) \in Nat /\ Len(x) \in Nat /\ n[1] \in Pkt
  BY ElementOfSeq
<1> DEFINE m == n[1]
           b == Append(r, m)
           p == r \o n
           q == b \o x
<1>1. r \o <<n[1]>> = b
  BY <1>0, AppendIsConcat
<1>2. /\ b \in Seq(Pkt) /\ Len(b) = Len(r) + 1
      /\ \A i \in 1 .. Len(r) : b[i] = r[i]
      /\ b[Len(r) + 1] = m
  BY <1>0, AppendProperties
<1>3. /\ \A i \in 1 .. Len(r) : p[i] = r[i]
      /\ \A i \in Len(r) + 1 .. Len(r) + Len(n) : p[i] = n[i - Len(r)]
  BY UnderWay
<1> HIDE DEF b, p
<1>4. /\ q \in Seq(Pkt) /\ Len(q) = Len(b) + Len(x)
      /\ \A i \in 1 .. Len(b) : q[i] = b[i]
      /\ \A i \in Len(b) + 1 .. Len(b) + Len(x) : q[i] = x[i - Len(b)]
  BY <1>2, UnderWay
<1> HIDE DEF q
<1>5. ASSUME NEW i \in 1 .. Len(r) + 1 PROVE q[i] = p[i]
  <2>1. CASE i \in 1 .. Len(r)
    BY <1>0, <1>2, <1>3, <1>4, <2>1
  <2>2. CASE i = Len(r) + 1
    <3>1. q[i] = n[1]
      BY <1>0, <1>2, <1>4, <2>2
    <3>2. i \in Len(r) + 1 .. Len(r) + Len(n) /\ i - Len(r) = 1
      BY <1>0, <2>2
    <3>3. p[i] = n[1]
      BY <1>3, <3>2
    <3> QED
      BY <3>1, <3>3
  <2> QED
    BY <1>0, <2>1, <2>2
<1>6. ASSUME NEW i \in Len(r) + 2 .. Len(r) + 1 + Len(x) PROVE q[i] = x[i - (Len(r) + 1)]
  <2>1. i \in Len(b) + 1 .. Len(b) + Len(x) /\ i - Len(b) = i - (Len(r) + 1)
    BY <1>0, <1>2
  <2> QED
    BY <1>4, <2>1
<1>7. Len(q) = Len(r) + 1 + Len(x)
  BY <1>2, <1>4
<1>8. q = (r \o <<n[1]>>) \o x /\ p = r \o n
  BY <1>1 DEF q, p
<1>9. QED
  BY <1>4, <1>5, <1>6, <1>7, <1>8

LEMMA DeliverChain == ASSUME ChainInv, Reorder = FALSE, Deliver PROVE ChainInv'
<1>0. rx \in Seq(Pkt) /\ net \in Seq(Pkt) /\ SubInv /\ ~pr /\ ~hist.pp /\ TimerFollowsChain
  BY AllPd DEF ChainInv
<1>1. PICK i \in Movable :
        /\ rx' = rx \o <<net[i]>> /\ net' = RemoveAt(net, i)
        /\ UNCHANGED <<up, gap, seq, sub, rwait, holder, blocking, told, pr, hist>>
  BY DEF Deliver, Arrive, sourceVars
<1>2. i \in DOMAIN net /\ i = 1 /\ Len(net) > 0 /\ Len(net) \in Nat /\ Len(rx) \in Nat
  BY <1>0 DEF Movable
<1> DEFINE x == RemoveAt(net, i)
           p == rx \o net
           q == (rx \o <<net[1]>>) \o x
<1>3. x \in Seq(Pkt) /\ Len(x) = Len(net) - 1 /\ \A j \in 1 .. Len(net) - 1 : x[j] = net[j + 1]
  BY <1>0, <1>2, FirstTaken
<1>4. q = rx' \o net'
  BY <1>1, <1>2
<1> HIDE DEF x
<1>5. /\ q \in Seq(Pkt) /\ Len(q) = Len(rx) + 1 + Len(x)
      /\ \A j \in 1 .. Len(rx) + 1 : q[j] = p[j]
      /\ \A j \in Len(rx) + 2 .. Len(rx) + 1 + Len(x) : q[j] = x[j - (Len(rx) + 1)]
  BY <1>0, <1>2, <1>3, JoinsBuffer
<1>6. /\ Len(p) = Len(rx) + Len(net)
      /\ \A j \in Len(rx) + 1 .. Len(rx) + Len(net) : p[j] = net[j - Len(rx)]
  BY <1>0, UnderWay
<1>7. SubInv' /\ rx' \in Seq(Pkt) /\ net' \in Seq(Pkt)
  <2>1. SubInv'
    BY <1>0, NetworkInv
  <2> QED
    BY <2>1 DEF SubInv, Typed, TypeOK
<1> HIDE DEF p, q
<1>8. ASSUME NEW j \in 1 .. Len(q) PROVE q[j] = p[j]
  <2>1. CASE j \in 1 .. Len(rx) + 1
    BY <1>5, <2>1
  <2>2. CASE j \in Len(rx) + 2 .. Len(rx) + 1 + Len(x)
    <3>1. /\ j - (Len(rx) + 1) \in 1 .. Len(net) - 1
          /\ (j - (Len(rx) + 1)) + 1 = j - Len(rx)
          /\ j \in Len(rx) + 1 .. Len(rx) + Len(net)
      BY <1>2, <1>3, <2>2
    <3>2. q[j] = net[j - Len(rx)]
      BY <1>3, <1>5, <2>2, <3>1
    <3>3. p[j] = net[j - Len(rx)]
      BY <1>6, <3>1
    <3> QED
      BY <3>2, <3>3
  <2> QED
    BY <1>2, <1>3, <1>5, <2>1, <2>2
<1>9. Len(q) = Len(p)
  BY <1>2, <1>3, <1>5, <1>6
<1>10. /\ Len(q) = Len(rx \o net) /\ \A j \in 1 .. Len(q) : q[j] = (rx \o net)[j]
  BY <1>8, <1>9 DEF p
<1>11. hist'.good => /\ hist.good /\ hist'.last = hist.last /\ Subscribed'
                     /\ sub'.ttg = sub.ttg
                     /\ Timeout > MaxGap + MaxWait => ~sub'.timedOut
  BY <1>0, <1>1 DEF TimerFollowsChain, Subscribed
<1>12. UNCHANGED <<up, seq, gap>> /\ ~pr' /\ ~hist'.pp
  BY <1>0, <1>1
<1>13. QED
  BY <1>4, <1>5, <1>7, <1>10, <1>11, <1>12, SameChain

LEMMA TwiceChain == ASSUME ChainInv, Reorder = FALSE, Twice PROVE ChainInv'
<1>0. /\ rx \in Seq(Pkt) /\ net \in Seq(Pkt) /\ SubInv /\ ~pr /\ ~hist.pp /\ TimerFollowsChain
      /\ Chain(rx \o net, up, seq, gap)
  BY AllPd DEF ChainInv
<1>1. PICK i \in Movable :
        /\ rx' = rx \o <<net[i]>>
        /\ UNCHANGED <<up, gap, seq, sub, rwait, holder, blocking, told, pr, net, hist>>
  BY DEF Twice, Arrive, sourceVars
<1>2. i \in DOMAIN net /\ i = 1 /\ Len(net) > 0 /\ Len(net) \in Nat /\ Len(rx) \in Nat
  BY <1>0 DEF Movable
<1> DEFINE p == rx \o net
           q == (rx \o <<net[1]>>) \o net
           k == Len(rx) + 1
<1>3. q = rx' \o net'
  BY <1>1, <1>2
<1>4. /\ q \in Seq(Pkt) /\ Len(q) = Len(rx) + 1 + Len(net)
      /\ \A j \in 1 .. Len(rx) + 1 : q[j] = p[j]
      /\ \A j \in Len(rx) + 2 .. Len(rx) + 1 + Len(net) : q[j] = net[j - (Len(rx) + 1)]
  BY <1>0, <1>2, JoinsBuffer
<1>5. /\ p \in Seq(Pkt) /\ Len(p) = Len(rx) + Len(net)
      /\ \A j \in Len(rx) + 1 .. Len(rx) + Len(net) : p[j] = net[j - Len(rx)]
  BY <1>0, UnderWay
<1>6. SubInv'
  BY <1>0, NetworkInv
<1>7. Chain(p, up, seq, gap)
  BY <1>0
<1>8. hist.good => \E a \in Nat : Timeout - sub.ttg <= a /\ Follows(p, hist.last, a, seq, gap)
  BY <1>0 DEF TimerFollowsChain
<1> HIDE DEF p, q
<1>9. ASSUME NEW j \in k + 1 .. Len(q) PROVE q[j] = p[j - 1]
  <2>1. /\ j \in Len(rx) + 2 .. Len(rx) + 1 + Len(net)
        /\ j - 1 \in Len(rx) + 1 .. Len(rx) + Len(net)
        /\ j - (Len(rx) + 1) = (j - 1) - Len(rx)
    BY <1>2, <1>4
  <2> QED
    BY <1>4, <1>5, <2>1
<1>10. k \in 1 .. Len(p) /\ Len(q) = Len(p) + 1 /\ \A j \in 1 .. k : q[j] = p[j]
  BY <1>2, <1>4, <1>5
<1> HIDE DEF k
<1>11. /\ Chain(q, up, seq, gap)
       /\ \A l, a : Follows(p, l, a, seq, gap) => Follows(q, l, a, seq, gap)
  BY <1>4, <1>5, <1>7, <1>9, <1>10, ChainTwice
<1>12. TimerFollowsChain'
  <2> SUFFICES ASSUME hist'.good
               PROVE  /\ Subscribed' /\ up' /\ hist'.last # -1
                      /\ \E a \in Nat : /\ Timeout - sub'.ttg <= a
                                        /\ Follows(q, hist'.last, a, seq', gap')
                      /\ Timeout > MaxGap + MaxWait => ~sub'.timedOut
    BY <1>3 DEF TimerFollowsChain
  <2>1. PICK a \in Nat : Timeout - sub.ttg <= a /\ Follows(p, hist.last, a, seq, gap)
    BY <1>1, <1>8
  <2>2. Timeout - sub'.ttg <= a /\ Follows(q, hist'.last, a, seq', gap')
    BY <1>1, <1>11, <2>1
  <2>3. /\ Subscribed' /\ up' /\ hist'.last # -1
        /\ Timeout > MaxGap + MaxWait => ~sub'.timedOut
    BY <1>0, <1>1 DEF TimerFollowsChain, Subscribed
  <2> QED
    BY <2>2, <2>3
<1>13. Chain(rx' \o net', up', seq', gap')
  BY <1>1, <1>3, <1>11
<1>14. QED
  BY <1>0, <1>1, <1>6, <1>12, <1>13 DEF ChainInv

\* Steps that leave all packets where they are.
LEMMA StillChain ==
  ASSUME ChainInv, SubInv', ~pr', UNCHANGED <<up, seq, gap, rx, net>>, ~hist'.pp,
         hist'.good => /\ hist.good /\ hist'.last = hist.last /\ Subscribed'
                       /\ sub'.ttg = sub.ttg
                       /\ Timeout > MaxGap + MaxWait => ~sub'.timedOut
  PROVE  ChainInv'
<1>1. rx \in Seq(Pkt) /\ net \in Seq(Pkt) /\ rx' \in Seq(Pkt) /\ net' \in Seq(Pkt)
  BY AllPd
<1> DEFINE q == rx \o net
<1>2. q \in Seq(Pkt)
  BY <1>1, UnderWay
<1>3. q = rx' \o net' /\ Len(q) = Len(rx \o net) /\ \A i \in 1 .. Len(q) : q[i] = (rx \o net)[i]
  OBVIOUS
<1> HIDE DEF q
<1>4. QED
  BY <1>1, <1>2, <1>3, SameChain

LEMMA PSubscribeChain == ASSUME ChainInv, PSubscribe PROVE ChainInv'
<1>1. UNCHANGED <<up, seq, gap, rx, net, pr>> /\ hist' = NoHist /\ ~pr /\ SubInv
  BY DEF PSubscribe, Subscribe, sourceVars, ChainInv
<1>2. ~hist'.good /\ ~hist'.pp
  BY <1>1 DEF NoHist
<1>3. SubInv'
  BY <1>1, PSubscribeInv
<1>4. QED
  BY <1>1, <1>2, <1>3, StillChain

LEMMA PUnsubscribeChain == ASSUME ChainInv, PUnsubscribe PROVE ChainInv'
<1>1. /\ UNCHANGED <<up, seq, gap, net, pr>> /\ rx' = <<>> /\ hist' = NoHist /\ ~pr /\ SubInv
      /\ rx \in Seq(Pkt) /\ net \in Seq(Pkt)
  BY AllPd DEF PUnsubscribe, Unsubscribe, sourceVars, ChainInv
<1>2. ~hist'.good /\ ~hist'.pp
  BY <1>1 DEF NoHist
<1>3. SubInv'
  BY <1>1, PUnsubscribeInv
<1>4. rx' \o net' = net
  BY <1>1, ConcatEmptySeq
<1> DEFINE p == rx \o net
           k == Len(rx)
<1>5. /\ p \in Seq(Pkt) /\ Len(p) = Len(rx) + Len(net) /\ Len(rx) \in Nat /\ Len(net) \in Nat
      /\ \A i \in Len(rx) + 1 .. Len(rx) + Len(net) : p[i] = net[i - Len(rx)]
  BY <1>1, UnderWay
<1>6. Chain(p, up, seq, gap)
  BY DEF ChainInv
<1> HIDE DEF p
<1>7. k \in 0 .. Len(p) /\ Len(net) = Len(p) - k
  BY <1>5
<1>8. ASSUME NEW i \in 1 .. Len(net) PROVE net[i] = p[i + k]
  <2>1. i + k \in Len(rx) + 1 .. Len(rx) + Len(net) /\ (i + k) - Len(rx) = i
    BY <1>5
  <2> QED
    BY <1>5, <2>1
<1> HIDE DEF k
<1>9. Chain(net, up, seq, gap)
  BY <1>1, <1>5, <1>6, <1>7, <1>8, ChainDrop
<1>10. TimerFollowsChain'
  BY <1>2 DEF TimerFollowsChain
<1>11. QED
  BY <1>1, <1>2, <1>3, <1>4, <1>9, <1>10 DEF ChainInv

LEMMA PProcessRecvChain == ASSUME ChainInv, PProcessRecv PROVE ChainInv'
<1>0. SubInv /\ hist \in HistType /\ ~pr /\ ~hist.pp /\ TimerFollowsChain /\ TypeOK
  BY AllPd DEF ChainInv, SubInv, Typed
<1>1. /\ UNCHANGED <<up, gap, seq, rx, net, pr>>
      /\ sub' = IF Late THEN [sub EXCEPT !.timedOut = TRUE] ELSE sub
      /\ hist' = IF Late THEN [hist EXCEPT !.forgiven = FALSE] ELSE hist
  BY DEF PProcessRecv, ProcessRecv, sourceVars
<1>2. SubInv'
  BY <1>0, PProcessRecvInv
<1>3. hist'.good = hist.good /\ hist'.last = hist.last /\ hist'.pp = hist.pp
  BY <1>0, <1>1 DEF HistType
<1>4. ASSUME hist.good
      PROVE  /\ Subscribed' /\ sub'.ttg = sub.ttg
             /\ Timeout > MaxGap + MaxWait => ~sub'.timedOut
  <2>1. Subscribed
    BY <1>0, <1>4 DEF TimerFollowsChain
  <2>2. sub \in Sub
    BY <1>0, <2>1, SubTypes DEF TypeOK, Subscribed
  <2>3. Subscribed' /\ sub'.ttg = sub.ttg
    BY <1>1, <2>1, <2>2 DEF Subscribed, Sub
  <2>4. ASSUME Timeout > MaxGap + MaxWait PROVE ~sub'.timedOut
    <3>1. sub.ttg \in Int /\ sub.ttg > 0 /\ ~sub.timedOut
      BY <1>4, <2>4, GoodTimer
    <3>2. ~Late
      BY <3>1 DEF Late
    <3> QED
      BY <1>1, <3>1, <3>2
  <2> QED
    BY <2>3, <2>4
<1>5. QED
  BY <1>0, <1>1, <1>2, <1>3, <1>4, StillChain

\* What is under way when the first packet of the buffer is read.
LEMMA ReadUnderWay ==
  ASSUME NEW r \in Seq(Pkt), NEW n \in Seq(Pkt), r # <<>>
  PROVE  LET p == r \o n
             q == Tail(r) \o n
         IN  /\ p \in Seq(Pkt) /\ q \in Seq(Pkt) /\ Len(p) > 0 /\ Len(q) = Len(p) - 1
             /\ p[1] = Head(r) /\ Len(p) \in Nat
             /\ \A i \in 1 .. Len(q) : q[i] = p[i + 1]
<1> DEFINE p == r \o n
           x == Tail(r)
           q == x \o n
<1>1. /\ Head(r) = r[1] /\ 1 \in DOMAIN r /\ x \in Seq(Pkt) /\ Len(x) = Len(r) - 1
      /\ \A i \in DOMAIN x : i + 1 \in DOMAIN r /\ x[i] = r[i + 1]
  BY TailFacts
<1>2. /\ p \in Seq(Pkt) /\ Len(p) = Len(r) + Len(n) /\ Len(r) \in Nat /\ Len(n) \in Nat
      /\ \A i \in 1 .. Len(r) : p[i] = r[i]
      /\ \A i \in Len(r) + 1 .. Len(r) + Len(n) : p[i] = n[i - Len(r)]
  BY UnderWay
<1> HIDE DEF x
<1>3. /\ q \in Seq(Pkt) /\ Len(q) = Len(x) + Len(n)
      /\ \A i \in 1 .. Len(x) : q[i] = x[i]
      /\ \A i \in Len(x) + 1 .. Len(x) + Len(n) : q[i] = n[i - Len(x)]
  BY <1>1, UnderWay
<1> HIDE DEF p, q
<1>4. Len(r) >= 1 /\ DOMAIN x = 1 .. Len(x) /\ DOMAIN r = 1 .. Len(r)
  BY <1>1
<1>5. ASSUME NEW i \in 1 .. Len(q) PROVE q[i] = p[i + 1]
  <2>1. CASE i \in 1 .. Len(x)
    <3>1. i + 1 \in 1 .. Len(r) /\ x[i] = r[i + 1]
      BY <1>1, <1>4, <2>1
    <3> QED
      BY <1>2, <1>3, <2>1, <3>1
  <2>2. CASE i \in Len(x) + 1 .. Len(x) + Len(n)
    <3>1. i + 1 \in Len(r) + 1 .. Len(r) + Len(n) /\ (i + 1) - Len(r) = i - Len(x)
      BY <1>1, <1>2, <1>4, <2>2
    <3>2. q[i] = n[i - Len(x)] /\ p[i + 1] = n[(i + 1) - Len(r)]
      BY <1>2, <1>3, <2>2, <3>1
    <3> QED
      BY <3>1, <3>2
  <2> QED
    BY <1>1, <1>2, <1>3, <1>4, <2>1, <2>2
<1>6. Len(p) > 0 /\ Len(q) = Len(p) - 1 /\ p[1] = Head(r) /\ Len(p) \in Nat
  BY <1>1, <1>2, <1>3, <1>4
<1>7. p = r \o n /\ q = Tail(r) \o n
  BY DEF p, q, x
<1>8. QED
  BY <1>2, <1>3, <1>5, <1>6, <1>7

\* A packet is read and not taken over.
LEMMA PDroppedChain == ASSUME ChainInv, PDropped PROVE ChainInv'
<1>0. /\ rx \in Seq(Pkt) /\ net \in Seq(Pkt) /\ hist \in HistType /\ SubInv /\ ~pr /\ ~hist.pp
  BY AllPd DEF ChainInv
<1>1. /\ UNCHANGED <<up, gap, seq, net, pr>> /\ rx # <<>> /\ rx' = Tail(rx) /\ hist' = Broken
  BY DEF PDropped, ReadCorrupt, ReadNoMem, sourceVars
<1>2. SubInv' /\ ~hist'.good /\ ~hist'.pp
  BY <1>0, <1>1, QuietInv, BrokenIsNotGood
<1> DEFINE p == rx \o net
           q == Tail(rx) \o net
<1>3. /\ p \in Seq(Pkt) /\ q \in Seq(Pkt) /\ Len(p) > 0 /\ Len(q) = Len(p) - 1
      /\ Len(p) \in Nat /\ \A i \in 1 .. Len(q) : q[i] = p[i + 1]
  BY <1>0, <1>1, ReadUnderWay
<1>4. Chain(p, up, seq, gap)
  BY DEF ChainInv
<1>5. q = rx' \o net'
  BY <1>1
<1> HIDE DEF p, q
<1>6. 1 \in 0 .. Len(p)
  BY <1>3
<1>7. Chain(q, up, seq, gap)
  BY <1>3, <1>4, <1>6, ChainDrop
<1>8. TimerFollowsChain'
  BY <1>2 DEF TimerFollowsChain
<1>9. QED
  BY <1>0, <1>1, <1>2, <1>5, <1>7, <1>8 DEF ChainInv

\* A copy of the packet that was accepted last is ignored.
LEMMA PQuietChain == ASSUME ChainInv, PQuiet PROVE ChainInv'
<1>0. /\ rx \in Seq(Pkt) /\ net \in Seq(Pkt) /\ hist \in HistType /\ SubInv /\ ~pr /\ ~hist.pp
      /\ TimerFollowsChain
  BY AllPd DEF ChainInv
<1>1. UNCHANGED <<up, gap, seq, sub, net, pr, hist>>
  BY DEF PQuiet, Get, ReadDuplicate, ReadEmpty, sourceVars
<1>2. SubInv'
  BY <1>0, QuietInv
<1>3. CASE rx' = rx
  BY <1>0, <1>1, <1>2, <1>3, StillChain DEF TimerFollowsChain, Subscribed
<1>4. CASE rx' # rx
  <2>1. rx # <<>> /\ rx' = Tail(rx) /\ Duplicate(Head(rx))
    BY <1>4 DEF PQuiet, Get, ReadDuplicate, ReadEmpty
  <2> DEFINE p == rx \o net
             q == Tail(rx) \o net
  <2>2. /\ p \in Seq(Pkt) /\ q \in Seq(Pkt) /\ Len(p) > 0 /\ Len(q) = Len(p) - 1
        /\ p[1] = Head(rx) /\ Len(p) \in Nat /\ \A i \in 1 .. Len(q) : q[i] = p[i + 1]
    BY <1>0, <2>1, ReadUnderWay
  <2>3. Chain(p, up, seq, gap)
    BY DEF ChainInv
  <2>4. q = rx' \o net'
    BY <1>1, <2>1
  <2>5. hist.good => \E a \in Nat : Timeout - sub.ttg <= a /\ Follows(p, hist.last, a, seq, gap)
    BY <1>0 DEF TimerFollowsChain
  <2> HIDE DEF p, q
  <2>6. 1 \in 0 .. Len(p)
    BY <2>2
  <2>7. Chain(q, up, seq, gap)
    BY <2>2, <2>3, <2>6, ChainDrop
  <2>8. ASSUME hist.good
        PROVE  \E a \in Nat : Timeout - sub.ttg <= a /\ Follows(q, hist.last, a, seq, gap)
    <3>1. PICK a \in Nat : Timeout - sub.ttg <= a /\ Follows(p, hist.last, a, seq, gap)
      BY <2>5, <2>8
    <3>2. Counts(p[1]) /\ Linked(hist.last, a, p[1]) /\ p[1].type = "PD"
      BY <2>2, <2>3, <3>1 DEF Follows, Chain
    <3>3. p[1].seq = hist.last
      <4>1. Subscribed
        BY <1>0, <2>8 DEF TimerFollowsChain
      <4>2. sub.seqs["PD"] = hist.last
        BY <1>0, <4>1 DEF SubInv, SubFacts, CountersAgree
      <4> QED
        BY <2>1, <2>2, <3>2, <4>2 DEF Duplicate
    <3>4. hist.last \in Counters /\ hist.last # Bump(hist.last)
      <4>1. hist.last \in Counters
        BY <1>0, <2>8, HistTypes DEF TimerFollowsChain
      <4>2. CntMod \in Int /\ CntMod > 1
        BY PacketAssumption
      <4> DEFINE l == hist.last
      <4>3. l \in 0 .. CntMod - 1
        BY <4>1 DEF Counters
      <4> HIDE DEF l
      <4>4. (l + 1) % CntMod # l
        <5>1. CASE l = CntMod - 1
          <6>1. l + 1 = CntMod
            BY <4>2, <5>1
          <6>2. CntMod % CntMod = 0
            BY <4>2
          <6> QED
            BY <4>2, <5>1, <6>1, <6>2
        <5>2. CASE l # CntMod - 1
          <6>1. l + 1 \in 0 .. CntMod - 1
            BY <4>2, <4>3, <5>2
          <6>2. (l + 1) % CntMod = l + 1
            BY <4>2, <6>1
          <6> QED
            BY <4>2, <4>3, <6>2
        <5> QED
          BY <5>1, <5>2
      <4> QED
        BY <4>1, <4>4 DEF l, Bump
    <3>5. p[1].age = a
      BY <3>2, <3>3, <3>4 DEF Linked
    <3>6. Follows(q, p[1].seq, p[1].age, seq, gap)
      BY <2>2, <2>3, <3>2, ChainRead
    <3> QED
      BY <3>1, <3>3, <3>5, <3>6
  <2>9. TimerFollowsChain'
    <3> SUFFICES ASSUME hist'.good
                 PROVE  /\ Subscribed' /\ up' /\ hist'.last # -1
                        /\ \E a \in Nat : /\ Timeout - sub'.ttg <= a
                                          /\ Follows(q, hist'.last, a, seq', gap')
                        /\ Timeout > MaxGap + MaxWait => ~sub'.timedOut
      BY <2>4 DEF TimerFollowsChain
    <3>1. /\ Subscribed' /\ up' /\ hist'.last # -1
          /\ Timeout > MaxGap + MaxWait => ~sub'.timedOut
      BY <1>0, <1>1 DEF TimerFollowsChain, Subscribed
    <3>2. \E a \in Nat : Timeout - sub'.ttg <= a /\ Follows(q, hist'.last, a, seq', gap')
      BY <1>1, <2>8
    <3> QED
      BY <3>1, <3>2
  <2> QED
    BY <1>0, <1>1, <1>2, <2>4, <2>7, <2>9 DEF ChainInv
<1>5. QED
  BY <1>3, <1>4

\* A packet that is taken over is the new start of the chain.
LEMMA PReadAcceptChain == ASSUME ChainInv, PReadAccept PROVE ChainInv'
<1> DEFINE m == Head(rx)
           p == rx \o net
           q == Tail(rx) \o net
<1>0. /\ rx \in Seq(Pkt) /\ net \in Seq(Pkt) /\ hist \in HistType /\ SubInv /\ ~pr /\ ~hist.pp
      /\ TimerFollowsChain /\ TypeOK
  BY AllPd DEF ChainInv, SubInv, Typed
<1>1. /\ UNCHANGED <<up, gap, seq, net, pr>> /\ rx # <<>> /\ rx' = Tail(rx)
      /\ sub' = Accepted(m) /\ m.ok
  BY DEF PReadAccept, ReadAccept, sourceVars
<1>2. SubInv'
  BY <1>0, PReadAcceptInv
<1>3. /\ p \in Seq(Pkt) /\ q \in Seq(Pkt) /\ Len(p) > 0 /\ Len(q) = Len(p) - 1
      /\ p[1] = m /\ Len(p) \in Nat /\ \A i \in 1 .. Len(q) : q[i] = p[i + 1]
  BY <1>0, <1>1, ReadUnderWay
<1>4. Chain(p, up, seq, gap)
  BY DEF ChainInv
<1>5. m \in Pkt /\ m.type = "PD" /\ m.age \in Nat /\ m.seq \in Counters /\ m.live \in BOOLEAN
  <2>1. 1 \in 1 .. Len(p)
    BY <1>3
  <2>2. m.type = "PD"
    BY <1>3, <1>4, <2>1 DEF Chain
  <2>3. m \in Pkt
    BY <1>0, <1>1, TailFacts
  <2> HIDE DEF m
  <2> QED
    BY <2>2, <2>3, PktTypes
<1>6. hist'.last = m.seq /\ hist'.pp = FALSE /\ hist'.good = (hist.good \/ m.live)
  BY <1>0, <1>5 DEF PReadAccept, HistType
<1>7. hist.good => \E a \in Nat : Follows(p, hist.last, a, seq, gap)
  BY <1>0 DEF TimerFollowsChain
<1>8. q = rx' \o net'
  BY <1>1
<1>9. Subscribed
  BY <1>0 DEF SubInv, Typed, PReadAccept, ReadAccept
<1>10. sub'.on /\ sub'.ttg = Timeout /\ ~sub'.timedOut
  <2>1. sub \in Sub
    BY <1>0, <1>9, SubTypes DEF TypeOK, Subscribed
  <2> HIDE DEF m
  <2> QED
    BY <1>1, <1>5, <2>1, AcceptedFacts
<1> HIDE DEF m, p, q
<1>11. 1 \in 0 .. Len(p)
  BY <1>3
<1>12. Chain(q, up, seq, gap)
  BY <1>3, <1>4, <1>11, ChainDrop
<1>13. ASSUME hist'.good PROVE Follows(q, m.seq, m.age, seq, gap) /\ up
  <2>1. Counts(p[1])
    <3>1. CASE hist.good
      BY <1>3, <1>7, <3>1 DEF Follows
    <3>2. CASE m.live
      BY <1>1, <1>3, <3>2 DEF Counts
    <3> QED
      BY <1>6, <1>13, <3>1, <3>2
  <2>2. Follows(q, p[1].seq, p[1].age, seq, gap) /\ up
    BY <1>3, <1>4, <2>1, ChainRead
  <2> QED
    BY <1>3, <2>2
<1>14. TimerFollowsChain'
  <2> SUFFICES ASSUME hist'.good
               PROVE  /\ Subscribed' /\ up' /\ hist'.last # -1
                      /\ \E a \in Nat : /\ Timeout - sub'.ttg <= a
                                        /\ Follows(q, hist'.last, a, seq', gap')
                      /\ Timeout > MaxGap + MaxWait => ~sub'.timedOut
    BY <1>8 DEF TimerFollowsChain
  <2>1. up' /\ Follows(q, hist'.last, m.age, seq', gap')
    BY <1>1, <1>6, <1>13
  <2>2. Timeout - sub'.ttg <= m.age
    BY <1>5, <1>10, Numbers
  <2>3. hist'.last # -1
    BY <1>5, <1>6, PacketAssumption DEF Counters
  <2> QED
    BY <1>5, <1>10, <2>1, <2>2, <2>3 DEF Subscribed
<1>15. Chain(rx' \o net', up', seq', gap')
  BY <1>1, <1>8, <1>12
<1>16. QED
  BY <1>0, <1>1, <1>2, <1>6, <1>14, <1>15 DEF ChainInv

\* A tick: every packet is one tick older, and so is the last transmission.
LEMMA TickChain == ASSUME ChainInv, Tick PROVE ChainInv'
<1>0. /\ rx \in Seq(Pkt) /\ net \in Seq(Pkt) /\ hist \in HistType /\ SubInv /\ ~pr /\ ~hist.pp
      /\ TimerFollowsChain /\ TypeOK
      /\ Len(rx) \in Nat /\ Len(net) \in Nat
      /\ DOMAIN rx = 1 .. Len(rx) /\ DOMAIN net = 1 .. Len(net)
  BY AllPd DEF ChainInv, SubInv, Typed
<1>1. /\ UNCHANGED <<up, seq, pr>> /\ gap' = IF up THEN gap + 1 ELSE 0
      /\ net' = [i \in DOMAIN net |-> [net[i] EXCEPT !.age = @ + 1]]
      /\ rx' = [i \in DOMAIN rx |-> [rx[i] EXCEPT !.age = IF @ < MaxAge THEN @ + 1 ELSE @]]
      /\ sub' = IF ~Subscribed THEN sub
                ELSE [sub EXCEPT !.ttg = IF HasTimer /\ @ >= 0 THEN @ - 1 ELSE @,
                                 !.age = IF @ < MaxAge THEN @ + 1 ELSE @]
      /\ hist' = [hist EXCEPT !.silence = IF @ < MaxSilence THEN @ + 1 ELSE @]
  BY DEF Tick, SourceTick, RecvTick
<1>2. SubInv'
  BY <1>0, TickInv
<1>3. hist'.good = hist.good /\ hist'.last = hist.last /\ hist'.pp = hist.pp
  BY <1>0, <1>1 DEF HistType
<1> DEFINE older(x, y) ==
             /\ y.type = x.type /\ y.seq = x.seq /\ y.ok = x.ok /\ y.live = x.live
             /\ y.age = x.age + 1 /\ x.age \in Nat
           r == [i \in 1 .. Len(rx) |-> [rx[i] EXCEPT !.age = @ + 1]]
           n == [i \in 1 .. Len(net) |-> [net[i] EXCEPT !.age = @ + 1]]
           p == rx \o net
           q == r \o n
<1>4. ASSUME NEW x \in Pkt
      PROVE  [x EXCEPT !.age = @ + 1] \in Pkt /\ older(x, [x EXCEPT !.age = @ + 1])
  BY DEF Pkt
<1>5. /\ n \in Seq(Pkt) /\ Len(n) = Len(net) /\ net' = n
      /\ \A i \in 1 .. Len(net) : older(net[i], n[i])
  <2>1. \A i \in 1 .. Len(net) : net[i] \in Pkt
    BY <1>0, ElementOfSeq
  <2>2. \A i \in 1 .. Len(net) : n[i] = [net[i] EXCEPT !.age = @ + 1]
    OBVIOUS
  <2>3. \A i \in 1 .. Len(net) : [net[i] EXCEPT !.age = @ + 1] \in Pkt
    BY <1>4, <2>1
  <2>4. n \in Seq(Pkt) /\ Len(n) = Len(net)
    BY <1>0, <2>3
  <2>5. net' = n
    BY <1>0, <1>1
  <2> HIDE DEF n, older
  <2> QED
    BY <1>4, <2>1, <2>2, <2>4, <2>5
<1>6. /\ r \in Seq(Pkt) /\ Len(r) = Len(rx) /\ rx' = r
      /\ \A i \in 1 .. Len(rx) : older(rx[i], r[i])
  <2>1. \A i \in 1 .. Len(rx) : rx[i] \in Pkt /\ rx[i].age <= MaxWait
    BY <1>0, ElementOfSeq, UnderWayYoung
  <2>2. ASSUME NEW x \in Pkt, x.age <= MaxWait
        PROVE  [x EXCEPT !.age = IF @ < MaxAge THEN @ + 1 ELSE @] = [x EXCEPT !.age = @ + 1]
    <3>1. x.age \in Nat
      BY PktTypes
    <3>2. x.age < MaxAge
      BY <2>2, <3>1, Numbers DEF MaxAge
    <3> QED
      BY <3>2 DEF Pkt
  <2>3. \A i \in 1 .. Len(rx) : r[i] = [rx[i] EXCEPT !.age = @ + 1]
    OBVIOUS
  <2>4. rx' = r
    <3>1. \A i \in 1 .. Len(rx) : [rx[i] EXCEPT !.age = IF @ < MaxAge THEN @ + 1 ELSE @]
                                    = [rx[i] EXCEPT !.age = @ + 1]
      BY <2>1, <2>2
    <3> QED
      BY <1>0, <1>1, <3>1
  <2>5. \A i \in 1 .. Len(rx) : [rx[i] EXCEPT !.age = @ + 1] \in Pkt
    BY <1>4, <2>1
  <2>6. r \in Seq(Pkt) /\ Len(r) = Len(rx)
    BY <1>0, <2>5
  <2> HIDE DEF r, older
  <2> QED
    BY <1>4, <2>1, <2>3, <2>4, <2>6
<1>7. /\ p \in Seq(Pkt) /\ Len(p) = Len(rx) + Len(net)
      /\ \A i \in 1 .. Len(rx) : p[i] = rx[i]
      /\ \A i \in Len(rx) + 1 .. Len(rx) + Len(net) : p[i] = net[i - Len(rx)]
  BY <1>0, UnderWay
<1>8. Chain(p, up, seq, gap)
      /\ (hist.good => \E a \in Nat : Timeout - sub.ttg <= a /\ Follows(p, hist.last, a, seq, gap))
  BY DEF ChainInv, TimerFollowsChain
<1> HIDE DEF r, n
<1>9. /\ q \in Seq(Pkt) /\ Len(q) = Len(r) + Len(n)
      /\ \A i \in 1 .. Len(r) : q[i] = r[i]
      /\ \A i \in Len(r) + 1 .. Len(r) + Len(n) : q[i] = n[i - Len(r)]
  BY <1>5, <1>6, UnderWay
<1>10. q = rx' \o net'
  BY <1>5, <1>6
<1> HIDE DEF p, q
<1>11. Len(q) = Len(p) /\ Len(p) = Len(rx) + Len(net)
  BY <1>5, <1>6, <1>7, <1>9
<1>12. ASSUME NEW i \in 1 .. Len(p) PROVE older(p[i], q[i])
  <2> HIDE DEF older
  <2>1. CASE i \in 1 .. Len(rx)
    <3>1. p[i] = rx[i] /\ q[i] = r[i]
      BY <1>6, <1>7, <1>9, <2>1
    <3> QED
      BY <1>6, <2>1, <3>1
  <2>2. CASE i \in Len(rx) + 1 .. Len(rx) + Len(net)
    <3>1. i - Len(rx) \in 1 .. Len(net)
      BY <1>0, <2>2
    <3>2. p[i] = net[i - Len(rx)] /\ q[i] = n[i - Len(rx)]
      BY <1>5, <1>6, <1>7, <1>9, <2>2
    <3> QED
      BY <1>5, <3>1, <3>2
  <2> QED
    BY <1>0, <1>11, <2>1, <2>2
<1>13. /\ up => Chain(q, up, seq, gap + 1)
       /\ ~up => Chain(q, up, seq, 0)
       /\ \A l, a \in Nat : Follows(p, l, a, seq, gap) => Follows(q, l, a + 1, seq, gap + 1)
  BY <1>7, <1>8, <1>9, <1>11, <1>12, ChainTick
<1>14. Chain(q, up', seq', gap')
  BY <1>1, <1>13
<1>15. ASSUME hist.good
       PROVE  /\ Subscribed' /\ up' /\ hist'.last # -1
              /\ \E a \in Nat : /\ Timeout - sub'.ttg <= a
                                /\ Follows(q, hist'.last, a, seq', gap')
              /\ Timeout > MaxGap + MaxWait => ~sub'.timedOut
  <2>1. /\ Subscribed /\ up /\ hist.last # -1
        /\ Timeout > MaxGap + MaxWait => ~sub.timedOut
    BY <1>0, <1>15 DEF TimerFollowsChain
  <2>2. sub \in Sub /\ sub.ttg \in Int
    BY <1>0, <2>1, SubTypes DEF TypeOK, Subscribed
  <2> DEFINE d == IF HasTimer /\ sub.ttg >= 0 THEN sub.ttg - 1 ELSE sub.ttg
             e == IF sub.age < MaxAge THEN sub.age + 1 ELSE sub.age
  <2>3. sub' = [sub EXCEPT !.ttg = d, !.age = e]
    BY <1>1, <2>1, <2>2 DEF Sub
  <2>4. d \in Int /\ d >= sub.ttg - 1
    BY <2>2
  <2> HIDE DEF d, e
  <2>5. sub'.on /\ sub'.ttg = d /\ sub'.timedOut = sub.timedOut
    BY <2>2, <2>3 DEF Sub
  <2>6. PICK a \in Nat : Timeout - sub.ttg <= a /\ Follows(p, hist.last, a, seq, gap)
    BY <1>8, <1>15
  <2>7. hist.last \in Nat
    BY <1>0, <2>1, HistTypes, PacketAssumption DEF Counters
  <2>8. Follows(q, hist.last, a + 1, seq, gap + 1)
    BY <1>13, <2>6, <2>7
  <2>9. a + 1 \in Nat /\ Timeout - sub'.ttg <= a + 1
    BY <2>2, <2>4, <2>5, <2>6, Numbers
  <2>10. Follows(q, hist'.last, a + 1, seq', gap')
    BY <1>1, <1>3, <2>1, <2>8
  <2> QED
    BY <1>1, <1>3, <2>1, <2>5, <2>9, <2>10 DEF Subscribed
<1>16. TimerFollowsChain'
  BY <1>3, <1>10, <1>15 DEF TimerFollowsChain
<1>17. QED
  BY <1>0, <1>1, <1>2, <1>3, <1>10, <1>14, <1>16 DEF ChainInv

LEMMA InitChain == ASSUME Init PROVE ChainInv
<1>1. SubInv
  BY InitSubInv
<1>2. rx = <<>> /\ net = <<>> /\ pr = FALSE /\ hist = NoHist
  BY DEF Init, RecvInit
<1>3. rx \o net = <<>>
  BY <1>2
<1>4. ~hist.good /\ ~hist.pp
  BY <1>2 DEF NoHist
<1>5. Chain(<<>>, up, seq, gap)
  BY DEF Chain
<1>6. QED
  BY <1>1, <1>2, <1>3, <1>4, <1>5 DEF ChainInv, TimerFollowsChain

LEMMA NextChain ==
  ASSUME Reorder = FALSE, Pulling = FALSE, ChainInv, [Next]_vars PROVE ChainInv'
<1>0. SubInv /\ ~pr /\ ~hist.pp /\ TimerFollowsChain
  BY DEF ChainInv
<1>1. CASE UNCHANGED vars
  <2>1. UNCHANGED <<up, gap, seq, sub, rx, net, pr, hist>> /\ SubInv'
    BY <1>0, <1>1, NextSubInv DEF vars
  <2> QED
    BY <1>0, <2>1, StillChain DEF TimerFollowsChain, Subscribed
<1>2. CASE PubPd \/ PubDown
  BY <1>2, PubPdChain, PubDownChain
<1>3. CASE PubPp \/ LosePr \/ PRequest
  BY <1>0, <1>3 DEF PubPp, LosePr, PRequest
<1>4. CASE Deliver \/ Lose \/ Twice \/ Damage
  BY <1>4, DeliverChain, LoseChain, TwiceChain
<1>5. CASE PSubscribe \/ PUnsubscribe
  BY <1>5, PSubscribeChain, PUnsubscribeChain
<1>6. CASE PProcessRecv \/ PQuiet \/ PDropped \/ PReadAccept
  BY <1>6, PProcessRecvChain, PQuietChain, PDroppedChain, PReadAcceptChain
<1>7. CASE Tick
  BY <1>7, TickChain
<1>8. QED
  BY <1>1, <1>2, <1>3, <1>4, <1>5, <1>6, <1>7 DEF Next

\* While nothing is lost and the publisher runs, a subscription never times out
\* if its time-out exceeds the publisher's longest gap and a packet's longest
\* wait together; and a reported time-out is taken back only by data
\* (trdp_pdHandleTimeOuts, trdp_pdReceive, tlp_get).  On a network that keeps the
\* order of packets and may duplicate, lose and damage them.
THEOREM PdTimeoutExact ==
  ASSUME Reorder = FALSE, Pulling = FALSE
  PROVE  Spec => []TimeoutExact
<1>1. Init => ChainInv
  BY InitChain
<1>2. ChainInv /\ [Next]_vars => ChainInv'
  BY NextChain
<1>3. ASSUME ChainInv PROVE TimeoutExact
  <2>1. TimeoutIsRevoked
    BY <1>3 DEF ChainInv, SubInv, SubFacts
  <2>2. NoSpuriousTimeout
    <3> SUFFICES ASSUME hist.good, Timeout > MaxGap + MaxWait
                 PROVE  ~sub.timedOut /\ GetResult # "TIMEOUT"
      BY DEF NoSpuriousTimeout
    <3>1. sub.ttg \in Int /\ sub.ttg > 0 /\ ~sub.timedOut
      BY <1>3, GoodTimer
    <3> QED
      BY <3>1 DEF GetResult
  <2> QED
    BY <2>1, <2>2 DEF TimeoutExact
<1>4. QED
  BY <1>1, <1>2, <1>3, PTL DEF Spec

=============================================================================
