--------------------------- MODULE TrdpSendProof ---------------------------
(***************************************************************************)
(* Proofs about the TRDP send queue, for every set of telegrams, every     *)
(* cycle of at least the grid and every delay of the send thread.          *)
(***************************************************************************)
EXTENDS TrdpSend, TLAPS

----------------------------------------------------------------------------
\* A timer that was handled when it was due, or because of a request, lies in
\* the future again; one that was due does not lie further than a cycle ahead.
LEMMA NextTtgFacts ==
  ASSUME NEW p \in Pubs, Cyclic(p), NEW e, e.ttg \in Int, phase \in 0 .. Grid - 1
  PROVE  /\ NextTtg(p, e) \in Int /\ NextTtg(p, e) > 0
         /\ e.ttg <= 0 => NextTtg(p, e) <= Interval[p]
<1> DEFINE r == (phase + Interval[p]) % Grid
<1>1. Interval[p] \in Nat /\ Interval[p] >= Grid /\ Grid \in Nat /\ Grid > 0
  BY SendAssumption DEF Cyclic
<1>2. r \in 0 .. Grid - 1
  <2>1. phase + Interval[p] \in Int
    BY <1>1
  <2> HIDE <1>1
  <2>2. Grid \in Int /\ Grid > 0
    BY <1>1
  <2> QED
    BY <2>1, <2>2
<1>3. QED
  <2> HIDE DEF r
  <2>1. NextTtg(p, e) = IF e.ttg + Interval[p] > 0 THEN e.ttg + Interval[p]
                        ELSE Interval[p] - r
    BY DEF NextTtg, r
  <2> QED
    BY <1>1, <1>2, <2>1

\* A counter that moves stays a counter.
LEMMA BumpType == ASSUME NEW c \in Counters PROVE Bump(c) \in Counters
  BY PacketAssumption, Z3 DEF Bump, Counters

\* Handling an element keeps its type.
LEMMA SentType ==
  ASSUME NEW p \in Pubs, NEW e \in Element, phase \in 0 .. Grid - 1
  PROVE  SentElement(p, e) \in Element
<1>1. Bump(e.seq) \in Counters /\ Bump(e.seqPull) \in Counters
  BY BumpType DEF Element
<1>2. Cyclic(p) => NextTtg(p, e) \in Int
  BY NextTtgFacts DEF Element
<1>3. QED
  BY <1>1, <1>2 DEF SentElement, Element

----------------------------------------------------------------------------
(* The grid: a time is on it when it is a multiple of Grid.                  *)

\* Division with a positive divisor.
LEMMA DivMod ==
  ASSUME NEW a \in Int, NEW g \in Int, g > 0
  PROVE  a \div g \in Int /\ a % g \in 0 .. g - 1 /\ a = (a \div g) * g + (a % g)
  OBVIOUS

\* The multiples of g are what leaves no remainder.
LEMMA MultipleIff ==
  ASSUME NEW a \in Int, NEW g \in Int, g > 0
  PROVE  a % g = 0 <=> \E k \in Int : a = k * g
<1>1. ASSUME a % g = 0 PROVE \E k \in Int : a = k * g
  BY <1>1, DivMod
<1>2. ASSUME NEW k \in Int, a = k * g PROVE a % g = 0
  <2>1. (k * g) % g = 0
    OBVIOUS
  <2> QED
    BY <2>1, <1>2
<1>3. QED
  BY <1>1, <1>2

\* The sum and the difference of multiples are multiples.
LEMMA MultipleSum ==
  ASSUME NEW a \in Int, NEW b \in Int, NEW g \in Int, g > 0, a % g = 0, b % g = 0
  PROVE  (a + b) % g = 0 /\ (a - b) % g = 0
<1>1. PICK k \in Int : a = k * g
  BY MultipleIff
<1>2. PICK l \in Int : b = l * g
  BY MultipleIff
<1>3. a + b = (k + l) * g /\ a - b = (k - l) * g
  BY <1>1, <1>2
<1>4. k + l \in Int /\ k - l \in Int /\ a + b \in Int /\ a - b \in Int
  OBVIOUS
<1>5. (a + b) % g = 0
  BY <1>3, <1>4, MultipleIff
<1>6. (a - b) % g = 0
  BY <1>3, <1>4, MultipleIff
<1>7. QED
  BY <1>5, <1>6

\* What is rounded down is a multiple.
LEMMA RoundedDown ==
  ASSUME NEW a \in Int, NEW g \in Int, g > 0
  PROVE  a - (a % g) \in Int /\ (a - (a % g)) % g = 0
<1> DEFINE q == a \div g
           r == a % g
<1>1. q \in Int /\ r \in Int /\ a = q * g + r
  BY DivMod
<1> HIDE DEF q, r
<1>2. a - r = q * g /\ a - r \in Int
  BY <1>1
<1>3. (a - r) % g = 0
  BY <1>1, <1>2, MultipleIff
<1>4. QED
  BY <1>2, <1>3 DEF r

\* A timer on the grid stays on it when its telegram is handled, on time or
\* late, if the cycle is a multiple of the grid.
LEMMA NextOnGrid ==
  ASSUME NEW p \in Pubs, Cyclic(p), Interval[p] % Grid = 0, phase \in 0 .. Grid - 1,
         NEW e, e.ttg \in Int, (phase + e.ttg) % Grid = 0
  PROVE  (phase + NextTtg(p, e)) % Grid = 0
<1> DEFINE i == Interval[p]
           r == (phase + i) % Grid
<1>1. i \in Int /\ Grid \in Int /\ Grid > 0 /\ phase \in Int
  BY SendAssumption
<1>2. CASE e.ttg + i > 0
  <2>1. NextTtg(p, e) = e.ttg + i
    BY <1>2 DEF NextTtg
  <2>2. ((phase + e.ttg) + i) % Grid = 0
    <3> HIDE DEF i
    <3>1. phase + e.ttg \in Int /\ i % Grid = 0
      BY <1>1 DEF i
    <3> QED
      BY <1>1, <3>1, MultipleSum
  <2>3. phase + (e.ttg + i) = (phase + e.ttg) + i
    BY <1>1
  <2> QED
    BY <2>1, <2>2, <2>3
<1>3. CASE ~(e.ttg + i > 0)
  <2>1. NextTtg(p, e) = i - r
    BY <1>3 DEF NextTtg
  <2>2. (phase + i) - r \in Int /\ ((phase + i) - r) % Grid = 0
    <3> HIDE DEF i
    <3>1. phase + i \in Int
      BY <1>1
    <3> QED
      BY <1>1, <3>1, RoundedDown
  <2>3. r \in Int
    <3> HIDE DEF i
    <3>1. phase + i \in Int
      BY <1>1
    <3> QED
      BY <1>1, <3>1, DivMod
  <2> HIDE DEF r
  <2>4. phase + (i - r) = (phase + i) - r
    BY <1>1, <2>3
  <2> QED
    BY <2>1, <2>2, <2>4
<1>4. QED
  BY <1>2, <1>3

----------------------------------------------------------------------------
(* The inductive invariant.                                                 *)

\* A request is answered in the step that notes it.
NoRequest == \A p \in Pubs : Published(p) => ~snd[p].req

\* A timer is never further behind than the send thread slept.
Timers == \A p \in Pubs : Published(p) /\ Cyclic(p) => snd[p].ttg >= 1 - sleep

\* A running telegram has data and leads, no address of a PULL is left with
\* it, and its timer is not more than a cycle after its last packet.
Running ==
  \A p \in once :
    /\ Published(p) /\ snd[p].valid /\ ~snd[p].red /\ snd[p].pull = "none"
    /\ Cyclic(p) => since[p] + snd[p].ttg <= Interval[p]

IInv == TypeOK /\ QueueOK /\ NoRequest /\ Timers /\ Running

\* What an element is when it is there.
LEMMA Present ==
  ASSUME NEW e \in {NoElement} \cup Element, e.on
  PROVE  e \in Element
  BY DEF NoElement

\* The types of the fields of an element.
LEMMA FieldTypes ==
  ASSUME NEW e \in Element
  PROVE  /\ e.on /\ e.ttg \in Int /\ e.seq \in Counters
         /\ e.valid \in BOOLEAN /\ e.req \in BOOLEAN /\ e.red \in BOOLEAN
         /\ e.pull \in Hosts \cup {"none"}
  BY DEF Element

\* One element through trdp_pdSendQueued.
LEMMA SentFacts ==
  ASSUME NEW p \in Pubs, NEW e \in Element, phase \in 0 .. Grid - 1,
         NEW f, f = SentElement(p, e)
  PROVE  /\ f \in Element /\ ~f.req
         /\ f.valid = e.valid /\ f.red = e.red
         /\ Pulled(e) \/ ~Cyclic(p) => f.ttg = e.ttg
         /\ ~Pulled(e) /\ Cyclic(p) => f.ttg = NextTtg(p, e)
         /\ f.seq = IF e.valid /\ ~Pulled(e) THEN Bump(e.seq) ELSE e.seq
         /\ Sends(e) => f.pull = "none"
  BY SentType DEF SentElement, Element

\* trdp_pdSendQueued on elements q that differ from snd in requests only.
LEMMA SendQueuedStep ==
  ASSUME TypeOK, Timers, Running,
         NEW q \in [Pubs -> {NoElement} \cup Element],
         \A p \in Pubs : q[p].on <=> snd[p].on,
         \A p \in Pubs : snd[p].on => /\ q[p].ttg = snd[p].ttg
                                      /\ q[p].valid = snd[p].valid
                                      /\ q[p].red = snd[p].red
                                      /\ q[p].pull = snd[p].pull \/ q[p].req,
         SendQueued(q)
  PROVE  /\ snd' \in [Pubs -> {NoElement} \cup Element]
         /\ \A p \in Pubs : snd'[p].on <=> snd[p].on
         /\ NoRequest'
         /\ once' \subseteq Pubs /\ since' \in [Pubs -> Nat]
         /\ \A p \in Pubs : snd[p].on /\ Cyclic(p) =>
              /\ snd'[p].ttg >= 1 - sleep
              /\ ~q[p].req => snd'[p].ttg >= 1
         /\ Running'
<1> PICK failed \in SUBSET Senders(q) : SendQueuedWith(q, failed)
  BY DEF SendQueued
<1>a. /\ snd' = [p \in Pubs |-> IF p \in Handled(q) THEN SentElement(p, q[p]) ELSE q[p]]
      /\ once' = (once \cup PdSenders(q)) \ (failed \cap PdPackets(q))
      /\ since' = [p \in Pubs |-> IF p \in PdPackets(q) THEN 0 ELSE since[p]]
  BY DEF SendQueuedWith
<1>1. ASSUME NEW p \in Pubs
      PROVE  /\ p \in Handled(q) => snd'[p] = SentElement(p, q[p])
             /\ p \notin Handled(q) => snd'[p] = q[p]
  BY <1>a
<1>2. phase \in 0 .. Grid - 1 /\ sleep \in Nat /\ once \subseteq Pubs /\ since \in [Pubs -> Nat]
  BY SendAssumption DEF TypeOK
<1>3. ASSUME NEW p \in Pubs, snd[p].on
      PROVE  q[p] \in Element /\ snd[p] \in Element
  BY <1>3, Present DEF TypeOK
<1>4. ASSUME NEW p \in Pubs, ~snd[p].on
      PROVE  snd'[p] = q[p] /\ q[p] \in {NoElement} \cup Element /\ ~q[p].on
  BY <1>1, <1>4 DEF Handled
<1>5. ASSUME NEW p \in Pubs, snd[p].on, p \in Handled(q)
      PROVE  snd'[p] = SentElement(p, q[p]) /\ snd'[p] \in Element
  BY <1>1, <1>2, <1>3, <1>5, SentFacts
<1>6. ASSUME NEW p \in Pubs, snd[p].on, p \notin Handled(q)
      PROVE  snd'[p] = q[p] /\ snd'[p] \in Element /\ ~Due(p, q[p])
  BY <1>1, <1>3, <1>6 DEF Handled
<1>7. ASSUME NEW p \in Pubs
      PROVE  snd'[p] \in {NoElement} \cup Element /\ (snd'[p].on <=> snd[p].on)
  BY <1>4, <1>5, <1>6 DEF Element
<1>8. snd' \in [Pubs -> {NoElement} \cup Element]
  <2>1. snd' = [p \in Pubs |-> snd'[p]]
    BY <1>a
  <2> QED
    BY <2>1, <1>7
<1>9. NoRequest'
  <2> SUFFICES ASSUME NEW p \in Pubs, snd'[p].on PROVE ~snd'[p].req
    BY DEF NoRequest, Published
  <2>1. snd[p].on
    BY <1>7
  <2>2. CASE p \in Handled(q)
    BY <2>1, <2>2, <1>2, <1>3, <1>5, SentFacts
  <2>3. CASE p \notin Handled(q)
    BY <2>1, <2>3, <1>6 DEF Due
  <2> QED
    BY <2>2, <2>3
<1>10. once' \subseteq Pubs /\ since' \in [Pubs -> Nat]
  BY <1>2, <1>a DEF PdSenders, PdPackets, Senders, Handled
<1>11. ASSUME NEW p \in Pubs, snd[p].on, Cyclic(p)
       PROVE  /\ snd'[p].ttg >= 1 - sleep
              /\ ~q[p].req => snd'[p].ttg >= 1
  <2>1. q[p].ttg \in Int /\ q[p].ttg >= 1 - sleep /\ q[p] \in Element
    BY <1>3, <1>11 DEF Timers, Published, Element
  <2>2. CASE p \in Handled(q) /\ Pulled(q[p])
    BY <2>1, <2>2, <1>2, <1>5, <1>11, SentFacts DEF Pulled
  <2>3. CASE p \in Handled(q) /\ ~Pulled(q[p])
    <3>1. snd'[p].ttg = NextTtg(p, q[p])
      BY <2>1, <2>3, <1>2, <1>5, <1>11, SentFacts
    <3>2. NextTtg(p, q[p]) \in Int /\ NextTtg(p, q[p]) > 0
      BY <2>1, <1>2, <1>11, NextTtgFacts
    <3> QED
      BY <3>1, <3>2, <1>2
  <2>4. CASE p \notin Handled(q)
    <3>1. snd'[p] = q[p] /\ q[p].ttg > 0
      BY <2>1, <2>4, <1>6, <1>11 DEF Due
    <3> QED
      BY <3>1, <2>1, <1>2
  <2> QED
    BY <2>2, <2>3, <2>4
<1>12. Running'
  <2> SUFFICES ASSUME NEW p \in once'
               PROVE  /\ snd'[p].on /\ snd'[p].valid /\ ~snd'[p].red /\ snd'[p].pull = "none"
                      /\ Cyclic(p) => since'[p] + snd'[p].ttg <= Interval[p]
    BY DEF Running, Published
  <2>1. p \in Pubs
    BY <1>10, <1>a
  <2>2. CASE p \in PdSenders(q)
    <3>1. p \in Handled(q) /\ q[p].on /\ Sends(q[p]) /\ ~Pulled(q[p]) /\ Due(p, q[p])
      BY <2>2 DEF PdSenders, PdPackets, Senders, Handled
    <3>2. snd[p].on /\ q[p] \in Element /\ snd'[p] = SentElement(p, q[p])
      BY <2>1, <3>1, <1>1, <1>3, <1>5
    <3>3. snd'[p].on /\ snd'[p].valid /\ ~snd'[p].red /\ snd'[p].pull = "none"
      BY <2>1, <3>1, <3>2, <1>2, <1>7, SentFacts DEF Sends
    <3>4. since'[p] = 0
      BY <2>1, <2>2, <1>a DEF PdSenders
    <3>5. ASSUME Cyclic(p) PROVE snd'[p].ttg \in Int /\ snd'[p].ttg <= Interval[p]
      <4>1. q[p].ttg \in Int /\ q[p].ttg <= 0
        BY <3>1, <3>2 DEF Due, Pulled, Sends, Element
      <4>2. snd'[p].ttg = NextTtg(p, q[p])
        BY <2>1, <3>1, <3>2, <3>5, <1>2, SentFacts
      <4> QED
        BY <4>1, <4>2, <2>1, <3>5, <1>2, NextTtgFacts
    <3> QED
      BY <3>3, <3>4, <3>5
  <2>3. CASE p \notin PdSenders(q)
    <3>1. p \in once
      BY <2>3, <1>a
    <3>2. snd[p].on /\ snd[p].valid /\ ~snd[p].red /\ snd[p].pull = "none" /\ q[p] \in Element
      BY <3>1, <2>1, <1>3 DEF Running, Published
    <3>3. Sends(q[p]) /\ (q[p].pull = "none" \/ Pulled(q[p]))
      BY <3>2, <2>1 DEF Sends, Pulled
    <3>4. p \in Handled(q) => Pulled(q[p])
      BY <3>3, <2>1, <2>3 DEF PdSenders, PdPackets, Senders
    <3>5. since'[p] = since[p]
      BY <2>1, <3>4, <1>a DEF PdPackets, Senders
    <3>6. CASE p \in Handled(q)
      <4>1. snd'[p] = SentElement(p, q[p])
        BY <2>1, <3>2, <3>6, <1>1, <1>5
      <4> QED
        BY <4>1, <3>1, <3>2, <3>3, <3>4, <3>5, <3>6, <2>1, <1>2, <1>7, SentFacts DEF Running
    <3>7. CASE p \notin Handled(q)
      <4>1. snd'[p] = q[p] /\ ~q[p].req
        BY <2>1, <3>2, <3>7, <1>6 DEF Due
      <4>2. q[p].pull = "none"
        BY <4>1, <3>3 DEF Pulled
      <4> QED
        BY <4>1, <4>2, <3>1, <3>2, <3>5, <2>1, <1>7 DEF Running
    <3> QED
      BY <3>6, <3>7
  <2> QED
    BY <2>2, <2>3
<1>13. QED
  BY <1>7, <1>8, <1>9, <1>10, <1>11, <1>12

----------------------------------------------------------------------------
(* The invariant is inductive.                                              *)

LEMMA InitIInv == ASSUME Init PROVE IInv
  BY SendAssumption DEF Init, IInv, TypeOK, QueueOK, NoRequest, Timers, Running, Published, NoElement

LEMMA PublishIInv ==
  ASSUME IInv, NEW p \in Pubs, NEW w \in BOOLEAN, Publish(p, w)
  PROVE  IInv'
<1>0. /\ ~snd[p].on /\ queue' = Append(queue, p)
      /\ UNCHANGED <<phase, sleep, once, since>>
  BY DEF Publish, Published
<1>1. GetSeqCnt \in Int
  <2>1. CASE queue = <<>>
    BY <2>1 DEF GetSeqCnt
  <2>2. CASE queue # <<>>
    <3>1. Head(queue) = queue[1] /\ 1 \in DOMAIN queue /\ queue[1] \in Pubs
      BY <2>2 DEF IInv, TypeOK
    <3>2. snd[queue[1]].on
      BY <3>1 DEF IInv, QueueOK, Published
    <3>3. snd[queue[1]] \in Element
      BY <3>1, <3>2, Present DEF IInv, TypeOK
    <3>4. snd[queue[1]].seq \in Counters
      BY <3>3, FieldTypes
    <3>5. snd[queue[1]].seq \in Int
      BY <3>4, PacketAssumption DEF Counters
    <3> QED
      BY <3>1, <3>5, <2>2 DEF GetSeqCnt
  <2> QED
    BY <2>1, <2>2
<1>2. (GetSeqCnt + CntMod - 1) % CntMod \in Counters
  BY <1>1, PacketAssumption, Z3 DEF Counters
<1>3. Follower(p) \in BOOLEAN
  BY DEF Follower
<1>4. PICK d \in Data, k \in FirstSteps[p] :
        snd' = [snd EXCEPT ![p] =
          [on |-> TRUE, ttg |-> IF Cyclic(p) THEN k * Grid - phase ELSE 0,
           valid |-> w, req |-> FALSE, pull |-> "none", red |-> Follower(p),
           seq |-> (GetSeqCnt + CntMod - 1) % CntMod,
           seqPull |-> (GetSeqCnt + CntMod - 1) % CntMod,
           data |-> IF w THEN d ELSE 0]]
  BY DEF Publish
<1>5. phase \in 0 .. Grid - 1 /\ Grid \in Nat /\ Grid > 0 /\ k \in Nat /\ k > 0 /\ 0 \in Data
  <2>1. FirstSteps[p] \in SUBSET (Nat \ {0})
    BY SendAssumption
  <2> QED
    BY <2>1, SendAssumption, PacketAssumption DEF IInv, TypeOK
<1>6. k * Grid - phase \in Int /\ k * Grid - phase >= 1
  <2>1. k * Grid >= Grid /\ k * Grid \in Int
    BY <1>5
  <2> QED
    BY <2>1, <1>5
<1>7. snd'[p] \in Element /\ snd'[p].ttg = (IF Cyclic(p) THEN k * Grid - phase ELSE 0)
      /\ ~snd'[p].req /\ snd'[p].on
  <2> DEFINE n == (GetSeqCnt + CntMod - 1) % CntMod
             f == Follower(p)
             t == IF Cyclic(p) THEN k * Grid - phase ELSE 0
             x == IF w THEN d ELSE 0
  <2>1. n \in Counters /\ f \in BOOLEAN /\ t \in Int /\ x \in Data
    BY <1>2, <1>3, <1>5, <1>6
  <2>2. snd'[p] = [on |-> TRUE, ttg |-> t, valid |-> w, req |-> FALSE, pull |-> "none",
                   red |-> f, seq |-> n, seqPull |-> n, data |-> x]
    BY <1>4 DEF IInv, TypeOK
  <2> HIDE DEF n, f, t, x
  <2>3. snd'[p] \in Element /\ snd'[p].ttg = t /\ snd'[p].req = FALSE /\ snd'[p].on = TRUE
    BY <2>1, <2>2 DEF Element
  <2> QED
    BY <2>3 DEF t
<1>8. \A o \in Pubs \ {p} : snd'[o] = snd[o]
  BY <1>4 DEF IInv, TypeOK
<1>9. snd' \in [Pubs -> {NoElement} \cup Element]
  <2> DEFINE e == snd'[p]
  <2>1. snd' = [snd EXCEPT ![p] = e]
    BY <1>4 DEF IInv, TypeOK
  <2> HIDE DEF e
  <2>2. e \in Element
    BY <1>7 DEF e
  <2> QED
    BY <2>1, <2>2 DEF IInv, TypeOK
<1>10. TypeOK'
  BY <1>0, <1>9 DEF IInv, TypeOK
<1>11. QueueOK'
  <2>1. queue \in Seq(Pubs) /\ queue' = Append(queue, p) /\ ~snd[p].on
    BY <1>0 DEF IInv, TypeOK
  <2>2. \A i \in DOMAIN queue : queue[i] # p
    BY <2>1 DEF IInv, QueueOK, Published
  <2>3. /\ DOMAIN queue' = 1 .. Len(queue) + 1 /\ queue'[Len(queue) + 1] = p
        /\ DOMAIN queue = 1 .. Len(queue) /\ Len(queue) \in Nat
        /\ \A i \in DOMAIN queue : queue'[i] = queue[i]
    BY <2>1
  <2>4. \A o \in Pubs : snd'[o].on <=> snd[o].on \/ o = p
    BY <1>7, <1>8
  <2>5. \A o \in Pubs : snd[o].on <=> \E i \in DOMAIN queue : queue[i] = o
    BY DEF IInv, QueueOK, Published
  <2>6. \A o \in Pubs : snd'[o].on <=> \E i \in DOMAIN queue' : queue'[i] = o
    BY <2>3, <2>4, <2>5
  <2>7. \A i, j \in DOMAIN queue' : queue'[i] = queue'[j] => i = j
    BY <2>2, <2>3 DEF IInv, QueueOK
  <2> QED
    BY <2>6, <2>7 DEF QueueOK, Published
<1>12. NoRequest'
  BY <1>7, <1>8 DEF IInv, NoRequest, Published
<1>13. Timers'
  <2>1. sleep \in Nat /\ sleep' = sleep
    BY <1>0, SendAssumption DEF IInv, TypeOK
  <2> SUFFICES ASSUME NEW o \in Pubs, snd'[o].on, Cyclic(o) PROVE snd'[o].ttg >= 1 - sleep
    BY <2>1 DEF Timers, Published
  <2>2. CASE o = p
    BY <2>1, <2>2, <1>6, <1>7
  <2>3. CASE o # p
    BY <2>3, <1>8 DEF IInv, Timers, Published
  <2> QED
    BY <2>2, <2>3
<1>14. Running'
  <2>1. p \notin once /\ once \subseteq Pubs /\ once' = once /\ since' = since
    BY <1>0 DEF IInv, Running, TypeOK, Published
  <2> QED
    BY <2>1, <1>8 DEF IInv, Running, Published
<1>15. QED
  BY <1>10, <1>11, <1>12, <1>13, <1>14 DEF IInv

LEMMA PutIInv ==
  ASSUME IInv, NEW p \in Pubs, NEW d \in Data, Put(p, d)
  PROVE  IInv'
<1> USE DEF Put
<1>1. snd[p] \in Element
  BY Present DEF IInv, TypeOK, Published
<1>2. /\ snd'[p] \in Element /\ snd'[p].ttg = snd[p].ttg /\ snd'[p].req = snd[p].req
      /\ snd'[p].red = snd[p].red /\ snd'[p].valid = TRUE /\ snd'[p].on = snd[p].on
      /\ snd'[p].pull = snd[p].pull
  BY <1>1 DEF IInv, TypeOK, Element
<1>3. \A o \in Pubs \ {p} : snd'[o] = snd[o]
  BY DEF IInv, TypeOK
<1>4. snd' \in [Pubs -> {NoElement} \cup Element]
  <2>1. DOMAIN snd' = Pubs /\ snd' = [o \in Pubs |-> snd'[o]]
    BY DEF IInv, TypeOK
  <2>2. \A o \in Pubs : snd'[o] \in {NoElement} \cup Element
    BY <1>2, <1>3 DEF IInv, TypeOK
  <2> QED
    BY <2>1, <2>2
<1>5. TypeOK' /\ QueueOK'
  BY <1>2, <1>3, <1>4 DEF IInv, TypeOK, QueueOK, Published
<1>6. NoRequest' /\ Timers'
  BY <1>2, <1>3 DEF IInv, NoRequest, Timers, Published
<1>7. Running'
  BY <1>2, <1>3 DEF IInv, Running, Published, TypeOK
<1>8. QED
  BY <1>5, <1>6, <1>7 DEF IInv

\* Taking p out of the queue leaves every other telegram in it, once.
LEMMA WithoutFacts ==
  ASSUME TypeOK, QueueOK, NEW p \in Pubs, Published(p)
  PROVE  /\ Without(p) \in Seq(Pubs)
         /\ \A o \in Pubs : (\E i \in DOMAIN Without(p) : Without(p)[i] = o)
                            <=> (o # p /\ \E i \in DOMAIN queue : queue[i] = o)
         /\ \A i, j \in DOMAIN Without(p) : Without(p)[i] = Without(p)[j] => i = j
<1> DEFINE k == Position(p)
           n == Len(queue)
           w == [i \in 1 .. n - 1 |-> IF i < k THEN queue[i] ELSE queue[i + 1]]
<1>1. n \in Nat /\ DOMAIN queue = 1 .. n /\ \A i \in 1 .. n : queue[i] \in Pubs
  BY DEF TypeOK
<1>2. k \in 1 .. n /\ queue[k] = p
  <2>1. \E i \in DOMAIN queue : queue[i] = p
    BY DEF QueueOK
  <2> QED
    BY <2>1, <1>1 DEF Position
<1>3. \A i, j \in 1 .. n : queue[i] = queue[j] => i = j
  BY <1>1 DEF QueueOK
<1>4. Without(p) = w
  BY DEF Without
<1> HIDE DEF k, n
<1>5. /\ \A i \in 1 .. n - 1 : i < k => w[i] = queue[i] /\ i \in 1 .. n /\ i # k
      /\ \A i \in 1 .. n - 1 : ~(i < k) => w[i] = queue[i + 1] /\ i + 1 \in 1 .. n /\ i + 1 # k
      /\ DOMAIN w = 1 .. n - 1
  BY <1>1, <1>2
<1> HIDE DEF w
<1>6. w \in Seq(Pubs)
  <2>1. \A i \in 1 .. n - 1 : w[i] \in Pubs
    BY <1>1, <1>5
  <2>2. n - 1 \in Nat
    BY <1>1, <1>2
  <2>3. w = [i \in 1 .. n - 1 |-> w[i]]
    BY DEF w
  <2> QED
    BY <2>1, <2>2, <2>3
<1>7. ASSUME NEW o \in Pubs, NEW i \in 1 .. n - 1, w[i] = o
      PROVE  o # p /\ \E j \in 1 .. n : queue[j] = o
  BY <1>1, <1>2, <1>3, <1>5, <1>7
<1>8. ASSUME NEW o \in Pubs, o # p, NEW j \in 1 .. n, queue[j] = o
      PROVE  \E i \in 1 .. n - 1 : w[i] = o
  <2>1. j # k
    BY <1>2, <1>8
  <2>2. CASE j < k
    BY <2>2, <1>1, <1>2, <1>5, <1>8
  <2>3. CASE j > k
    <3>1. j - 1 \in 1 .. n - 1 /\ ~(j - 1 < k) /\ (j - 1) + 1 = j
      BY <2>3, <1>1, <1>2
    <3>2. w[j - 1] = queue[j]
      BY <3>1, <1>5
    <3> QED
      BY <3>1, <3>2, <1>8
  <2> QED
    BY <2>1, <2>2, <2>3, <1>1, <1>2
<1>9. ASSUME NEW i \in 1 .. n - 1, NEW j \in 1 .. n - 1, w[i] = w[j] PROVE i = j
  BY <1>1, <1>2, <1>3, <1>5, <1>9
<1>10. QED
  BY <1>1, <1>4, <1>5, <1>6, <1>7, <1>8, <1>9

LEMMA UnpublishIInv ==
  ASSUME IInv, NEW p \in Pubs, Unpublish(p)
  PROVE  IInv'
<1>1. /\ Published(p) /\ snd' = [snd EXCEPT ![p] = NoElement] /\ queue' = Without(p)
      /\ once' = once \ {p} /\ since' = [since EXCEPT ![p] = 0]
      /\ phase' = phase /\ sleep' = sleep
  BY DEF Unpublish
<1>2. snd'[p] = NoElement /\ \A o \in Pubs \ {p} : snd'[o] = snd[o]
  BY <1>1 DEF IInv, TypeOK
<1>3. ~snd'[p].on
  BY <1>2 DEF NoElement
<1>4. TypeOK'
  BY <1>1, WithoutFacts DEF IInv, TypeOK
<1>5. QueueOK'
  <2>1. \A o \in Pubs : snd'[o].on <=> (o # p /\ snd[o].on)
    BY <1>2, <1>3
  <2>2. \A o \in Pubs : snd[o].on <=> \E i \in DOMAIN queue : queue[i] = o
    BY DEF IInv, QueueOK, Published
  <2>3. \A o \in Pubs : snd'[o].on <=> \E i \in DOMAIN queue' : queue'[i] = o
    BY <2>1, <2>2, <1>1, WithoutFacts DEF IInv
  <2>4. \A i, j \in DOMAIN queue' : queue'[i] = queue'[j] => i = j
    BY <1>1, WithoutFacts DEF IInv
  <2> QED
    BY <2>3, <2>4 DEF QueueOK, Published
<1>6. NoRequest' /\ Timers'
  BY <1>1, <1>2, <1>3 DEF IInv, NoRequest, Timers, Published
<1>7. Running'
  BY <1>1, <1>2 DEF IInv, Running, Published, TypeOK
<1>8. QED
  BY <1>4, <1>5, <1>6, <1>7 DEF IInv

LEMMA SetRedundantIInv ==
  ASSUME IInv, NEW all \in BOOLEAN, NEW leader \in BOOLEAN, SetRedundant(all, leader)
  PROVE  IInv'
<1>1. /\ snd' = [p \in Pubs |-> IF p \in Meant(all)
                                THEN [snd[p] EXCEPT !.red = ~leader] ELSE snd[p]]
      /\ once' = (IF leader THEN once ELSE once \ Meant(all))
      /\ since' = [p \in Pubs |-> IF leader \/ p \notin Meant(all) THEN since[p] ELSE 0]
      /\ queue' = queue /\ phase' = phase /\ sleep' = sleep
  BY DEF SetRedundant
<1>2. ASSUME NEW p \in Pubs, p \in Meant(all)
      PROVE  /\ snd'[p] \in Element /\ snd'[p].on /\ snd'[p].ttg = snd[p].ttg
             /\ snd'[p].req = snd[p].req /\ snd'[p].valid = snd[p].valid
             /\ snd'[p].red = ~leader /\ snd'[p].pull = snd[p].pull /\ snd[p].on
  <2>1. snd[p] \in Element
    BY <1>2, Present DEF IInv, TypeOK, Meant, Published
  <2>2. snd'[p] = [snd[p] EXCEPT !.red = ~leader]
    BY <1>1, <1>2
  <2>3. snd[p].on
    BY <1>2 DEF Meant, Published
  <2> QED
    BY <2>1, <2>2, <2>3 DEF Element
<1>3. ASSUME NEW p \in Pubs, p \notin Meant(all) PROVE snd'[p] = snd[p]
  BY <1>1, <1>3
<1>4. TypeOK'
  <2>1. \A p \in Pubs : snd'[p] \in {NoElement} \cup Element
    BY <1>2, <1>3 DEF IInv, TypeOK
  <2>2. snd' = [p \in Pubs |-> snd'[p]]
    BY <1>1
  <2>3. snd' \in [Pubs -> {NoElement} \cup Element]
    BY <2>1, <2>2
  <2>4. once' \subseteq Pubs /\ since' \in [Pubs -> Nat]
    BY <1>1 DEF IInv, TypeOK
  <2> QED
    BY <2>3, <2>4, <1>1 DEF IInv, TypeOK
<1>5. \A p \in Pubs : snd'[p].on <=> snd[p].on
  BY <1>2, <1>3
<1>6. QueueOK'
  BY <1>1, <1>5 DEF IInv, QueueOK, Published
<1>7. NoRequest' /\ Timers'
  BY <1>1, <1>2, <1>3, <1>5 DEF IInv, NoRequest, Timers, Published
<1>8. Running'
  <2> SUFFICES ASSUME NEW p \in once'
               PROVE  /\ snd'[p].on /\ snd'[p].valid /\ ~snd'[p].red /\ snd'[p].pull = "none"
                      /\ Cyclic(p) => since'[p] + snd'[p].ttg <= Interval[p]
    BY DEF Running, Published
  <2>1. p \in once /\ p \in Pubs /\ (leader \/ p \notin Meant(all)) /\ since'[p] = since[p]
    BY <1>1 DEF IInv, TypeOK
  <2>2. /\ snd[p].on /\ snd[p].valid /\ ~snd[p].red /\ snd[p].pull = "none"
        /\ Cyclic(p) => since[p] + snd[p].ttg <= Interval[p]
    BY <2>1 DEF IInv, Running, Published
  <2>3. CASE p \in Meant(all)
    BY <2>1, <2>2, <2>3, <1>2
  <2>4. CASE p \notin Meant(all)
    BY <2>1, <2>2, <2>4, <1>3
  <2> QED
    BY <2>3, <2>4
<1>9. QED
  BY <1>4, <1>6, <1>7, <1>8 DEF IInv

\* The queue does not depend on what trdp_pdSendQueued does to the elements.
LEMMA SameQueue ==
  ASSUME QueueOK, queue' = queue, \A p \in Pubs : snd'[p].on <=> snd[p].on
  PROVE  QueueOK'
  BY DEF QueueOK, Published

LEMMA ProcessSendIInv == ASSUME IInv, ProcessSend PROVE IInv'
<1>1. SendQueued(snd) /\ sleep' = 0 /\ queue' = queue /\ phase' = phase
  BY DEF ProcessSend, SendQueued, SendQueuedWith
<1>2. snd \in [Pubs -> {NoElement} \cup Element] /\ TypeOK /\ Timers /\ Running /\ NoRequest
  BY DEF IInv, TypeOK
<1>3. /\ snd' \in [Pubs -> {NoElement} \cup Element]
      /\ \A p \in Pubs : snd'[p].on <=> snd[p].on
      /\ NoRequest' /\ once' \subseteq Pubs /\ since' \in [Pubs -> Nat] /\ Running'
      /\ \A p \in Pubs : snd[p].on /\ Cyclic(p) /\ ~snd[p].req => snd'[p].ttg >= 1
  BY <1>1, <1>2, SendQueuedStep
<1>4. TypeOK'
  BY <1>1, <1>2, <1>3, SendAssumption DEF TypeOK
<1>5. QueueOK'
  BY <1>1, <1>3, SameQueue DEF IInv
<1>6. Timers'
  BY <1>1, <1>2, <1>3 DEF Timers, NoRequest, Published
<1>7. QED
  BY <1>3, <1>4, <1>5, <1>6 DEF IInv

\* Noting a request changes nothing but the request and its address.
LEMMA AskedFacts ==
  ASSUME TypeOK, NEW h \in Pubs, Published(h), NEW host \in Hosts
  PROVE  LET q == Asked(h, host)
         IN  /\ q \in [Pubs -> {NoElement} \cup Element]
             /\ \A p \in Pubs : q[p].on <=> snd[p].on
             /\ \A p \in Pubs : snd[p].on => /\ q[p].ttg = snd[p].ttg
                                             /\ q[p].valid = snd[p].valid
                                             /\ q[p].red = snd[p].red
                                             /\ q[p].seq = snd[p].seq
                                             /\ q[p].pull = snd[p].pull \/ q[p].req
<1> DEFINE q == Asked(h, host)
<1>1. snd[h] \in Element
  BY Present DEF TypeOK, Published
<1>2. \A p \in Pubs \ {h} : q[p] = snd[p]
  BY DEF Asked, TypeOK
<1>3. q[h] = [[snd[h] EXCEPT !.pull = host] EXCEPT !.req = TRUE]
  BY <1>1 DEF Asked, TypeOK, Element
<1>4. /\ q[h] \in Element /\ q[h].on = snd[h].on /\ q[h].ttg = snd[h].ttg
      /\ q[h].valid = snd[h].valid /\ q[h].red = snd[h].red /\ q[h].seq = snd[h].seq
      /\ q[h].req
  BY <1>1, <1>3 DEF Element
<1>5. q = [p \in Pubs |-> q[p]]
  BY DEF Asked, TypeOK
<1> HIDE DEF q
<1>6. \A p \in Pubs : q[p] \in {NoElement} \cup Element
  BY <1>2, <1>4 DEF TypeOK
<1>7. q \in [Pubs -> {NoElement} \cup Element]
  BY <1>5, <1>6
<1>8. QED
  BY <1>2, <1>4, <1>7 DEF q

\* A PULL request finds a published telegram.
LEMMA FirstIsPublished ==
  ASSUME TypeOK, QueueOK, queue # <<>>
  PROVE  Head(queue) \in Pubs /\ Published(Head(queue))
  BY DEF TypeOK, QueueOK

LEMMA PullRequestIInv ==
  ASSUME IInv, NEW host \in Hosts, PullRequest(host)
  PROVE  IInv'
<1> DEFINE h == Head(queue)
           q == Asked(h, host)
<1>1. SendQueued(q) /\ sleep' = sleep /\ queue' = queue /\ phase' = phase /\ queue # <<>>
  BY DEF PullRequest, SendQueued, SendQueuedWith
<1>2. TypeOK /\ Timers /\ Running /\ QueueOK
  BY DEF IInv
<1>3. h \in Pubs /\ Published(h)
  BY <1>1, <1>2, FirstIsPublished
<1>4. /\ q \in [Pubs -> {NoElement} \cup Element]
      /\ \A p \in Pubs : q[p].on <=> snd[p].on
      /\ \A p \in Pubs : snd[p].on => /\ q[p].ttg = snd[p].ttg
                                      /\ q[p].valid = snd[p].valid
                                      /\ q[p].red = snd[p].red
                                      /\ q[p].pull = snd[p].pull \/ q[p].req
  BY <1>2, <1>3, AskedFacts
<1> HIDE DEF q
<1>5. /\ snd' \in [Pubs -> {NoElement} \cup Element]
      /\ \A p \in Pubs : snd'[p].on <=> snd[p].on
      /\ NoRequest' /\ once' \subseteq Pubs /\ since' \in [Pubs -> Nat] /\ Running'
      /\ \A p \in Pubs : snd[p].on /\ Cyclic(p) => snd'[p].ttg >= 1 - sleep
  BY <1>1, <1>2, <1>4, SendQueuedStep
<1>6. TypeOK'
  BY <1>1, <1>2, <1>5 DEF TypeOK
<1>7. QueueOK'
  BY <1>1, <1>2, <1>5, SameQueue
<1>8. Timers'
  BY <1>1, <1>5 DEF Timers, Published
<1>9. QED
  BY <1>5, <1>6, <1>7, <1>8 DEF IInv

LEMMA TickIInv == ASSUME IInv, Tick PROVE IInv'
<1>1. /\ sleep < SendPoll /\ sleep' = sleep + 1 /\ phase' = (phase + 1) % Grid
      /\ snd' = [p \in Pubs |-> IF Published(p) /\ Cyclic(p)
                                THEN [snd[p] EXCEPT !.ttg = @ - 1] ELSE snd[p]]
      /\ since' = [p \in Pubs |-> IF p \in once THEN since[p] + 1 ELSE 0]
      /\ queue' = queue /\ once' = once
  BY DEF Tick
<1>2. ASSUME NEW p \in Pubs, snd[p].on, Cyclic(p)
      PROVE  /\ snd'[p] \in Element /\ snd'[p].on /\ snd'[p].ttg = snd[p].ttg - 1
             /\ snd'[p].req = snd[p].req /\ snd'[p].valid = snd[p].valid
             /\ snd'[p].red = snd[p].red /\ snd[p].ttg \in Int /\ snd'[p].pull = snd[p].pull
  <2>1. snd[p] \in Element
    BY <1>2, Present DEF IInv, TypeOK
  <2>2. snd'[p] = [snd[p] EXCEPT !.ttg = snd[p].ttg - 1]
    BY <1>1, <1>2 DEF Published
  <2>3. snd[p].ttg \in Int /\ snd[p].ttg - 1 \in Int
    BY <2>1, FieldTypes
  <2> DEFINE e == snd[p]
             t == snd[p].ttg - 1
             f == snd'[p]
  <2>4. e \in Element /\ t \in Int /\ f = [e EXCEPT !.ttg = t]
    BY <2>1, <2>2, <2>3
  <2> HIDE DEF e, t, f
  <2>5. f \in Element
    BY <2>4 DEF Element
  <2>6. f.ttg = t /\ f.req = e.req /\ f.valid = e.valid /\ f.red = e.red /\ f.pull = e.pull
    BY <2>4 DEF Element
  <2> QED
    BY <2>3, <2>5, <2>6, FieldTypes DEF e, t, f
<1>3. ASSUME NEW p \in Pubs, ~(snd[p].on /\ Cyclic(p)) PROVE snd'[p] = snd[p]
  BY <1>1, <1>3 DEF Published
<1>4. \A p \in Pubs : snd'[p].on <=> snd[p].on
  BY <1>2, <1>3
<1>5. TypeOK'
  <2>1. \A p \in Pubs : snd'[p] \in {NoElement} \cup Element
    BY <1>2, <1>3 DEF IInv, TypeOK
  <2>2. snd' = [p \in Pubs |-> snd'[p]]
    BY <1>1
  <2>3. snd' \in [Pubs -> {NoElement} \cup Element]
    BY <2>1, <2>2
  <2>4. phase' \in 0 .. Grid - 1
    <3>1. phase + 1 \in Int /\ Grid \in Int /\ Grid > 0
      BY SendAssumption DEF IInv, TypeOK
    <3> QED
      BY <3>1, <1>1
  <2>5. sleep' \in 0 .. SendPoll
    BY <1>1, SendAssumption DEF IInv, TypeOK
  <2>6. since' \in [Pubs -> Nat]
    BY <1>1 DEF IInv, TypeOK
  <2> QED
    BY <2>3, <2>4, <2>5, <2>6, <1>1 DEF IInv, TypeOK
<1>6. QueueOK'
  BY <1>1, <1>4, SameQueue DEF IInv
<1>7. NoRequest'
  BY <1>2, <1>3, <1>4 DEF IInv, NoRequest, Published
<1>8. Timers'
  <2> SUFFICES ASSUME NEW p \in Pubs, snd'[p].on, Cyclic(p) PROVE snd'[p].ttg >= 1 - sleep'
    BY DEF Timers, Published
  <2>1. snd[p].on /\ snd[p].ttg >= 1 - sleep /\ sleep \in Int
    BY <1>4, SendAssumption DEF IInv, Timers, Published, TypeOK
  <2>2. snd'[p].ttg = snd[p].ttg - 1 /\ snd[p].ttg \in Int
    BY <2>1, <1>2
  <2>3. sleep' = sleep + 1
    BY <1>1
  <2> HIDE DEF Cyclic
  <2> QED
    BY <2>1, <2>2, <2>3
<1>9. Running'
  <2> SUFFICES ASSUME NEW p \in once
               PROVE  /\ snd'[p].on /\ snd'[p].valid /\ ~snd'[p].red /\ snd'[p].pull = "none"
                      /\ Cyclic(p) => since'[p] + snd'[p].ttg <= Interval[p]
    BY <1>1 DEF Running, Published
  <2>1. p \in Pubs /\ since'[p] = since[p] + 1 /\ since[p] \in Nat
    BY <1>1 DEF IInv, TypeOK
  <2>2. /\ snd[p].on /\ snd[p].valid /\ ~snd[p].red /\ snd[p].pull = "none"
        /\ Cyclic(p) => since[p] + snd[p].ttg <= Interval[p]
    BY DEF IInv, Running, Published
  <2>3. CASE Cyclic(p)
    BY <2>1, <2>2, <2>3, <1>2, SendAssumption
  <2>4. CASE ~Cyclic(p)
    BY <2>1, <2>2, <2>4, <1>3
  <2> QED
    BY <2>3, <2>4
<1>10. QED
  BY <1>5, <1>6, <1>7, <1>8, <1>9 DEF IInv

LEMMA NextIInv == ASSUME IInv, [Next]_vars PROVE IInv'
<1>1. CASE \E p \in Pubs : \E w \in BOOLEAN : Publish(p, w)
  BY <1>1, PublishIInv
<1>2. CASE \E p \in Pubs : \E d \in Data : Put(p, d)
  BY <1>2, PutIInv
<1>3. CASE \E p \in Pubs : Unpublish(p)
  BY <1>3, UnpublishIInv
<1>4. CASE \E all, l \in BOOLEAN : SetRedundant(all, l)
  BY <1>4, SetRedundantIInv
<1>5. CASE \E h \in Hosts : PullRequest(h)
  BY <1>5, PullRequestIInv
<1>6. CASE ProcessSend
  BY <1>6, ProcessSendIInv
<1>7. CASE Tick
  BY <1>7, TickIInv
<1>8. CASE UNCHANGED vars
  BY <1>8 DEF vars, IInv, TypeOK, QueueOK, NoRequest, Timers, Running, Published
<1>9. QED
  BY <1>1, <1>2, <1>3, <1>4, <1>5, <1>6, <1>7, <1>8 DEF Next

LEMMA IInvHolds == Spec => []IInv
<1>1. Init => IInv
  BY InitIInv
<1>2. IInv /\ [Next]_vars => IInv'
  BY NextIInv
<1>3. QED
  BY <1>1, <1>2, PTL DEF Spec

\* The invariant bounds the time between two packets.
LEMMA CycleFromIInv == ASSUME IInv PROVE CycleKept
<1> SUFFICES ASSUME NEW p \in once, Cyclic(p) PROVE since[p] < Interval[p] + SendPoll
  BY DEF CycleKept
<1>1. p \in Pubs /\ since[p] \in Nat /\ sleep \in 0 .. SendPoll
  BY DEF IInv, TypeOK
<1>2. snd[p].on /\ since[p] + snd[p].ttg <= Interval[p] /\ snd[p].ttg >= 1 - sleep
  BY <1>1 DEF IInv, Running, Timers, Published
<1>3. snd[p].ttg \in Int
  BY <1>1, <1>2, Present, FieldTypes DEF IInv, TypeOK
<1>4. QED
  BY <1>1, <1>2, <1>3, SendAssumption

----------------------------------------------------------------------------
(* Every action leaves the timers on the grid.                               *)

\* trdp_pdSendQueued, on time or late, for a request or for the cycle.
LEMMA SendQueuedOnGrid ==
  ASSUME IInv, OnGrid,
         NEW q \in [Pubs -> {NoElement} \cup Element],
         \A p \in Pubs : q[p].on <=> snd[p].on,
         \A p \in Pubs : snd[p].on => q[p].ttg = snd[p].ttg,
         SendQueued(q)
  PROVE  OnGrid'
<1> SUFFICES ASSUME NEW p \in Pubs, snd'[p].on, Cyclic(p), Interval[p] % Grid = 0
             PROVE  (phase' + snd'[p].ttg) % Grid = 0
  BY DEF OnGrid, Published
<1> PICK failed \in SUBSET Senders(q) : SendQueuedWith(q, failed)
  BY DEF SendQueued
<1>1. /\ IF p \in Handled(q) THEN snd'[p] = SentElement(p, q[p]) ELSE snd'[p] = q[p]
      /\ phase' = phase
  BY DEF SendQueuedWith
<1>2. phase \in 0 .. Grid - 1
  BY DEF IInv, TypeOK
<1>3. q[p].on
  BY <1>1 DEF Handled
<1>4. q[p] \in Element
  BY <1>3, Present
<1>5. q[p].ttg \in Int /\ (phase + q[p].ttg) % Grid = 0
  <2>1. snd[p].on /\ q[p].ttg = snd[p].ttg
    BY <1>3
  <2> QED
    BY <2>1, <1>4, FieldTypes DEF OnGrid, Published
<1>6. (phase + NextTtg(p, q[p])) % Grid = 0
  BY <1>2, <1>5, NextOnGrid
<1>7. snd'[p].ttg = q[p].ttg \/ snd'[p].ttg = NextTtg(p, q[p])
  BY <1>1, <1>2, <1>4, SentFacts
<1>8. QED
  BY <1>1, <1>5, <1>6, <1>7

LEMMA NextOnGridStep == ASSUME IInv, OnGrid, [Next]_vars PROVE OnGrid'
<1>0. Grid \in Int /\ Grid > 0 /\ phase \in 0 .. Grid - 1
  BY SendAssumption DEF IInv, TypeOK
<1>1. ASSUME NEW p \in Pubs, NEW w \in BOOLEAN, Publish(p, w) PROVE OnGrid'
  <2> SUFFICES ASSUME NEW o \in Pubs, snd'[o].on, Cyclic(o), Interval[o] % Grid = 0
               PROVE  (phase + snd'[o].ttg) % Grid = 0
    BY <1>1 DEF OnGrid, Published, Publish
  <2>1. CASE o = p
    <3>1. PICK k \in FirstSteps[p] : snd'[p].ttg = k * Grid - phase
      BY <1>1, <2>1 DEF Publish, IInv, TypeOK
    <3>2. k \in Int
      <4>1. FirstSteps[p] \in SUBSET (Nat \ {0})
        BY SendAssumption
      <4> QED
        BY <4>1
    <3>3. phase + snd'[p].ttg = k * Grid /\ phase + snd'[p].ttg \in Int
      BY <1>0, <3>1, <3>2
    <3> QED
      BY <1>0, <2>1, <3>2, <3>3, MultipleIff
  <2>2. CASE o # p
    <3>1. snd'[o] = snd[o]
      BY <1>1, <2>2 DEF Publish, IInv, TypeOK
    <3> QED
      BY <3>1 DEF OnGrid, Published
  <2> QED
    BY <2>1, <2>2
<1>2. ASSUME NEW p \in Pubs, NEW d \in Data, Put(p, d) PROVE OnGrid'
  <2>1. snd[p] \in Element
    BY <1>2, Present DEF IInv, TypeOK, Published, Put
  <2>2. snd'[p].ttg = snd[p].ttg /\ snd[p].on
    BY <1>2, <2>1 DEF IInv, TypeOK, Element, Put
  <2>3. \A o \in Pubs \ {p} : snd'[o] = snd[o]
    BY <1>2 DEF IInv, TypeOK, Put
  <2>4. phase' = phase
    BY <1>2 DEF Put
  <2> QED
    BY <2>2, <2>3, <2>4 DEF OnGrid, Published
<1>3. ASSUME NEW p \in Pubs, Unpublish(p) PROVE OnGrid'
  <2>1. snd'[p] = NoElement /\ (\A o \in Pubs \ {p} : snd'[o] = snd[o]) /\ phase' = phase
    BY <1>3 DEF Unpublish, IInv, TypeOK
  <2>2. ~snd'[p].on
    BY <2>1 DEF NoElement
  <2> QED
    BY <2>1, <2>2 DEF OnGrid, Published
<1>4. ASSUME NEW all \in BOOLEAN, NEW l \in BOOLEAN, SetRedundant(all, l) PROVE OnGrid'
  <2> SUFFICES ASSUME NEW p \in Pubs, snd'[p].on, Cyclic(p), Interval[p] % Grid = 0
               PROVE  (phase + snd'[p].ttg) % Grid = 0
    BY <1>4 DEF OnGrid, Published, SetRedundant
  <2>1. snd'[p] = IF p \in Meant(all) THEN [snd[p] EXCEPT !.red = ~l] ELSE snd[p]
    BY <1>4 DEF SetRedundant
  <2>2. CASE p \in Meant(all)
    <3>1. snd[p] \in Element /\ snd[p].on
      BY <2>2, Present DEF IInv, TypeOK, Meant, Published
    <3>2. snd'[p].ttg = snd[p].ttg
      BY <2>1, <2>2, <3>1 DEF Element
    <3> QED
      BY <3>1, <3>2 DEF OnGrid, Published
  <2>3. CASE p \notin Meant(all)
    BY <2>1, <2>3 DEF OnGrid, Published
  <2> QED
    BY <2>2, <2>3
<1>5. ASSUME NEW host \in Hosts, PullRequest(host) PROVE OnGrid'
  <2> DEFINE q == Asked(Head(queue), host)
  <2>1. SendQueued(q) /\ queue # <<>>
    BY <1>5 DEF PullRequest
  <2>2. Head(queue) \in Pubs /\ Published(Head(queue))
    BY <2>1, FirstIsPublished DEF IInv
  <2>3. /\ q \in [Pubs -> {NoElement} \cup Element]
        /\ \A p \in Pubs : q[p].on <=> snd[p].on
        /\ \A p \in Pubs : snd[p].on => q[p].ttg = snd[p].ttg
    BY <2>2, AskedFacts DEF IInv
  <2> HIDE DEF q
  <2> QED
    BY <2>1, <2>3, SendQueuedOnGrid
<1>6. ASSUME ProcessSend PROVE OnGrid'
  <2>1. snd \in [Pubs -> {NoElement} \cup Element] /\ SendQueued(snd)
    BY <1>6 DEF IInv, TypeOK, ProcessSend
  <2> QED
    BY <2>1, SendQueuedOnGrid
<1>7. ASSUME Tick PROVE OnGrid'
  <2> SUFFICES ASSUME NEW p \in Pubs, snd'[p].on, Cyclic(p), Interval[p] % Grid = 0
               PROVE  (phase' + snd'[p].ttg) % Grid = 0
    BY DEF OnGrid, Published
  <2>1. snd'[p] = IF snd[p].on THEN [snd[p] EXCEPT !.ttg = @ - 1] ELSE snd[p]
    BY <1>7 DEF Tick, Published
  <2>2. snd[p].on
    BY <2>1
  <2>3. snd[p] \in Element
    BY <2>2, Present DEF IInv, TypeOK
  <2>4. snd'[p].ttg = snd[p].ttg - 1 /\ snd[p].ttg \in Int
    BY <2>1, <2>2, <2>3 DEF Element
  <2> DEFINE t == snd[p].ttg
             m == ((phase + 1) \div Grid) * Grid
  <2>5. phase' = (phase + 1) % Grid /\ phase + 1 \in Int /\ phase \in Int
    BY <1>0, <1>7 DEF Tick
  <2>6. m \in Int /\ m % Grid = 0 /\ phase' = phase + 1 - m /\ phase' \in Int
    <3>1. (phase + 1) \div Grid \in Int /\ phase + 1 = m + phase' /\ phase' \in Int
      BY <1>0, <2>5, DivMod
    <3>2. m \in Int /\ phase' = phase + 1 - m
      BY <1>0, <2>5, <3>1
    <3> QED
      BY <1>0, <3>1, <3>2, MultipleIff
  <2>7. (phase + t) % Grid = 0
    BY <2>2 DEF OnGrid, Published
  <2>8. t \in Int
    BY <2>4
  <2> HIDE DEF m, t
  <2>9. phase' + (t - 1) = (phase + t) - m /\ phase + t \in Int
    BY <2>5, <2>6, <2>8
  <2>10. ((phase + t) - m) % Grid = 0
    BY <1>0, <2>6, <2>7, <2>9, MultipleSum
  <2> QED
    BY <2>4, <2>9, <2>10 DEF t
<1>8. CASE UNCHANGED vars
  BY <1>8 DEF vars, OnGrid, Published
<1>9. QED
  BY <1>1, <1>2, <1>3, <1>4, <1>5, <1>6, <1>7, <1>8 DEF Next

----------------------------------------------------------------------------
(* The theorems.                                                            *)

\* The elements of the send queue, the queue and the timers keep their types,
\* and the counters stay below their modulus, for every set of telegrams.
THEOREM TypeCorrect == Spec => []TypeOK
<1>1. IInv => TypeOK
  BY DEF IInv
<1>2. QED
  BY <1>1, IInvHolds, PTL

\* For every cycle, grid and delay of the send thread, a leading telegram with
\* data is never silent for a cycle plus the delay.
THEOREM CycleIsKept == Spec => []CycleKept
<1>1. IInv => CycleKept
  BY CycleFromIInv
<1>2. QED
  BY <1>1, IInvHolds, PTL

\* For every delay of the send thread, a telegram that was sent is next due in
\* the future: what was missed is skipped, never sent in a burst.
THEOREM NoBurstEver == Spec => NoBurst
<1>1. IInv /\ [Next]_vars
        => [\A p \in PdPackets(snd) : ProcessSend /\ Cyclic(p) => snd'[p].ttg > 0]_vars
  <2> SUFFICES ASSUME IInv, NEW p \in PdPackets(snd), ProcessSend, Cyclic(p)
               PROVE  snd'[p].ttg > 0
    OBVIOUS
  <2>1. p \in Pubs /\ p \in Handled(snd) /\ ~Pulled(snd[p]) /\ snd[p].on
    BY DEF PdPackets, Senders, Handled
  <2>2. snd[p] \in Element /\ phase \in 0 .. Grid - 1
    BY <2>1, Present DEF IInv, TypeOK
  <2>3. snd'[p] = SentElement(p, snd[p])
    BY <2>1 DEF ProcessSend, SendQueued, SendQueuedWith
  <2>4. snd'[p].ttg = NextTtg(p, snd[p]) /\ snd[p].ttg \in Int
    BY <2>1, <2>2, <2>3, SentFacts, FieldTypes
  <2> QED
    BY <2>1, <2>2, <2>4, NextTtgFacts
<1>2. QED
  BY <1>1, IInvHolds, PTL DEF Spec, NoBurst

\* For every grid, every cycle that is a multiple of it and every delay of the
\* send thread, the timer stays on the grid of the transmit schedule.
THEOREM AlwaysOnGrid == Spec => []OnGrid
<1>1. Init => OnGrid
  BY DEF Init, OnGrid, Published, NoElement
<1>2. IInv /\ OnGrid /\ [Next]_vars => OnGrid'
  BY NextOnGridStep
<1>3. QED
  BY <1>1, <1>2, IInvHolds, PTL DEF Spec

----------------------------------------------------------------------------
(***************************************************************************)
(* The send queue implements TrdpSource: every telegram of it, seen by its *)
(* subscribers, is a source that keeps its promise.                        *)
(***************************************************************************)

\* What does not run is not counted either; needed besides IInv.
Idle == \A p \in Pubs : p \notin once => since[p] = 0

\* The counter a subscriber may have seen last.
SeqOf(p) == IF snd[p].on THEN snd[p].seq ELSE 0

----------------------------------------------------------------------------
(* The four kinds of steps a telegram makes.                                *)

LEMMA SameStep ==
  ASSUME NEW p \in Pubs, once' = once \/ (p \in once <=> p \in once'),
         since'[p] = since[p], SeqOf(p)' = SeqOf(p)
  PROVE  Source(p)!SourceStep
  BY DEF Source!SourceStep, Source!sourceVars, Published, SeqOf

LEMMA DownStep ==
  ASSUME NEW p \in Pubs, p \notin once', since'[p] = 0, SeqOf(p)' \in Counters
  PROVE  Source(p)!SourceStep
  BY DEF Source!SourceStep, Source!SourceNext, Source!SourceDown, Source!Values,
         Published, SeqOf, Counters

LEMMA PdStep ==
  ASSUME NEW p \in Pubs, p \in once', since'[p] = 0, SeqOf(p)' = Bump(SeqOf(p))
  PROVE  Source(p)!SourceStep
  BY DEF Source!SourceStep, Source!SourceNext, Source!SourcePd, Published, SeqOf, Bump

LEMMA TickStep ==
  ASSUME NEW p \in Pubs, p \in once' <=> p \in once, SeqOf(p)' = SeqOf(p),
         p \in once => since[p] < Interval[p] + SendPoll - 1,
         since'[p] = IF p \in once THEN since[p] + 1 ELSE 0
  PROVE  Source(p)!SourceStep
  BY DEF Source!SourceStep, Source!SourceNext, Source!SourceTick, Published, SeqOf

\* The counter shown is a counter.
LEMMA SeqOfType ==
  ASSUME NEW e \in {NoElement} \cup Element
  PROVE  (IF e.on THEN e.seq ELSE 0) \in Counters
<1>1. CASE e.on
  BY <1>1, Present, FieldTypes
<1>2. CASE ~e.on
  BY <1>2, PacketAssumption DEF Counters
<1>3. QED
  BY <1>1, <1>2

----------------------------------------------------------------------------
(* Each action.                                                             *)

\* trdp_pdSendQueued on elements q that differ from snd in requests only: a
\* running telegram that is handled sends its PD or answers a PULL.
LEMMA SendQueuedSource ==
  ASSUME IInv, IInv', Idle, NEW p \in Pubs,
         NEW q \in [Pubs -> {NoElement} \cup Element],
         q[p].on <=> snd[p].on,
         snd[p].on => /\ q[p].valid = snd[p].valid /\ q[p].red = snd[p].red
                      /\ q[p].seq = snd[p].seq
                      /\ q[p].pull = snd[p].pull \/ q[p].req,
         SendQueued(q)
  PROVE  /\ Source(p)!SourceStep
         /\ p \notin once' => since'[p] = 0
<1> PICK failed \in SUBSET Senders(q) : SendQueuedWith(q, failed)
  BY DEF SendQueued
<1>1. /\ IF p \in Handled(q) THEN snd'[p] = SentElement(p, q[p]) ELSE snd'[p] = q[p]
      /\ since'[p] = IF p \in PdPackets(q) THEN 0 ELSE since[p]
      /\ once' = (once \cup PdSenders(q)) \ (failed \cap PdPackets(q))
      /\ PdSenders(q) \subseteq PdPackets(q)
  BY DEF SendQueuedWith, PdSenders
<1>2. phase \in 0 .. Grid - 1
  BY DEF IInv, TypeOK
<1>3. CASE p \in PdSenders(q) /\ p \in once'
  <2>1. p \in Handled(q) /\ q[p].on /\ q[p].valid /\ ~Pulled(q[p]) /\ since'[p] = 0
    BY <1>1, <1>3 DEF PdSenders, PdPackets, Senders, Sends, Handled
  <2>2. q[p] \in Element /\ snd[p].on
    BY <2>1, Present
  <2>3. snd'[p] \in Element /\ snd'[p].seq = Bump(q[p].seq)
    BY <2>1, <2>2, <1>1, <1>2, SentFacts
  <2>4. snd'[p].on
    BY <2>3, FieldTypes
  <2>5. SeqOf(p)' = Bump(SeqOf(p))
    BY <2>2, <2>3, <2>4 DEF SeqOf
  <2> QED
    BY <2>1, <1>3, <2>5, PdStep
<1>4. CASE p \notin PdSenders(q) /\ p \in once'
  <2>0. p \in once
    BY <1>1, <1>4
  <2>1. snd[p].on /\ snd[p].valid /\ ~snd[p].red /\ snd[p].pull = "none"
    BY <2>0 DEF IInv, Running, Published
  <2>2. q[p] \in Element
    BY <2>1, Present
  <2>3. p \in Handled(q) => Pulled(q[p])
    BY <2>1, <1>4 DEF PdSenders, PdPackets, Senders, Sends, Pulled
  <2>4. snd'[p].seq = q[p].seq /\ snd'[p] \in Element
    BY <2>2, <2>3, <1>1, <1>2, SentFacts
  <2>5. SeqOf(p)' = SeqOf(p)
    BY <2>1, <2>4, FieldTypes DEF SeqOf
  <2>6. since'[p] = since[p]
    BY <2>0, <2>3, <1>1 DEF PdPackets, Senders
  <2> QED
    BY <1>4, <2>0, <2>5, <2>6, SameStep
<1>5. CASE p \notin once'
  <2>1. since'[p] = 0
    BY <1>1, <1>5 DEF Idle
  <2>2. SeqOf(p)' \in Counters
    <3>1. snd'[p] \in {NoElement} \cup Element
      BY DEF IInv, TypeOK
    <3> QED
      BY <3>1, SeqOfType DEF SeqOf
  <2> QED
    BY <2>1, <2>2, <1>5, DownStep
<1>6. QED
  BY <1>3, <1>4, <1>5

\* Every step of the queue is a step of each source or leaves it alone, and a
\* telegram that does not run is not counted.
LEMMA NextSource ==
  ASSUME IInv, IInv', Idle, [Next]_vars, NEW p \in Pubs
  PROVE  /\ Cyclic(p) => Source(p)!SourceStep
         /\ p \notin once' => since'[p] = 0
<1>0. snd \in [Pubs -> {NoElement} \cup Element] /\ once \subseteq Pubs /\ since \in [Pubs -> Nat]
  BY DEF IInv, TypeOK
<1>a. p \notin once => since[p] = 0
  BY DEF Idle
<1>b. SeqOf(p)' \in Counters
  <2>1. snd'[p] \in {NoElement} \cup Element
    BY DEF IInv, TypeOK
  <2> QED
    BY <2>1, SeqOfType DEF SeqOf
<1>1. ASSUME NEW r \in Pubs, NEW w \in BOOLEAN, Publish(r, w)
      PROVE  Source(p)!SourceStep /\ (p \notin once' => since'[p] = 0)
  <2>1. once' = once /\ since' = since /\ ~snd[r].on
    BY <1>1 DEF Publish, Published
  <2>2. CASE p = r
    <3>1. p \notin once
      BY <2>1, <2>2 DEF IInv, Running, Published
    <3> QED
      BY <3>1, <2>1, <1>a, <1>b, DownStep
  <2>3. CASE p # r
    <3>1. snd'[p] = snd[p]
      BY <1>0, <1>1, <2>3 DEF Publish
    <3> QED
      BY <3>1, <2>1, <1>a, SameStep DEF SeqOf
  <2> QED
    BY <2>2, <2>3
<1>2. ASSUME NEW r \in Pubs, NEW d \in Data, Put(r, d)
      PROVE  Source(p)!SourceStep /\ (p \notin once' => since'[p] = 0)
  <2>1. once' = once /\ since' = since /\ snd[r].on
    BY <1>2 DEF Put, Published
  <2>2. snd'[p].on = snd[p].on /\ (snd[p].on => snd'[p].seq = snd[p].seq)
    <3>1. CASE p = r
      <4>1. snd[p] \in Element
        BY <1>0, <2>1, <3>1, Present
      <4>2. snd'[p] = [[snd[p] EXCEPT !.data = d] EXCEPT !.valid = TRUE]
        BY <1>0, <1>2, <3>1 DEF Put
      <4> QED
        BY <4>1, <4>2 DEF Element
    <3>2. CASE p # r
      BY <1>0, <1>2, <3>2 DEF Put
    <3> QED
      BY <3>1, <3>2
  <2> QED
    BY <2>1, <2>2, <1>a, SameStep DEF SeqOf
<1>3. ASSUME NEW r \in Pubs, Unpublish(r)
      PROVE  Source(p)!SourceStep /\ (p \notin once' => since'[p] = 0)
  <2>1. CASE p = r
    <3>1. p \notin once' /\ since'[p] = 0
      BY <1>0, <1>3, <2>1 DEF Unpublish
    <3> QED
      BY <3>1, <1>b, DownStep
  <2>2. CASE p # r
    <3>1. snd'[p] = snd[p] /\ (p \in once' <=> p \in once) /\ since'[p] = since[p]
      BY <1>0, <1>3, <2>2 DEF Unpublish
    <3> QED
      BY <3>1, <1>a, SameStep DEF SeqOf
  <2> QED
    BY <2>1, <2>2
<1>4. ASSUME NEW all \in BOOLEAN, NEW l \in BOOLEAN, SetRedundant(all, l)
      PROVE  Source(p)!SourceStep /\ (p \notin once' => since'[p] = 0)
  <2>1. /\ once' = IF l THEN once ELSE once \ Meant(all)
        /\ since'[p] = IF l \/ p \notin Meant(all) THEN since[p] ELSE 0
        /\ snd'[p] = IF p \in Meant(all) THEN [snd[p] EXCEPT !.red = ~l] ELSE snd[p]
    BY <1>4 DEF SetRedundant
  <2>2. CASE p \in Meant(all) /\ ~l
    BY <2>1, <2>2, <1>b, DownStep
  <2>3. CASE ~(p \in Meant(all) /\ ~l)
    <3>1. (p \in once' <=> p \in once) /\ since'[p] = since[p]
      BY <2>1, <2>3
    <3>2. snd'[p].on = snd[p].on /\ (snd[p].on => snd'[p].seq = snd[p].seq)
      <4>1. CASE p \in Meant(all)
        <5>1. snd[p] \in Element
          BY <1>0, <4>1, Present DEF Meant, Published
        <5> QED
          BY <5>1, <2>1, <4>1 DEF Element
      <4>2. CASE ~(p \in Meant(all))
        BY <2>1, <4>2
      <4> QED
        BY <4>1, <4>2
    <3> QED
      BY <3>1, <3>2, <1>a, SameStep DEF SeqOf
  <2> QED
    BY <2>2, <2>3
<1>5. ASSUME NEW h \in Hosts, PullRequest(h)
      PROVE  Source(p)!SourceStep /\ (p \notin once' => since'[p] = 0)
  <2> DEFINE q == Asked(Head(queue), h)
  <2>1. SendQueued(q) /\ queue # <<>>
    BY <1>5 DEF PullRequest
  <2>2. Head(queue) \in Pubs /\ Published(Head(queue))
    BY <2>1, FirstIsPublished DEF IInv
  <2>3. q \in [Pubs -> {NoElement} \cup Element] /\ (q[p].on <=> snd[p].on)
    BY <2>2, AskedFacts DEF IInv
  <2>4. snd[p].on => /\ q[p].valid = snd[p].valid /\ q[p].red = snd[p].red
                     /\ q[p].seq = snd[p].seq
                     /\ q[p].pull = snd[p].pull \/ q[p].req
    BY <2>2, AskedFacts DEF IInv
  <2> HIDE DEF q
  <2> QED
    BY <2>1, <2>3, <2>4, SendQueuedSource
<1>6. CASE ProcessSend
  BY <1>0, <1>6, SendQueuedSource DEF ProcessSend
<1>7. CASE Tick
  <2>1. /\ once' = once
        /\ since'[p] = IF p \in once THEN since[p] + 1 ELSE 0
        /\ snd'[p] = IF snd[p].on /\ Cyclic(p) THEN [snd[p] EXCEPT !.ttg = @ - 1] ELSE snd[p]
    BY <1>7 DEF Tick, Published
  <2>2. SeqOf(p)' = SeqOf(p)
    <3>1. CASE snd[p].on
      <4>1. snd[p] \in Element
        BY <1>0, <3>1, Present
      <4>2. snd'[p].on = snd[p].on /\ snd'[p].seq = snd[p].seq
        BY <4>1, <3>1, <2>1 DEF Element
      <4> QED
        BY <4>2 DEF SeqOf
    <3>2. CASE ~snd[p].on
      BY <3>2, <2>1 DEF SeqOf
    <3> QED
      BY <3>1, <3>2
  <2>3. Cyclic(p) /\ p \in once => since[p] < Interval[p] + SendPoll - 1
    <3>1. SUFFICES ASSUME Cyclic(p), p \in once PROVE since[p] < Interval[p] + SendPoll - 1
      OBVIOUS
    <3>2. since'[p] = since[p] + 1 /\ since[p] \in Nat /\ Interval[p] \in Nat /\ SendPoll \in Nat
      BY <3>1, <2>1, <1>0, SendAssumption
    <3>3. /\ snd'[p].on /\ sleep' \in 0 .. SendPoll
          /\ since'[p] + snd'[p].ttg <= Interval[p] /\ snd'[p].ttg >= 1 - sleep'
      BY <3>1, <2>1 DEF IInv, TypeOK, Running, Timers, Published
    <3>4. snd'[p].ttg \in Int
      BY <3>3, Present, FieldTypes DEF IInv, TypeOK
    <3> HIDE DEF Cyclic
    <3> QED
      BY <3>2, <3>3, <3>4
  <2> QED
    BY <2>1, <2>2, <2>3, TickStep
<1>8. CASE UNCHANGED vars
  <2>1. once' = once /\ since' = since /\ snd' = snd
    BY <1>8 DEF vars
  <2> QED
    BY <2>1, <1>a, SameStep DEF SeqOf
<1>9. QED
  BY <1>1, <1>2, <1>3, <1>4, <1>5, <1>6, <1>7, <1>8 DEF Next

\* What does not run is not counted, in every reachable state.
LEMMA IdleHolds == Spec => []Idle
<1>1. Init => Idle
  BY DEF Init, Idle
<1>2. IInv /\ IInv' /\ Idle /\ [Next]_vars => Idle'
  <2>1. SUFFICES ASSUME IInv, IInv', Idle, [Next]_vars, NEW p \in Pubs
                 PROVE  p \notin once' => since'[p] = 0
    BY DEF Idle
  <2> QED
    BY <2>1, NextSource
<1>3. QED
  BY <1>1, <1>2, IInvHolds, PTL DEF Spec

\* The refinement.  Whatever tlp_publish, tlp_put, tlp_unpublish,
\* tlp_setRedundant, PULL requests and a late send thread do, a subscriber sees
\* a source: PD packets with consecutive counters, never further apart than a
\* cycle plus the longest sleep of the send thread allow.
THEOREM ImplementsSource == Spec => KeepsPromise
<1>1. Init => \A p \in Pubs : Cyclic(p) => Source(p)!SourceInit
  BY PacketAssumption DEF Init, NoElement, Published, Source!SourceInit, Source!Values
<1>2. IInv /\ IInv' /\ Idle /\ [Next]_vars
        => [\A p \in Pubs : Cyclic(p) => Source(p)!SourceStep]_vars
  <2>1. SUFFICES ASSUME IInv, IInv', Idle, [Next]_vars
                 PROVE  \A p \in Pubs : Cyclic(p) => Source(p)!SourceStep
    OBVIOUS
  <2> QED
    BY <2>1, NextSource
<1>3. QED
  BY <1>1, <1>2, IInvHolds, IdleHolds, PTL DEF Spec, KeepsPromise
=============================================================================
