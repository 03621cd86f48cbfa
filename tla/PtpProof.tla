------------------------------ MODULE PtpProof ------------------------------
(***************************************************************************)
(* Proofs about the measurement of time: the peer delay of a linuxptp port *)
(* (PtpPeer), for any responders, number of requests, steps of the clock   *)
(* and order of the answers, the time stamps a slave takes together        *)
(* (PtpSync), the time stamping in the driver (PtpDrv), for any number of  *)
(* buffers and width of the clock's registers, the residence times a       *)
(* transparent clock adds (PtpTransparent), for any number of ports, the   *)
(* clock phc2sys takes as the source (Phc2sys), for any interfaces, and    *)
(* the unicast service of a client (PtpUnicast), for any duration of the   *)
(* grants, any intervals and any losses that the renewals make up for.     *)
(***************************************************************************)
EXTENDS PtpPeer, PtpDrv, PtpSync, PtpTransparent, Phc2sys, PtpUnicast, WellFoundedInduction, SequenceTheorems,
        FiniteSetTheorems, TLAPS

----------------------------------------------------------------------------
(* What the operators on struct port return and leave alone.                *)

\* The parts of an exchange are the same in p and q, and so is the delay.
PpSame(p, q) == q.req = p.req /\ q.resp = p.resp /\ q.fup = p.fup /\ q.delay = p.delay

LEMMA PpNrateInitFacts ==
  ASSUME NEW p \in PpPorts
  PROVE  PpNrateInitialize(p) \in PpPorts /\ PpSame(p, PpNrateInitialize(p))
<1> DEFINE n == PpAllowed + 1
<1>1. n \in Nat
  BY PpAssumption
<1>2. "none" \in PpPeers
  BY DEF PpPeers
<1>3. PpNrateInitialize(p)
        = [p EXCEPT !.missing = n, !.peer = "none", !.first = FALSE, !.count = 0, !.valid = FALSE]
  BY DEF PpNrateInitialize
<1> HIDE DEF n
<1>4. PpNrateInitialize(p) \in PpPorts
  <2> DEFINE a == [p EXCEPT !.missing = n]
             b == [a EXCEPT !.peer = "none"]
             c == [b EXCEPT !.first = FALSE]
             d == [c EXCEPT !.count = 0]
  <2>1. a \in PpPorts
    BY <1>1 DEF PpPorts
  <2>2. b \in PpPorts
    <3> HIDE DEF a
    <3> QED BY <2>1, <1>2 DEF PpPorts
  <2>3. c \in PpPorts
    <3> HIDE DEF b
    <3> QED BY <2>2 DEF PpPorts
  <2>4. d \in PpPorts
    <3> HIDE DEF c
    <3> QED BY <2>3 DEF PpPorts
  <2>5. [d EXCEPT !.valid = FALSE] \in PpPorts
    <3> HIDE DEF d
    <3> QED BY <2>4 DEF PpPorts
  <2>6. PpNrateInitialize(p) = [d EXCEPT !.valid = FALSE]
    BY <1>3
  <2>7. QED
    BY <2>5, <2>6
<1>5. PpSame(p, PpNrateInitialize(p))
  BY <1>3 DEF PpPorts, PpSame
<1>6. QED
  BY <1>4, <1>5

\* port_capable touches only the measurements of the rate and its verdict.
LEMMA PpCapableFacts ==
  ASSUME NEW p \in PpPorts
  PROVE  PpCapable(p) \in PpPorts /\ PpSame(p, PpCapable(p))
<1> DEFINE a == IF p.cap THEN PpNrateInitialize(p) ELSE p
<1>1. a \in PpPorts /\ PpSame(p, a)
  BY PpNrateInitFacts DEF PpSame
<1>2. [a EXCEPT !.cap = FALSE] \in PpPorts /\ PpSame(a, [a EXCEPT !.cap = FALSE])
  <2> HIDE DEF a
  <2> QED BY <1>1 DEF PpPorts, PpSame
<1>3. [p EXCEPT !.cap = TRUE] \in PpPorts /\ PpSame(p, [p EXCEPT !.cap = TRUE])
  BY DEF PpPorts, PpSame
<1>4. PpCapable(p) \in {[p EXCEPT !.cap = TRUE], [a EXCEPT !.cap = FALSE]}
  BY DEF PpCapable
<1> HIDE DEF a
<1>5. QED
  BY <1>1, <1>2, <1>3, <1>4 DEF PpSame

LEMMA PpNrateFacts ==
  ASSUME NEW p \in PpPorts
  PROVE  PpNrate(p) \in PpPorts /\ PpSame(p, PpNrate(p))
<1> DEFINE a == [p EXCEPT !.missing = 0]
           c == p.count + 1
<1>1. a \in PpPorts /\ PpSame(p, a) /\ a.count = p.count
  BY DEF PpPorts, PpSame
<1>2. c \in Nat
  BY DEF PpPorts
<1>3. PpNrate(p) \in {[a EXCEPT !.first = TRUE], [a EXCEPT !.count = c],
                     [a EXCEPT !.count = 0, !.valid = TRUE]}
  BY <1>1 DEF PpNrate, PpPorts
<1> HIDE DEF a, c
<1>4. CASE PpNrate(p) = [a EXCEPT !.first = TRUE]
  BY <1>1, <1>4 DEF PpPorts, PpSame
<1>5. CASE PpNrate(p) = [a EXCEPT !.count = c]
  BY <1>1, <1>2, <1>5 DEF PpPorts, PpSame
<1>6. CASE PpNrate(p) = [a EXCEPT !.count = 0, !.valid = TRUE]
  <2> DEFINE b == [a EXCEPT !.count = 0]
  <2>1. b \in PpPorts /\ PpSame(a, b)
    BY <1>1 DEF PpPorts, PpSame
  <2>2. PpNrate(p) = [b EXCEPT !.valid = TRUE]
    BY <1>6
  <2> HIDE DEF b
  <2>3. PpNrate(p) \in PpPorts /\ PpSame(b, PpNrate(p))
    BY <2>1, <2>2 DEF PpPorts, PpSame
  <2>4. QED
    BY <1>1, <2>1, <2>3 DEF PpSame
<1>7. QED
  BY <1>3, <1>4, <1>5, <1>6

LEMMA PpPeerSeenFacts ==
  ASSUME NEW p \in PpPorts, NEW src \in PpResponders
  PROVE  PpPeerSeen(p, src) \in PpPorts /\ PpSame(p, PpPeerSeen(p, src))
<1>1. [p EXCEPT !.peer = src] \in PpPorts /\ PpSame(p, [p EXCEPT !.peer = src])
  BY DEF PpPorts, PpSame, PpPeers
<1> DEFINE a == [p EXCEPT !.peer = "none"]
<1>2. a \in PpPorts /\ PpSame(p, a)
  BY DEF PpPorts, PpSame, PpPeers
<1>3. PpCapable(a) \in PpPorts /\ PpSame(a, PpCapable(a))
  BY <1>2, PpCapableFacts
<1>4. PpPeerSeen(p, src) \in {[p EXCEPT !.peer = src], PpCapable(a), p}
  BY DEF PpPeerSeen
<1> HIDE DEF a
<1>5. QED
  BY <1>1, <1>2, <1>3, <1>4 DEF PpSame

LEMMA PpSeveralFacts ==
  ASSUME NEW p \in PpPorts, NEW m
  PROVE  PpSeveral(p, m) \in PpPorts /\ PpSame(p, PpSeveral(p, m))
<1> DEFINE c == p.several + 1
<1>1. c \in Nat
  BY DEF PpPorts
<1>2. PpSeveral(p, m) \in {p, [p EXCEPT !.multiple = TRUE, !.several = c]}
  BY DEF PpSeveral, PpPorts
<1> HIDE DEF c
<1>3. QED
  BY <1>1, <1>2 DEF PpPorts, PpSame

LEMMA PpFlushFacts ==
  ASSUME NEW p \in PpPorts
  PROVE  /\ PpFlush(p) \in PpPorts /\ PpFlush(p).delay = p.delay
         /\ PpFlush(p).req = PpNil
  BY DEF PpFlush, PpPorts, PpReqs, PpResps, PpFups

----------------------------------------------------------------------------
(* One exchange, one setting of the clock.                                  *)

\* Unless the clock was stepped for another port, a request that waits and a response to it carry
\* stamps of the clock as it is set now.  This is what makes PpDelaySound inductive: a delay is
\* computed when the second of the two messages arrives, whichever that is.
PpOneEpoch(p) ==
  p.req # PpNil => /\ p.req[1].epoch = ppEpoch
                   /\ p.resp # PpNil => p.resp[1].epoch = ppEpoch
PpFresh == ~ppForeign => PpOneEpoch(ppPort) /\ ppPort.delay # "wrong"
PpCounter == ppSeq = ppLast + 1 /\ ~ppSkipped
PpInv == PpTypeOK /\ PpFresh /\ PpCounter

\* port_peer_delay gives no wrong delay when the stamps are of one setting of the clock.
LEMMA PpPeerDelayFacts ==
  ASSUME NEW p \in PpPorts
  PROVE  /\ PpPeerDelay(p) \in PpPorts
         /\ PpOneEpoch(p) => PpOneEpoch(PpPeerDelay(p))
         /\ PpOneEpoch(p) /\ p.delay # "wrong" => PpPeerDelay(p).delay # "wrong"
<1>1. CASE ~PpPair(p)
  BY <1>1 DEF PpPeerDelay
<1>2. CASE PpPair(p)
  <2> DEFINE a == IF ppKind = "plain" THEN p ELSE PpNrate(p)
             d == PpMeasured(p)
  <2>1. a \in PpPorts
    BY PpNrateFacts
  <2>2. d \in {"near", "far", "wrong"}
    BY DEF PpMeasured
  <2>3. PpPeerDelay(p) = [a EXCEPT !.delay = d, !.req = PpNil]
    BY <1>2 DEF PpPeerDelay
  <2>4. PpOneEpoch(p) => d # "wrong"
    BY <1>2 DEF PpOneEpoch, PpMeasured, PpPair
  <2> HIDE DEF a, d
  <2>5. /\ PpPeerDelay(p) \in PpPorts /\ PpPeerDelay(p).delay = d
        /\ PpPeerDelay(p).req = PpNil
    BY <2>1, <2>2, <2>3 DEF PpPorts, PpReqs
  <2>6. QED
    BY <2>4, <2>5 DEF PpOneEpoch
<1>3. QED
  BY <1>1, <1>2

LEMMA PpCountedFacts ==
  ASSUME NEW p \in PpPorts
  PROVE  PpCounted(p) \in PpPorts /\ PpSame(p, PpCounted(p))
<1> DEFINE q == PpCapable(p)
           c == q.missing + 1
<1>1. q \in PpPorts /\ PpSame(p, q)
  BY PpCapableFacts
<1>2. PpCounted(p) \in {p, q, [q EXCEPT !.missing = c]}
  BY DEF PpCounted
<1> HIDE DEF q
<1>3. c \in Nat
  BY <1>1 DEF PpPorts
<1> HIDE DEF c
<1>4. [q EXCEPT !.missing = c] \in PpPorts /\ PpSame(q, [q EXCEPT !.missing = c])
  BY <1>1, <1>3 DEF PpPorts, PpSame
<1>5. QED
  BY <1>1, <1>2, <1>4 DEF PpSame

LEMMA PpInitializeFacts ==
  ASSUME NEW p \in PpPorts
  PROVE  PpInitialize(p) \in PpPorts /\ PpSame(p, PpInitialize(p))
<1> DEFINE a == [p EXCEPT !.several = 0]
           b == [a EXCEPT !.multiple = FALSE]
           c == [b EXCEPT !.cap = (ppKind = "always")]
<1>1. a \in PpPorts /\ PpSame(p, a)
  BY DEF PpPorts, PpSame
<1>2. b \in PpPorts /\ PpSame(a, b)
  <2> HIDE DEF a
  <2> QED BY <1>1 DEF PpPorts, PpSame
<1>3. c \in PpPorts /\ PpSame(b, c)
  <2> HIDE DEF b
  <2> QED BY <1>2 DEF PpPorts, PpSame
<1>4. PpInitialize(p) = PpNrateInitialize(c)
  BY DEF PpInitialize
<1> HIDE DEF a, b, c
<1>5. QED
  BY <1>1, <1>2, <1>3, <1>4, PpNrateInitFacts DEF PpSame

----------------------------------------------------------------------------
(* Every action keeps the invariant.                                        *)

LEMMA PpRequestStep ==
  ASSUME PpInv, NEW sent \in BOOLEAN, PpRequest(sent)
  PROVE  PpInv'
<1> DEFINE a == PpForget(ppPort)
           b == [a EXCEPT !.several = IF a.multiple THEN @ ELSE 0, !.multiple = FALSE]
           r == [seq |-> ppN, epoch |-> ppEpoch]
           e == <<r>>
<1>1. ppPort \in PpPorts /\ ppN \in Nat /\ ppEpoch \in Nat /\ ppUp \in BOOLEAN
  BY DEF PpInv, PpTypeOK
<1>2. a \in PpPorts /\ a.delay = ppPort.delay /\ a.resp = PpNil
  BY <1>1 DEF PpForget, PpPorts, PpResps, PpFups
<1>3. b \in PpPorts /\ PpSame(a, b)
  <2> DEFINE n == IF a.multiple THEN a.several ELSE 0
             c == [a EXCEPT !.several = n]
  <2> HIDE DEF a
  <2>1. n \in Nat
    BY <1>2 DEF PpPorts
  <2>2. b = [c EXCEPT !.multiple = FALSE]
    BY <1>2 DEF PpPorts
  <2> HIDE DEF n, b
  <2>3. c \in PpPorts /\ PpSame(a, c)
    BY <1>2, <2>1 DEF PpPorts, PpSame
  <2> HIDE DEF c
  <2>4. QED
    BY <2>2, <2>3 DEF PpPorts, PpSame
<1>4. e \in PpReqs /\ e # PpNil /\ e[1].epoch = ppEpoch
  BY <1>1 DEF PpReqs, PpNil
<1>5. /\ ppN' = ppN + 1
      /\ UNCHANGED <<ppKind, ppMech, ppEpoch, ppForeign, ppSent, ppSeq, ppLast, ppSkipped>>
      /\ \/ ppPort' = [PpCounted(b) EXCEPT !.req = e] /\ ppUp' = ppUp
         \/ ppPort' = PpFlush(b) /\ ppUp' = FALSE
  BY DEF PpRequest, ppEnvVars, ppSyncVars
<1> HIDE DEF a, b, e
<1>6. CASE ppPort' = [PpCounted(b) EXCEPT !.req = e] /\ ppUp' = ppUp
  <2> DEFINE c == PpCounted(b)
  <2>1. c \in PpPorts /\ PpSame(b, c)
    BY <1>3, PpCountedFacts
  <2>2. ppPort' = [c EXCEPT !.req = e]
    BY <1>6
  <2> HIDE DEF c
  <2>3. /\ ppPort' \in PpPorts /\ ppPort'.req = e
        /\ ppPort'.resp = c.resp /\ ppPort'.delay = c.delay
    BY <2>1, <2>2, <1>4 DEF PpPorts
  <2>4. ppPort'.resp = PpNil /\ ppPort'.delay = ppPort.delay
    BY <2>1, <2>3, <1>2, <1>3 DEF PpSame
  <2>5. PpTypeOK' /\ PpCounter'
    BY <1>1, <1>5, <1>6, <2>3 DEF PpInv, PpTypeOK, PpCounter
  <2>6. PpFresh'
    BY <1>4, <1>5, <2>3, <2>4 DEF PpInv, PpFresh, PpOneEpoch
  <2>7. QED
    BY <2>5, <2>6 DEF PpInv
<1>7. CASE ppPort' = PpFlush(b) /\ ppUp' = FALSE
  <2>1. ppPort' \in PpPorts /\ ppPort'.req = PpNil /\ ppPort'.delay = ppPort.delay
    BY <1>2, <1>3, <1>7, PpFlushFacts DEF PpSame
  <2>2. PpTypeOK' /\ PpCounter'
    <3>1. ppUp' \in BOOLEAN
      BY <1>7
    <3>2. QED
      BY <1>1, <1>5, <2>1, <3>1 DEF PpInv, PpTypeOK, PpCounter
  <2>3. PpFresh'
    BY <1>5, <2>1 DEF PpInv, PpFresh, PpOneEpoch
  <2>4. QED
    BY <2>2, <2>3 DEF PpInv
<1>8. QED
  BY <1>5, <1>6, <1>7

LEMMA PpAnswerStep ==
  ASSUME PpInv, NEW r \in PpResponders, NEW one \in BOOLEAN, PpAnswer(r, one)
  PROVE  PpInv'
<1>1. ppPort.req[1].seq \in Nat
  BY DEF PpInv, PpTypeOK, PpPorts, PpReqs, PpAnswer, PpNil
<1>2. ppSent' \subseteq PpMessages
  <2> DEFINE n == ppPort.req[1].seq
             x == [k |-> "resp", seq |-> n, to |-> "me", src |-> r, one |-> one]
             y == [k |-> "fup", seq |-> n, to |-> "me", src |-> r, one |-> one]
  <2>1. x \in PpMessages /\ y \in PpMessages
    BY <1>1 DEF PpMessages
  <2>2. ppSent' \subseteq ppSent \cup {x, y}
    BY DEF PpAnswer
  <2> HIDE DEF x, y
  <2>3. QED
    BY <2>1, <2>2 DEF PpInv, PpTypeOK
<1>3. UNCHANGED <<ppMech, ppUp, ppPort, ppN, ppKind, ppEpoch, ppForeign, ppSeq, ppLast, ppSkipped>>
  BY DEF PpAnswer, ppEnvVars, ppSyncVars
<1>4. QED
  BY <1>2, <1>3 DEF PpInv, PpTypeOK, PpFresh, PpOneEpoch, PpCounter

\* A step that changes the port, and not what the invariant compares it with.
LEMMA PpPortStep ==
  ASSUME PpInv, NEW q \in PpPorts, ppPort' = q, ppUp' \in BOOLEAN, ppN' = ppN,
         ppMech' \in PpMechanisms \cup {"P2P"},
         UNCHANGED <<ppSent, ppKind, ppEpoch, ppForeign, ppSeq, ppLast, ppSkipped>>,
         ~ppForeign => PpOneEpoch(q) /\ q.delay # "wrong"
  PROVE  PpInv'
<1>1. PpTypeOK' /\ PpCounter'
  BY DEF PpInv, PpTypeOK, PpCounter
<1>2. PpFresh'
  BY DEF PpFresh, PpOneEpoch
<1>3. QED
  BY <1>1, <1>2 DEF PpInv

\* PpSame carries the fact about the epochs over.
LEMMA PpSameEpoch ==
  ASSUME NEW p, NEW q, PpSame(p, q), PpOneEpoch(p)
  PROVE  PpOneEpoch(q)
  BY DEF PpSame, PpOneEpoch

LEMMA PpAskedStep ==
  ASSUME PpInv, NEW src \in PpResponders, PpAsked(src)
  PROVE  PpInv'
<1> DEFINE q == PpPeerSeen(PpReceives, src)
<1>1. PpReceives \in PpPorts /\ PpSame(ppPort, PpReceives)
  BY PpCapableFacts DEF PpReceives, PpInv, PpTypeOK
<1>2. q \in PpPorts /\ PpSame(PpReceives, q)
  BY <1>1, PpPeerSeenFacts
<1>3. /\ ppPort' = q /\ ppUp' = ppUp /\ ppN' = ppN
      /\ ppMech' = "P2P"
      /\ UNCHANGED <<ppSent, ppKind, ppEpoch, ppForeign, ppSeq, ppLast, ppSkipped>>
  BY DEF PpAsked, ppEnvVars, ppSyncVars
<1> HIDE DEF q
<1>4. ~ppForeign => PpOneEpoch(q) /\ q.delay # "wrong"
  BY <1>1, <1>2, PpSameEpoch DEF PpInv, PpFresh, PpSame
<1>5. ppUp' \in BOOLEAN /\ ppMech' \in PpMechanisms \cup {"P2P"}
  BY <1>3 DEF PpInv, PpTypeOK
<1>6. QED
  BY <1>2, <1>3, <1>4, <1>5, PpPortStep

LEMMA PpRespStep ==
  ASSUME PpInv, NEW m \in ppSent, PpResp(m)
  PROVE  PpInv'
<1> DEFINE a == PpSeveral(PpReceives, m)
           s == PpPeerSeen(a, m.src)
           r == [seq |-> m.seq, to |-> m.to, src |-> m.src, one |-> m.one, epoch |-> ppEpoch]
           e == <<r>>
           c == [s EXCEPT !.resp = e]
           b == PpPeerDelay(c)
<1>1. PpReceives \in PpPorts /\ PpSame(ppPort, PpReceives)
  BY PpCapableFacts DEF PpReceives, PpInv, PpTypeOK
<1>2. a \in PpPorts /\ PpSame(PpReceives, a)
  BY <1>1, PpSeveralFacts
<1>3. m \in PpMessages /\ m.src \in PpResponders
  BY DEF PpInv, PpTypeOK, PpMessages
<1>4. s \in PpPorts /\ PpSame(a, s)
  <2> HIDE DEF a
  <2> QED BY <1>2, <1>3, PpPeerSeenFacts
<1>5. e \in PpResps /\ e[1].epoch = ppEpoch
  <2>1. ppEpoch \in Nat
    BY DEF PpInv, PpTypeOK
  <2>2. QED
    BY <1>3, <2>1 DEF PpMessages, PpResps
<1>6. c \in PpPorts /\ c.req = s.req /\ c.resp = e /\ c.delay = s.delay
  <2> HIDE DEF s, e
  <2> QED BY <1>4, <1>5 DEF PpPorts
<1>7. /\ \/ ppPort' = PpFlush(a) /\ ppUp' = FALSE
         \/ ppPort' = b /\ ppUp' = ppUp
      /\ ppN' = ppN /\ UNCHANGED <<ppSent, ppKind, ppMech, ppEpoch, ppForeign, ppSeq, ppLast, ppSkipped>>
  BY DEF PpResp, ppEnvVars, ppSyncVars
<1>8. ppUp' \in BOOLEAN /\ ppMech' \in PpMechanisms \cup {"P2P"}
  BY <1>7 DEF PpInv, PpTypeOK
<1> HIDE DEF a, s, r, e, c, b
<1>9. ~ppForeign => PpOneEpoch(s) /\ s.delay # "wrong" /\ a.delay # "wrong"
  BY <1>1, <1>2, <1>4 DEF PpInv, PpFresh, PpSame, PpOneEpoch
<1>10. ~ppForeign => PpOneEpoch(c) /\ c.delay # "wrong"
  BY <1>5, <1>6, <1>9 DEF PpOneEpoch
<1>11. CASE ppPort' = PpFlush(a)
  <2> DEFINE f == PpFlush(a)
  <2>1. f \in PpPorts /\ f.req = PpNil /\ f.delay = a.delay
    BY <1>2, PpFlushFacts
  <2>2. ppPort' = f
    BY <1>11
  <2> HIDE DEF f
  <2>3. ~ppForeign => PpOneEpoch(f) /\ f.delay # "wrong"
    BY <1>9, <2>1 DEF PpOneEpoch
  <2>4. QED
    BY <1>7, <1>8, <2>1, <2>2, <2>3, PpPortStep
<1>12. CASE ppPort' = b
  <2>1. b \in PpPorts /\ (~ppForeign => PpOneEpoch(b) /\ b.delay # "wrong")
    BY <1>6, <1>10, PpPeerDelayFacts DEF b
  <2>2. QED
    BY <1>7, <1>8, <1>12, <2>1, PpPortStep
<1>13. QED
  BY <1>7, <1>11, <1>12

LEMMA PpRespFupStep ==
  ASSUME PpInv, NEW m \in ppSent, PpRespFup(m)
  PROVE  PpInv'
<1> DEFINE a == PpReceives
           e == <<[seq |-> m.seq, to |-> m.to, src |-> m.src]>>
           c == [a EXCEPT !.fup = e]
           q == IF a.req = PpNil THEN a ELSE PpPeerDelay(c)
<1>1. a \in PpPorts /\ PpSame(ppPort, a)
  BY PpCapableFacts DEF PpReceives, PpInv, PpTypeOK
<1>2. e \in PpFups
  <2>1. m \in PpMessages
    BY DEF PpInv, PpTypeOK
  <2>2. QED
    BY <2>1 DEF PpMessages, PpFups
<1>3. c \in PpPorts /\ c.req = a.req /\ c.resp = a.resp /\ c.delay = a.delay
  <2> HIDE DEF a, e
  <2> QED BY <1>1, <1>2 DEF PpPorts
<1>4. /\ ppPort' = q /\ ppUp' = ppUp /\ ppN' = ppN
      /\ UNCHANGED <<ppSent, ppKind, ppMech, ppEpoch, ppForeign, ppSeq, ppLast, ppSkipped>>
  BY DEF PpRespFup, ppEnvVars, ppSyncVars
<1>5. ppUp' \in BOOLEAN /\ ppMech' \in PpMechanisms \cup {"P2P"}
  BY <1>4 DEF PpInv, PpTypeOK
<1> HIDE DEF a, e, c
<1>6. ~ppForeign => PpOneEpoch(a) /\ a.delay # "wrong" /\ PpOneEpoch(c) /\ c.delay # "wrong"
  BY <1>1, <1>3 DEF PpInv, PpFresh, PpSame, PpOneEpoch
<1>7. q \in PpPorts /\ (~ppForeign => PpOneEpoch(q) /\ q.delay # "wrong")
  BY <1>1, <1>3, <1>6, PpPeerDelayFacts
<1> HIDE DEF q
<1>8. QED
  BY <1>4, <1>5, <1>7, PpPortStep

\* The step that is the reason for ppForeign: the request of another port than the one that is
\* synchronized keeps its stamp.
LEMMA PpJumpStep ==
  ASSUME PpInv, NEW mine \in BOOLEAN, PpJump(mine)
  PROVE  PpInv'
<1>1. /\ ppEpoch' = ppEpoch + 1 /\ ppForeign' = (ppForeign \/ (~mine /\ ppPort.req # PpNil))
      /\ ppPort' = (IF mine THEN [ppPort EXCEPT !.req = PpNil] ELSE ppPort)
      /\ UNCHANGED <<ppKind, ppMech, ppUp, ppN, ppSent, ppSeq, ppLast, ppSkipped>>
  BY DEF PpJump, ppSyncVars
<1>2. ppPort \in PpPorts /\ ppEpoch \in Nat /\ ppForeign \in BOOLEAN
  BY DEF PpInv, PpTypeOK
<1>3. /\ ppPort' \in PpPorts /\ ppPort'.delay = ppPort.delay
      /\ mine => ppPort'.req = PpNil
      /\ ~mine => ppPort'.req = ppPort.req
  BY <1>1, <1>2 DEF PpPorts, PpReqs
<1>4. ppForeign' \in BOOLEAN
  BY <1>1, <1>2
<1>5. PpTypeOK' /\ PpCounter'
  BY <1>1, <1>2, <1>3, <1>4 DEF PpInv, PpTypeOK, PpCounter
<1>6. ASSUME ~ppForeign' PROVE ~ppForeign /\ ppPort'.req = PpNil
  BY <1>1, <1>3, <1>6
<1>7. PpFresh'
  BY <1>3, <1>6 DEF PpInv, PpFresh, PpOneEpoch
<1>8. QED
  BY <1>5, <1>7 DEF PpInv

LEMMA PpRestartStep ==
  ASSUME PpInv, PpRestart
  PROVE  PpInv'
<1> DEFINE q == PpInitialize(ppPort)
<1>1. q \in PpPorts /\ PpSame(ppPort, q)
  BY PpInitializeFacts DEF PpInv, PpTypeOK
<1>2. /\ ppPort' = q /\ ppUp' = TRUE /\ ppN' = ppN
      /\ UNCHANGED <<ppSent, ppKind, ppMech, ppEpoch, ppForeign, ppSeq, ppLast, ppSkipped>>
  BY DEF PpRestart, ppEnvVars, ppSyncVars
<1> HIDE DEF q
<1>3. ~ppForeign => PpOneEpoch(q) /\ q.delay # "wrong"
  BY <1>1, PpSameEpoch DEF PpInv, PpFresh, PpSame
<1>4. ppUp' \in BOOLEAN /\ ppMech' \in PpMechanisms \cup {"P2P"}
  BY <1>2 DEF PpInv, PpTypeOK
<1>5. QED
  BY <1>1, <1>2, <1>3, <1>4, PpPortStep

\* Sending may be a fault, which drops the exchange.
LEMMA PpSentFacts ==
  ASSUME PpInv, NEW p, p = PpCapable(ppPort), NEW c \in BOOLEAN
  PROVE  LET q == IF c THEN p ELSE PpFlush(p) IN
         q \in PpPorts /\ (~ppForeign => PpOneEpoch(q) /\ q.delay # "wrong")
<1>1. p \in PpPorts /\ PpSame(ppPort, p)
  BY PpCapableFacts DEF PpInv, PpTypeOK
<1> DEFINE f == PpFlush(p)
<1>2. f \in PpPorts /\ f.req = PpNil /\ f.delay = p.delay
  BY <1>1, PpFlushFacts
<1> HIDE DEF f
<1>3. ~ppForeign => /\ PpOneEpoch(p) /\ p.delay # "wrong"
                    /\ PpOneEpoch(f) /\ f.delay # "wrong"
  BY <1>1, <1>2, PpSameEpoch DEF PpInv, PpFresh, PpSame, PpOneEpoch
<1>4. QED
  BY <1>1, <1>2, <1>3 DEF f

LEMMA PpTxAnnounceStep ==
  ASSUME PpInv, NEW sent \in BOOLEAN, PpTxAnnounce(sent)
  PROVE  PpInv'
<1> DEFINE p == PpCapable(ppPort)
           c == sent \/ ~p.cap
           q == IF c THEN p ELSE PpFlush(p)
<1>1. c \in BOOLEAN
  OBVIOUS
<1>2. q \in PpPorts /\ (~ppForeign => PpOneEpoch(q) /\ q.delay # "wrong")
  <2> HIDE DEF c
  <2> QED BY <1>1, PpSentFacts
<1>3. /\ ppPort' = q /\ ppUp' \in BOOLEAN /\ ppN' = ppN
      /\ UNCHANGED <<ppSent, ppKind, ppMech, ppEpoch, ppForeign, ppSeq, ppLast, ppSkipped>>
  BY DEF PpTxAnnounce, ppEnvVars, ppSyncVars
<1>4. ppMech' \in PpMechanisms \cup {"P2P"}
  BY <1>3 DEF PpInv, PpTypeOK
<1> HIDE DEF q
<1>5. QED
  BY <1>2, <1>3, <1>4, PpPortStep

LEMMA PpTxSyncStep ==
  ASSUME PpInv, NEW own \in BOOLEAN, NEW sent \in BOOLEAN, PpTxSync(own, sent)
  PROVE  PpInv'
<1> DEFINE p == PpCapable(ppPort)
           c == sent \/ ~p.cap
           q == IF c THEN p ELSE PpFlush(p)
<1>1. c \in BOOLEAN
  OBVIOUS
<1>2. q \in PpPorts /\ (~ppForeign => PpOneEpoch(q) /\ q.delay # "wrong")
  <2> HIDE DEF c
  <2> QED BY <1>1, PpSentFacts
<1>3. /\ ppPort' = q /\ ppN' = ppN
      /\ UNCHANGED <<ppSent, ppKind, ppMech, ppEpoch, ppForeign>>
      /\ \/ /\ ppSkipped' = (ppSkipped \/ ppSeq # ppLast + 1)
            /\ ppLast' = ppSeq /\ ppSeq' = ppSeq + 1 /\ ppUp' = sent
         \/ UNCHANGED <<ppSeq, ppLast, ppSkipped, ppUp>>
  BY DEF PpTxSync, ppEnvVars, ppSyncVars
<1> HIDE DEF q
<1>4. PpFresh'
  BY <1>2, <1>3 DEF PpFresh, PpOneEpoch
<1>5. ppUp' \in BOOLEAN /\ ppSkipped' = FALSE
  BY <1>3 DEF PpInv, PpTypeOK, PpCounter
<1>6. PpCounter' /\ ppSeq' \in Nat /\ ppLast' \in Int
  BY <1>3, <1>5 DEF PpInv, PpTypeOK, PpCounter
<1>7. PpTypeOK'
  BY <1>2, <1>3, <1>5, <1>6 DEF PpInv, PpTypeOK
<1>8. QED
  BY <1>4, <1>6, <1>7 DEF PpInv

LEMMA PpMonitorStep ==
  ASSUME PpInv, PpMonitor(0)
  PROVE  PpInv'
<1> DEFINE q == PpCapable(PpReceives)
<1>1. PpReceives \in PpPorts /\ PpSame(ppPort, PpReceives)
  BY PpCapableFacts DEF PpReceives, PpInv, PpTypeOK
<1>2. q \in PpPorts /\ PpSame(PpReceives, q)
  BY <1>1, PpCapableFacts
<1>3. /\ ppPort' = q /\ ppUp' = ppUp /\ ppN' = ppN
      /\ UNCHANGED <<ppSent, ppKind, ppMech, ppEpoch, ppForeign, ppSeq, ppLast, ppSkipped>>
  BY DEF PpMonitor, PpRestored, ppEnvVars
<1> HIDE DEF q
<1>4. ~ppForeign => PpOneEpoch(q) /\ q.delay # "wrong"
  BY <1>1, <1>2, PpSameEpoch DEF PpInv, PpFresh, PpSame
<1>5. ppUp' \in BOOLEAN /\ ppMech' \in PpMechanisms \cup {"P2P"}
  BY <1>3 DEF PpInv, PpTypeOK
<1>6. QED
  BY <1>2, <1>3, <1>4, <1>5, PpPortStep

LEMMA PpInitInv == PpInit => PpInv
<1> SUFFICES ASSUME PpInit PROVE PpInv
  OBVIOUS
<1> DEFINE n == PpAllowed + 1
<1>1. n \in Nat /\ "none" \in PpPeers /\ PpNil \in PpReqs /\ PpNil \in PpResps /\ PpNil \in PpFups
  BY PpAssumption DEF PpPeers, PpReqs, PpResps, PpFups
<1>2. ppPort = [req |-> PpNil, resp |-> PpNil, fup |-> PpNil, delay |-> "near", missing |-> n,
               several |-> 0, multiple |-> FALSE, peer |-> "none", first |-> FALSE, count |-> 0, valid |-> FALSE,
               cap |-> (ppKind = "always")]
  BY DEF PpInit
<1> HIDE DEF n
<1>3. ppPort \in PpPorts /\ ppPort.req = PpNil /\ ppPort.delay = "near"
  BY <1>1, <1>2 DEF PpPorts
<1>4. PpOthers \subseteq PpMessages
  <2>1. ASSUME NEW r \in PpOneStep
        PROVE  [k |-> "resp", seq |-> 1, to |-> "other", src |-> r, one |-> TRUE] \in PpMessages
    BY PpAssumption, <2>1 DEF PpMessages
  <2>2. QED
    BY <2>1, Zenon DEF PpOthers
<1>5. PpTypeOK
  <2>1. ppUp \in BOOLEAN /\ ppForeign \in BOOLEAN /\ ppSkipped \in BOOLEAN
    BY DEF PpInit
  <2>2. ppKind \in PpKinds /\ ppMech \in PpMechanisms \cup {"P2P"} /\ ppSent \subseteq PpMessages
    BY <1>4 DEF PpInit
  <2>3. ppN \in Nat /\ ppEpoch \in Nat /\ ppSeq \in Nat /\ ppLast \in Int
    BY DEF PpInit
  <2>4. QED
    BY <1>3, <2>1, <2>2, <2>3 DEF PpTypeOK
<1>6. PpFresh /\ PpCounter
  BY <1>3 DEF PpInit, PpFresh, PpOneEpoch, PpCounter
<1>7. QED
  BY <1>5, <1>6 DEF PpInv

LEMMA PpNextInv == PpInv /\ [PpNext]_ppVars => PpInv'
<1> SUFFICES ASSUME PpInv, [PpNext]_ppVars PROVE PpInv'
  OBVIOUS
<1>1. CASE UNCHANGED ppVars
  BY <1>1 DEF ppVars, PpInv, PpTypeOK, PpFresh, PpOneEpoch, PpCounter
<1>2. CASE PpNext
  BY <1>2, PpRequestStep, PpAnswerStep, PpAskedStep, PpRespStep, PpRespFupStep, PpJumpStep,
     PpRestartStep, PpTxSyncStep, PpMonitorStep, PpTxAnnounceStep, Zenon DEF PpNext
<1>3. QED
  BY <1>1, <1>2

\* The fields of struct port, the requests and the answers keep their types through every order of
\* requests, answers, faults, steps of the clock and messages of the master side (port.c).
THEOREM PpTypes == PpSpec => []PpTypeOK
<1>1. PpInv => PpTypeOK
  BY DEF PpInv
<1>2. QED
  BY <1>1, PpInitInv, PpNextInv, PTL DEF PpSpec

\* No peer delay is computed from the stamps of two exchanges, two responders or two settings of the
\* clock, unless the clock was stepped for another port while a request waited (port_peer_delay,
\* port_synchronize), and multicast Sync messages are numbered without a gap although a monitor's
\* request borrows their counter (process_delay_req).
THEOREM PpAlwaysSound == PpSpec => []PpSound
<1>1. PpInv => PpSound
  BY DEF PpInv, PpFresh, PpCounter, PpSound, PpDelaySound, PpNumbered
<1>2. QED
  BY <1>1, PpInitInv, PpNextInv, PTL DEF PpSpec

----------------------------------------------------------------------------
(* Buffers of the transmit side.                                            *)

\* A set of naturals that is not empty has a least element.
LEMMA LeastElement ==
  ASSUME NEW S, S \subseteq Nat, S # {}
  PROVE  \E i \in S : \A j \in S : i <= j
<1>1. \E i \in S : \A j \in S : ~(<<j, i>> \in OpToRel(<, Nat))
  BY WFMin, NatLessThanWellFounded
<1>2. \A j, i \in Nat : j < i => <<j, i>> \in OpToRel(<, Nat)
  BY Zenon DEF OpToRel
<1>3. PICK less : /\ \A j, i \in Nat : j < i => <<j, i>> \in less
                  /\ \E i \in S : \A j \in S : ~(<<j, i>> \in less)
  BY <1>1, <1>2, Zenon
<1>4. PICK m \in S : \A j \in S : ~(<<j, m>> \in less)
  BY <1>3
<1>5. \A j \in S : ~(j < m)
  BY <1>3, <1>4, Zenon
<1>6. QED
  BY <1>5

\* The last of the buffers that wait is one of them, and none lies behind it.
LEMMA PxLastWaiting ==
  ASSUME NEW S, S \subseteq PxB, S # {}
  PROVE  Max(S) \in S /\ \A j \in S : j <= Max(S)
<1>1. S \subseteq Nat
  BY PtpDrvAssumption DEF PxB
<1> DEFINE D == {PxBuffers - i : i \in S}
<1>2. PICK d \in D : \A e \in D : d <= e
  <2>1. \A i \in S : PxBuffers - i \in Nat
    BY PtpDrvAssumption DEF PxB
  <2>2. D \subseteq Nat /\ D # {}
    BY <2>1
  <2> HIDE DEF D
  <2>3. QED
    BY <2>2, LeastElement
<1>3. PICK m \in S : d = PxBuffers - m
  BY <1>2
<1>4. \A j \in S : m >= j
  <2> SUFFICES ASSUME NEW j \in S PROVE m >= j
    OBVIOUS
  <2>1. PxBuffers - m <= PxBuffers - j
    BY <1>2, <1>3
  <2>2. QED
    BY <1>1, <2>1, PtpDrvAssumption
<1>5. Max(S) \in S /\ \A j \in S : Max(S) >= j
  BY <1>3, <1>4, Zenon DEF Max
<1>6. QED
  BY <1>1, <1>5

\* The buffer that axienet_ptp_xmit takes is a buffer and does not wait.
LEMMA PxFreeFacts ==
  ASSUME pxWaiting \subseteq PxB, PxBuffers - 1 \notin pxWaiting
  PROVE  PxFree \in PxB /\ PxFree \notin pxWaiting
<1>1. CASE pxWaiting = {}
  BY <1>1, PtpDrvAssumption DEF PxFree, PxB
<1>2. CASE pxWaiting # {}
  <2> DEFINE m == Max(pxWaiting)
  <2>1. m \in pxWaiting /\ \A j \in pxWaiting : j <= m
    BY <1>2, PxLastWaiting
  <2>2. PxFree = m + 1
    BY <1>2 DEF PxFree
  <2> HIDE DEF m
  <2>3. m \in PxB /\ m # PxBuffers - 1
    BY <2>1
  <2>4. m + 1 \in PxB /\ ~(m + 1 <= m)
    BY <2>3, PtpDrvAssumption DEF PxB
  <2>5. QED
    BY <2>1, <2>2, <2>4
<1>3. QED
  BY <1>1, <1>2

PxTypes == pxNext \in Nat \ {0} /\ pxBuf \in [PxB -> Nat] /\ pxWaiting \subseteq PxB
PxInv == PxTypes /\ PxKept

LEMMA PxXmitStep ==
  ASSUME PxInv, NEW sync \in BOOLEAN, PxXmit(sync)
  PROVE  PxInv'
<1> DEFINE b == PxFree
<1>1. b \in PxB /\ b \notin pxWaiting
  BY PxFreeFacts DEF PxInv, PxTypes, PxXmit
<1>2. /\ pxNext' = pxNext + 1 /\ pxBuf' = [pxBuf EXCEPT ![b] = pxNext]
      /\ pxWaiting' = pxWaiting \cup {b} /\ pxSent' = pxSent
  BY DEF PxXmit
<1> HIDE DEF b
<1>3. PxTypes'
  BY <1>1, <1>2 DEF PxInv, PxTypes
<1>4. PxKept'
  <2> SUFFICES ASSUME NEW f \in 1..(pxNext' - 1)
               PROVE  f \in pxSent' \/ \E c \in pxWaiting' : pxBuf'[c] = f
    BY DEF PxKept
  <2>1. CASE f = pxNext
    <3>1. b \in pxWaiting' /\ pxBuf'[b] = f
      BY <1>1, <1>2, <2>1 DEF PxInv, PxTypes
    <3>2. QED
      BY <3>1
  <2>2. CASE f \in 1..(pxNext - 1)
    <3>1. f \in pxSent \/ \E c \in pxWaiting : pxBuf[c] = f
      BY <2>2 DEF PxInv, PxKept
    <3>2. ASSUME NEW c \in pxWaiting, pxBuf[c] = f PROVE c \in pxWaiting' /\ pxBuf'[c] = f
      BY <1>1, <1>2, <3>2 DEF PxInv, PxTypes
    <3>3. QED
      BY <1>2, <3>1, <3>2
  <2>3. QED
    BY <1>2, <2>1, <2>2 DEF PxInv, PxTypes
<1>5. QED
  BY <1>3, <1>4 DEF PxInv

LEMMA PxHwSendStep ==
  ASSUME PxInv, PxHwSend
  PROVE  PxInv'
<1> DEFINE b == Min(pxWaiting)
<1>1. /\ pxWaiting' = pxWaiting \ {b} /\ pxSent' = pxSent \cup {pxBuf[b]}
      /\ pxBuf' = pxBuf /\ pxNext' = pxNext
  BY DEF PxHwSend
<1> HIDE DEF b
<1>2. PxTypes'
  BY <1>1 DEF PxInv, PxTypes
<1>3. PxKept'
  BY <1>1 DEF PxInv, PxKept
<1>4. QED
  BY <1>2, <1>3 DEF PxInv

LEMMA PxNextInv == PxInv /\ PxNext => PxInv'
<1> SUFFICES ASSUME PxInv, PxNext PROVE PxInv'
  OBVIOUS
<1>1. CASE PxBusy \/ PxQueue \/ PxIrq \/ PxTstamp
  <2>1. UNCHANGED <<pxNext, pxBuf, pxWaiting, pxSent>>
    BY <1>1 DEF PxBusy, PxQueue, PxIrq, PxTstamp
  <2>2. QED
    BY <2>1 DEF PxInv, PxTypes, PxKept
<1>2. QED
  BY <1>1, PxXmitStep, PxHwSendStep, Zenon DEF PxNext

----------------------------------------------------------------------------
(* Buffers of the receive side.                                             *)

\* Positions in the ring: one turn further, or one turn back, at most.
LEMMA ModUnique ==
  ASSUME NEW x \in Int, NEW g \in Int, g > 0, NEW k \in Int, NEW r \in 0..(g - 1), x = k * g + r
  PROVE  x % g = r
  OBVIOUS

PrAt(i) == (prPtr + i) % PrBuffers

LEMMA PrWrap ==
  ASSUME NEW x \in Int, -PrBuffers <= x, x < 2 * PrBuffers
  PROVE  /\ x % PrBuffers \in 0..(PrBuffers - 1)
         /\ x % PrBuffers = IF x < 0 THEN x + PrBuffers
                            ELSE IF x < PrBuffers THEN x ELSE x - PrBuffers
<1>1. PrBuffers \in Int /\ PrBuffers > 0
  BY PtpDrvAssumption
<1>2. CASE x < 0
  <2>1. x = (-1) * PrBuffers + (x + PrBuffers) /\ x + PrBuffers \in 0..(PrBuffers - 1)
    BY <1>1, <1>2
  <2>2. QED
    BY <1>1, <1>2, <2>1, ModUnique
<1>3. CASE x >= 0 /\ x < PrBuffers
  <2>1. x = 0 * PrBuffers + x /\ x \in 0..(PrBuffers - 1)
    BY <1>1, <1>3
  <2>2. QED
    BY <1>1, <1>3, <2>1, ModUnique
<1>4. CASE x >= PrBuffers
  <2>1. x = 1 * PrBuffers + (x - PrBuffers) /\ x - PrBuffers \in 0..(PrBuffers - 1)
    BY <1>1, <1>4
  <2>2. QED
    BY <1>1, <1>4, <2>1, ModUnique
<1>5. QED
  BY <1>1, <1>2, <1>3, <1>4

\* The positions behind a are all different, one follows the other, and the distance of one of
\* them from a is what axienet_ptp_recv counts.
LEMMA PrPositions ==
  ASSUME NEW a \in 0..(PrBuffers - 1), NEW i \in 0..(PrBuffers - 1)
  PROVE  /\ (a + i) % PrBuffers \in 0..(PrBuffers - 1)
         /\ (a + i) % PrBuffers = IF a + i < PrBuffers THEN a + i ELSE a + i - PrBuffers
<1>1. PrBuffers \in Int /\ PrBuffers > 0 /\ a \in Int /\ i \in Int
  BY PtpDrvAssumption
<1> DEFINE x == a + i
<1>2. x \in Int /\ -PrBuffers <= x /\ x < 2 * PrBuffers /\ ~(x < 0)
  BY <1>1
<1> HIDE DEF x
<1>3. x % PrBuffers \in 0..(PrBuffers - 1) /\ x % PrBuffers = IF x < PrBuffers THEN x ELSE x - PrBuffers
  BY <1>2, PrWrap
<1>4. (a + i) % PrBuffers \in 0..(PrBuffers - 1)
  BY <1>3 DEF x
<1>5. (a + i) % PrBuffers = IF a + i < PrBuffers THEN a + i ELSE a + i - PrBuffers
  BY <1>1, <1>3 DEF x
<1>6. QED
  BY <1>4, <1>5

LEMMA PrApart ==
  ASSUME NEW a \in 0..(PrBuffers - 1), NEW i \in 0..(PrBuffers - 1), NEW j \in 0..(PrBuffers - 1), i # j
  PROVE  (a + i) % PrBuffers # (a + j) % PrBuffers
<1> DEFINE x == (a + i) % PrBuffers
           y == (a + j) % PrBuffers
<1>1. x = IF a + i < PrBuffers THEN a + i ELSE a + i - PrBuffers
  BY PrPositions
<1>2. y = IF a + j < PrBuffers THEN a + j ELSE a + j - PrBuffers
  BY PrPositions
<1> HIDE DEF x, y
<1>3. x # y
  BY <1>1, <1>2, PtpDrvAssumption
<1>4. QED
  BY <1>3 DEF x, y

LEMMA PrFollows ==
  ASSUME NEW a \in 0..(PrBuffers - 1), NEW i \in 0..(PrBuffers - 1), i + 1 <= PrBuffers - 1,
         NEW h, h = (a + i) % PrBuffers
  PROVE  (h + 1) % PrBuffers = (a + (i + 1)) % PrBuffers
<1> DEFINE j == i + 1
           y == (a + j) % PrBuffers
           x == (h + 1) % PrBuffers
<1>1. PrBuffers \in Int /\ PrBuffers > 0 /\ a \in Int /\ i \in Int /\ 1 \in 0..(PrBuffers - 1)
  BY PtpDrvAssumption
<1>2. j \in 0..(PrBuffers - 1)
  BY <1>1
<1>3. h \in 0..(PrBuffers - 1) /\ h = IF a + i < PrBuffers THEN a + i ELSE a + i - PrBuffers
  BY PrPositions
<1>4. x = IF h + 1 < PrBuffers THEN h + 1 ELSE h + 1 - PrBuffers
  BY <1>1, <1>3, PrPositions
<1>5. y = IF a + j < PrBuffers THEN a + j ELSE a + j - PrBuffers
  <2> HIDE DEF j
  <2> QED BY <1>2, PrPositions
<1> HIDE DEF x, y
<1>6. x = y
  BY <1>1, <1>3, <1>4, <1>5
<1>7. QED
  BY <1>6 DEF x, y

LEMMA PrDistance ==
  ASSUME NEW a \in 0..(PrBuffers - 1), NEW i \in 0..(PrBuffers - 1),
         NEW h, h = (a + i) % PrBuffers
  PROVE  (h - a) % PrBuffers = i
<1>1. PrBuffers \in Int /\ PrBuffers > 0 /\ a \in Int /\ i \in Int
  BY PtpDrvAssumption
<1>2. h \in 0..(PrBuffers - 1) /\ h = IF a + i < PrBuffers THEN a + i ELSE a + i - PrBuffers
  BY PrPositions
<1> DEFINE x == h - a
<1>3. x \in Int /\ -PrBuffers <= x /\ x < 2 * PrBuffers /\ x < PrBuffers
  BY <1>1, <1>2
<1>4. (x < 0 => x + PrBuffers = i) /\ (x >= 0 => x = i)
  BY <1>1, <1>2
<1> HIDE DEF x
<1>5. x % PrBuffers = IF x < 0 THEN x + PrBuffers ELSE x
  BY <1>3, PrWrap
<1>6. x % PrBuffers = i
  BY <1>3, <1>4, <1>5
<1>7. QED
  BY <1>6 DEF x

LEMMA PrDistanceType ==
  ASSUME NEW a \in 0..(PrBuffers - 1), NEW h \in 0..(PrBuffers - 1)
  PROVE  (h - a) % PrBuffers \in 0..(PrBuffers - 1)
<1> DEFINE x == h - a
<1>1. x \in Int /\ -PrBuffers <= x /\ x < 2 * PrBuffers
  BY PtpDrvAssumption
<1> HIDE DEF x
<1>2. x % PrBuffers \in 0..(PrBuffers - 1)
  BY <1>1, PrWrap
<1>3. QED
  BY <1>2 DEF x

\* Unless the buffers overran, what is unread lies behind the software's pointer in the order it
\* came, and reaches to the hardware's pointer.
PrUnread ==
  LET k == prCount - Len(prUp) IN
  /\ k \in 0..(PrBuffers - 1)
  /\ prHw = PrAt(k)
  /\ \A i \in 1..k : prBuf[PrAt(i)] = Len(prUp) + i
PrTypes ==
  /\ prUp \in Seq(Nat) /\ prCount \in Nat
  /\ prHw \in 0..(PrBuffers - 1) /\ prPtr \in 0..(PrBuffers - 1)
  /\ prBuf \in [0..(PrBuffers - 1) -> Nat]
PrInv == PrTypes /\ (~prOver => PrUnread) /\ PrInOrder

LEMMA PrInitInv == PrInit => PrInv
<1> SUFFICES ASSUME PrInit PROVE PrInv
  OBVIOUS
<1>1. PrTypes
  BY PtpDrvAssumption DEF PrInit, PrTypes, PrStart
<1>2. prUp = << >> /\ Len(prUp) = 0 /\ prCount = 0
  BY DEF PrInit
<1>3. PrAt(0) = PrBuffers - 1
  BY PtpDrvAssumption, PrWrap DEF PrInit, PrAt, PrStart
<1>4. PrUnread
  BY <1>2, <1>3, PtpDrvAssumption DEF PrUnread, PrInit
<1>5. PrInOrder
  BY <1>2 DEF PrInOrder
<1>6. QED
  BY <1>1, <1>4, <1>5 DEF PrInv

LEMMA PrHwRecvStep ==
  ASSUME PrInv, PrHwRecv
  PROVE  PrInv'
<1> DEFINE h == (prHw + 1) % PrBuffers
           k == prCount - Len(prUp)
<1>1. /\ prUp \in Seq(Nat) /\ Len(prUp) \in Nat /\ prCount \in Nat
      /\ prHw \in 0..(PrBuffers - 1) /\ prPtr \in 0..(PrBuffers - 1)
      /\ prBuf \in [0..(PrBuffers - 1) -> Nat]
  BY DEF PrInv, PrTypes
<1>2. /\ prCount' = prCount + 1 /\ prHw' = h /\ prBuf' = [prBuf EXCEPT ![h] = prCount + 1]
      /\ prOver' = (prOver \/ k >= PrBuffers - 1) /\ prIrq' = TRUE
      /\ prPtr' = prPtr /\ prUp' = prUp
  BY DEF PrHwRecv
<1>3. h \in 0..(PrBuffers - 1)
  <2> DEFINE x == prHw + 1
  <2>1. x \in Int /\ -PrBuffers <= x /\ x < 2 * PrBuffers
    BY <1>1, PtpDrvAssumption
  <2> HIDE DEF x
  <2>2. x % PrBuffers \in 0..(PrBuffers - 1)
    BY <2>1, PrWrap
  <2>3. QED
    BY <2>2 DEF x
<1> HIDE DEF h
<1>4. PrTypes'
  BY <1>1, <1>2, <1>3 DEF PrTypes
<1>5. PrInOrder'
  BY <1>2 DEF PrInv, PrInOrder
<1>6. ASSUME ~prOver' PROVE PrUnread'
  <2>1. ~prOver /\ ~(k >= PrBuffers - 1) /\ PrUnread
    BY <1>2, <1>6 DEF PrInv
  <2>2. k \in 0..(PrBuffers - 1) /\ prHw = PrAt(k) /\ \A i \in 1..k : prBuf[PrAt(i)] = Len(prUp) + i
    BY <2>1 DEF PrUnread
  <2>3. k' = k + 1 /\ k + 1 \in 0..(PrBuffers - 1)
    BY <1>1, <1>2, <2>1, <2>2, PtpDrvAssumption
  <2>5. h = PrAt(k + 1)
    BY <1>1, <2>2, <2>3, PrFollows DEF PrAt, h
  <2>6. ASSUME NEW i \in 1..(k + 1) PROVE prBuf'[PrAt(i)] = Len(prUp) + i
    <3>1. i \in 0..(PrBuffers - 1)
      BY <2>2, <2>3, <2>6, PtpDrvAssumption
    <3>2. PrAt(i) \in 0..(PrBuffers - 1)
      BY <1>1, <3>1, PrPositions DEF PrAt
    <3>3. CASE i = k + 1
      BY <1>1, <1>2, <1>3, <2>5, <3>3
    <3>4. CASE i \in 1..k
      <4>1. PrAt(i) # PrAt(k + 1)
        <5>1. i # k + 1
          BY <2>2, <3>4
        <5>2. QED
          BY <1>1, <2>3, <3>1, <5>1, PrApart DEF PrAt
      <4>2. prBuf'[PrAt(i)] = prBuf[PrAt(i)]
        BY <1>1, <1>2, <2>5, <3>2, <4>1
      <4>3. QED
        BY <2>2, <3>4, <4>2
    <3>5. QED
      BY <2>2, <2>6, <3>3, <3>4
  <2>7. \A i : PrAt(i)' = PrAt(i)
    BY <1>2 DEF PrAt
  <2> HIDE DEF k
  <2>8. QED
    BY <1>2, <2>3, <2>5, <2>6, <2>7 DEF PrUnread, k
<1>7. QED
  BY <1>4, <1>5, <1>6 DEF PrInv

\* What is appended comes after what was there.
LEMMA Appended ==
  ASSUME NEW s \in Seq(Nat), NEW t \in Seq(Nat)
  PROVE  /\ s \o t \in Seq(Nat) /\ Len(s \o t) = Len(s) + Len(t)
         /\ \A i \in 1..Len(s) : (s \o t)[i] = s[i]
         /\ \A i \in 1..Len(t) : (s \o t)[Len(s) + i] = t[i]
<1>1. s \o t \in Seq(Nat) /\ Len(s \o t) = Len(s) + Len(t)
  OBVIOUS
<1>2. \A i \in 1..Len(s) : (s \o t)[i] = s[i]
  OBVIOUS
<1>3. \A i \in 1..Len(t) : (s \o t)[Len(s) + i] = t[i]
  OBVIOUS
<1>4. QED
  BY <1>1, <1>2, <1>3

LEMMA PrIrqStep ==
  ASSUME PrInv, PrIrq
  PROVE  PrInv'
<1> DEFINE n == (prHw - prPtr) % PrBuffers
           k == prCount - Len(prUp)
           t == [i \in 1..n |-> prBuf[PrAt(i)]]
<1>1. /\ prUp \in Seq(Nat) /\ Len(prUp) \in Nat /\ prCount \in Nat
      /\ prHw \in 0..(PrBuffers - 1) /\ prPtr \in 0..(PrBuffers - 1)
      /\ prBuf \in [0..(PrBuffers - 1) -> Nat]
  BY DEF PrInv, PrTypes
<1>2. /\ prIrq' = FALSE /\ prPtr' = prHw /\ prUp' = prUp \o t
      /\ UNCHANGED <<prHw, prBuf, prCount, prOver>>
  BY DEF PrIrq, PrAt
<1>3. n \in 0..(PrBuffers - 1)
  BY <1>1, PrDistanceType
<1> HIDE DEF n
<1>4. \A i \in 0..(PrBuffers - 1) : PrAt(i) \in 0..(PrBuffers - 1)
  BY <1>1, PrPositions DEF PrAt
<1>5. n \in Nat /\ t \in Seq(Nat) /\ Len(t) = n
  <2>1. n \in Nat /\ \A i \in 1..n : i \in 0..(PrBuffers - 1)
    BY <1>3, PtpDrvAssumption
  <2>2. \A i \in 1..n : prBuf[PrAt(i)] \in Nat
    BY <1>1, <1>4, <2>1
  <2>3. QED
    BY <2>1, <2>2
<1>6. \A i \in 1..n : t[i] = prBuf[PrAt(i)]
  BY <1>5
<1> HIDE DEF t
<1>7. /\ prUp' \in Seq(Nat) /\ Len(prUp') = Len(prUp) + n
      /\ \A i \in 1..Len(prUp) : prUp'[i] = prUp[i]
      /\ \A i \in 1..n : prUp'[Len(prUp) + i] = t[i]
  <2> DEFINE u == prUp \o t
  <2>1. /\ u \in Seq(Nat) /\ Len(u) = Len(prUp) + n
        /\ \A i \in 1..Len(prUp) : u[i] = prUp[i]
        /\ \A i \in 1..n : u[Len(prUp) + i] = t[i]
    BY <1>1, <1>5, Appended
  <2>2. prUp' = u
    BY <1>2
  <2> HIDE DEF u
  <2>3. QED
    BY <2>1, <2>2
<1>8. PrTypes'
  BY <1>1, <1>2, <1>7 DEF PrTypes
<1>9. ASSUME ~prOver
      PROVE  /\ n = k
             /\ \A i \in 1..k : prBuf[PrAt(i)] = Len(prUp) + i
             /\ \A i \in 1..Len(prUp) : prUp[i] = i
  <2>1. k \in 0..(PrBuffers - 1) /\ prHw = PrAt(k) /\ \A i \in 1..k : prBuf[PrAt(i)] = Len(prUp) + i
    BY <1>9 DEF PrInv, PrUnread
  <2>2. n = k
    <3> HIDE DEF k
    <3> QED BY <1>1, <2>1, PrDistance DEF PrAt, n
  <2>3. QED
    BY <1>9, <2>1, <2>2 DEF PrInv, PrInOrder
<1>10. ASSUME ~prOver PROVE Len(prUp') = prCount /\ \A i \in 1..prCount : prUp'[i] = i
  <2>1. Len(prUp') = prCount
    BY <1>1, <1>7, <1>9, <1>10
  <2>2. ASSUME NEW i \in 1..prCount PROVE prUp'[i] = i
    <3>1. CASE i <= Len(prUp)
      <4>1. i \in 1..Len(prUp)
        BY <1>1, <3>1
      <4>2. prUp'[i] = prUp[i] /\ prUp[i] = i
        BY <1>7, <1>9, <1>10, <4>1
      <4>3. QED
        BY <4>2
    <3>2. CASE i > Len(prUp)
      <4> DEFINE j == i - Len(prUp)
      <4>1. j \in 1..n /\ i = Len(prUp) + j
        BY <1>1, <1>9, <1>10, <3>2
      <4> HIDE DEF j
      <4>2. prUp'[i] = prBuf[PrAt(j)] /\ prBuf[PrAt(j)] = Len(prUp) + j
        BY <1>6, <1>7, <1>9, <1>10, <4>1
      <4>3. QED
        BY <4>1, <4>2
    <3>3. QED
      BY <1>1, <3>1, <3>2
  <2>3. QED
    BY <2>1, <2>2
<1>11. ~prOver' => PrUnread'
  <2> SUFFICES ASSUME ~prOver PROVE PrUnread'
    BY <1>2
  <2>1. prCount' - Len(prUp') = 0
    BY <1>1, <1>2, <1>10
  <2>2. PrAt(0)' = prHw
    <3>1. PrAt(0)' = (prHw + 0) % PrBuffers
      BY <1>2 DEF PrAt
    <3>2. QED
      BY <1>1, <3>1, PtpDrvAssumption, PrWrap
  <2>3. QED
    BY <1>2, <2>1, <2>2, PtpDrvAssumption DEF PrUnread
<1>12. PrInOrder'
  BY <1>2, <1>10 DEF PrInOrder
<1>13. QED
  BY <1>8, <1>11, <1>12 DEF PrInv

----------------------------------------------------------------------------
(* The clock: sums modulo the range of its registers.                       *)

LEMMA DivMod ==
  ASSUME NEW a \in Int, NEW g \in Int, g > 0
  PROVE  a \div g \in Int /\ a % g \in 0..(g - 1) /\ a = (a \div g) * g + (a % g)
  OBVIOUS

\* Turns of g do not matter.
LEMMA ModTurns ==
  ASSUME NEW x \in Int, NEW g \in Int, g > 0, NEW q \in Int
  PROVE  (q * g + x) % g = x % g
<1> DEFINE k == x \div g
           r == x % g
           y == q * g + x
<1>1. k \in Int /\ r \in 0..(g - 1) /\ x = k * g + r
  BY DivMod
<1>2. y \in Int /\ q + k \in Int
  BY <1>1
<1> HIDE DEF k, r
<1>3. y = (q + k) * g + r
  BY <1>1
<1> HIDE DEF y
<1>4. y % g = r
  BY <1>1, <1>2, <1>3, ModUnique
<1>5. QED
  BY <1>4 DEF y, r

\* Equal remainders stay equal when the same is added.
LEMMA ModShift ==
  ASSUME NEW a \in Int, NEW b \in Int, NEW d \in Int, NEW g \in Int, g > 0, a % g = b % g
  PROVE  (a + d) % g = (b + d) % g
<1> DEFINE i == a \div g
           j == b \div g
           r == a % g
           y == b + d
<1>1. i \in Int /\ j \in Int /\ r \in 0..(g - 1) /\ a = i * g + r /\ b = j * g + r
  BY DivMod
<1> HIDE DEF i, j, r
<1>2. y \in Int /\ i - j \in Int
  BY <1>1
<1>3. a + d = (i - j) * g + y
  BY <1>1
<1> HIDE DEF y
<1>4. ((i - j) * g + y) % g = y % g
  BY <1>2, ModTurns
<1>5. QED
  BY <1>3, <1>4 DEF y

\* Seconds modulo w and nanoseconds modulo b together are the sum modulo w * b.
LEMMA ModParts ==
  ASSUME NEW s \in Int, NEW w \in Int, w > 0, NEW b \in Int, b > 0
  PROVE  /\ (s \div b) % w \in Int /\ s % b \in Int
         /\ \E q \in Int : s = q * (w * b) + (((s \div b) % w) * b + (s % b))
<1> DEFINE d == s \div b
           r == s % b
           q == d \div w
           c == d % w
<1>1. d \in Int /\ r \in Int /\ s = d * b + r
  BY DivMod
<1> HIDE DEF d, r
<1>2. q \in Int /\ c \in Int /\ d = q * w + c
  BY <1>1, DivMod
<1> HIDE DEF q, c
<1>3. s = (q * w + c) * b + r
  BY <1>1, <1>2
<1>4. (q * w + c) * b = q * (w * b) + c * b
  BY <1>1, <1>2
<1>5. s = q * (w * b) + (c * b + r)
  BY <1>1, <1>2, <1>3, <1>4
<1>6. QED
  BY <1>1, <1>2, <1>5 DEF c, d, r

\* The registers can hold every time that is set.
LEMMA PcRangeFacts == PcRange \in Int /\ PcRange > 0 /\ 3 * PcBase <= PcRange
<1>1. PcBase \in Int /\ PcBase > 0 /\ PcWord \in Int /\ PcWord - 3 >= 0
  BY PtpDrvAssumption
<1>2. (PcWord - 3) * PcBase >= 0
  BY <1>1
<1>3. (PcWord - 3) * PcBase = PcWord * PcBase - 3 * PcBase
  BY <1>1
<1>4. QED
  BY <1>1, <1>2, <1>3 DEF PcRange

PcTypes == pcRaw \in Nat /\ pcSec \in Int /\ pcNs \in Int /\ pcWant \in 0..(PcRange - 1)
PcInv == PcTypes /\ PcExact

LEMMA PcModSelf ==
  ASSUME NEW t \in 0..(PcRange - 1)
  PROVE  t % PcRange = t
<1>1. t \in Int /\ t = 0 * PcRange + t
  BY PcRangeFacts
<1>2. QED
  BY <1>1, PcRangeFacts, ModUnique

\* The offset registers hold a difference that is not negative.
LEMMA PcOffset ==
  ASSUME NEW d \in Nat
  PROVE  /\ d \div PcBase \in Int /\ d % PcBase \in Int
         /\ (d \div PcBase) * PcBase + (d % PcBase) = d
         /\ d < PcBase => d % PcBase = d
<1>1. PcBase \in Int /\ PcBase > 0
  BY PtpDrvAssumption
<1>2. /\ d \div PcBase \in Int /\ d % PcBase \in Int
      /\ (d \div PcBase) * PcBase + (d % PcBase) = d
  BY <1>1, DivMod
<1>3. ASSUME d < PcBase PROVE d % PcBase = d
  <2>1. d = 0 * PcBase + d /\ d \in 0..(PcBase - 1)
    BY <1>1, <1>3
  <2>2. QED
    BY <1>1, <2>1, ModUnique
<1>4. QED
  BY <1>2, <1>3

LEMMA PcInitInv == PcInit => PcInv
<1> SUFFICES ASSUME PcInit PROVE PcInv
  OBVIOUS
<1> DEFINE d == pcWant - pcRaw
<1>1. /\ pcRaw \in 0..1 /\ pcWant \in PcBase..(2 * PcBase)
      /\ pcSec = d \div PcBase /\ pcNs = d % PcBase
  BY DEF PcInit
<1>2. d \in Nat /\ pcRaw \in Nat /\ pcWant \in Int /\ pcWant = pcRaw + d
  BY <1>1, PtpDrvAssumption
<1> HIDE DEF d
<1>3. pcSec \in Int /\ pcNs \in Int /\ pcSec * PcBase + pcNs = d
  BY <1>1, <1>2, PcOffset
<1>4. pcWant \in 0..(PcRange - 1)
  BY <1>1, PcRangeFacts, PtpDrvAssumption
<1>5. pcRaw + pcSec * PcBase + pcNs = pcWant
  BY <1>2, <1>3, PtpDrvAssumption
<1>6. PcTime = pcWant
  BY <1>4, <1>5, PcModSelf DEF PcTime
<1>7. QED
  BY <1>2, <1>3, <1>4, <1>6 DEF PcInv, PcTypes, PcExact

LEMMA PcTickStep ==
  ASSUME PcInv, PcTick
  PROVE  PcInv'
<1> DEFINE a == pcRaw + pcSec * PcBase + pcNs
           w == pcWant
           n == (w + 1) % PcRange
<1>1. pcRaw \in Nat /\ pcSec \in Int /\ pcNs \in Int /\ w \in 0..(PcRange - 1) /\ w \in Int
  BY PcRangeFacts DEF PcInv, PcTypes
<1>2. pcRaw' = pcRaw + 1 /\ pcWant' = n /\ UNCHANGED <<pcSec, pcNs, pcClamped>>
  BY DEF PcTick
<1>3. a \in Int /\ pcRaw' + pcSec' * PcBase + pcNs' = a + 1
  BY <1>1, <1>2, PtpDrvAssumption
<1>4. n \in 0..(PcRange - 1)
  BY <1>1, PcRangeFacts, DivMod
<1>5. ~pcClamped => a % PcRange = w
  BY DEF PcInv, PcExact, PcTime
<1>6. w % PcRange = w
  BY <1>1, PcModSelf
<1> HIDE DEF a, w
<1>7. ~pcClamped => (a + 1) % PcRange = n
  BY <1>1, <1>3, <1>5, <1>6, PcRangeFacts, ModShift
<1> HIDE DEF n
<1>8. PcExact'
  BY <1>2, <1>3, <1>7 DEF PcExact, PcTime, PcRange
<1>9. PcTypes'
  BY <1>1, <1>2, <1>4 DEF PcTypes, PcRange
<1>10. QED
  BY <1>8, <1>9 DEF PcInv

LEMMA PcAdjStep ==
  ASSUME PcInv, NEW d \in Int, PcAdj(d)
  PROVE  PcInv'
<1> DEFINE a == pcRaw + pcSec * PcBase + pcNs
           s == pcSec * PcBase + pcNs + d
           w == pcWant
           n == (w + d) % PcRange
           u == (s \div PcBase) % PcWord
           v == s % PcBase
           x == u * PcBase + v
<1>0. PcBase \in Int /\ PcBase > 0 /\ PcWord \in Int /\ PcWord > 0
  BY PtpDrvAssumption
<1>1. pcRaw \in Int /\ pcRaw \in Nat /\ pcSec \in Int /\ pcNs \in Int /\ w \in 0..(PcRange - 1) /\ w \in Int
  BY PcRangeFacts DEF PcInv, PcTypes
<1>2. pcSec' = u /\ pcNs' = v /\ pcWant' = n /\ UNCHANGED <<pcRaw, pcClamped>>
  BY DEF PcAdj
<1>3. a \in Int /\ s \in Int /\ a + d = pcRaw + s /\ w + d \in Int
  BY <1>0, <1>1
<1>4. n \in 0..(PcRange - 1)
  BY <1>3, PcRangeFacts, DivMod
<1>5. ~pcClamped => a % PcRange = w
  BY DEF PcInv, PcExact, PcTime
<1>6. w % PcRange = w
  BY <1>1, PcModSelf
<1> HIDE DEF a, s, w
<1>7. ASSUME ~pcClamped PROVE (a + d) % PcRange = n
  <2>1. a % PcRange = w % PcRange
    BY <1>5, <1>6, <1>7
  <2>2. d \in Int /\ a \in Int /\ w \in Int /\ PcRange \in Int /\ PcRange > 0
    BY <1>1, <1>3, PcRangeFacts
  <2>3. (a + d) % PcRange = (w + d) % PcRange
    BY <2>1, <2>2, ModShift
  <2>4. QED
    BY <2>3
<1>8. u \in Int /\ v \in Int /\ \E q \in Int : s = q * PcRange + x
  BY <1>0, <1>3, ModParts DEF PcRange
<1> HIDE DEF n, u, v
<1>9. PICK q \in Int : s = q * PcRange + x
  BY <1>8
<1>10. x \in Int /\ pcRaw + x \in Int
  BY <1>0, <1>1, <1>8
<1> DEFINE y == pcRaw + x
<1>11. a + d = q * PcRange + y
  <2> HIDE DEF x
  <2> QED BY <1>1, <1>3, <1>9, <1>10, PcRangeFacts
<1>12. y = pcRaw' + pcSec' * PcBase + pcNs'
  BY <1>0, <1>1, <1>2, <1>8
<1> HIDE DEF x
<1>13. (q * PcRange + y) % PcRange = y % PcRange
  <2>1. y \in Int
    BY <1>10
  <2> HIDE DEF y
  <2>2. QED
    BY <2>1, PcRangeFacts, ModTurns
<1> HIDE DEF y
<1>14. ~pcClamped => y % PcRange = n
  BY <1>7, <1>11, <1>13
<1>15. PcExact'
  BY <1>2, <1>12, <1>14 DEF PcExact, PcTime, PcRange
<1>16. PcTypes'
  BY <1>1, <1>2, <1>4, <1>8 DEF PcTypes, PcRange
<1>17. QED
  BY <1>15, <1>16 DEF PcInv

LEMMA PcSetStep ==
  ASSUME PcInv, NEW t \in 0..(PcRange - 1), PcSet(t)
  PROVE  PcInv'
<1> DEFINE tod == pcRaw % PcRange
           k == pcRaw \div PcRange
           d == t - tod
           u == IF d < PcBase THEN 0 ELSE d \div PcBase
           v == d % PcBase
<1>0. PcBase \in Int /\ PcBase > 0 /\ pcRaw \in Nat /\ t \in Int
  BY PtpDrvAssumption, PcRangeFacts DEF PcInv, PcTypes
<1>1. k \in Int /\ tod \in Int /\ pcRaw = k * PcRange + tod
  BY <1>0, PcRangeFacts, DivMod
<1>2. pcSec' = u /\ pcNs' = v /\ pcWant' = t /\ pcClamped' = (t < tod) /\ pcRaw' = pcRaw
  BY DEF PcSet, PcSetTime
<1> HIDE DEF tod, k
<1>3. d \in Int
  BY <1>0, <1>1
<1> HIDE DEF d
<1>4. u \in Int /\ v \in Int
  BY <1>0, <1>3, DivMod
<1>5. PcTypes'
  BY <1>0, <1>2, <1>4 DEF PcTypes, PcRange
<1>6. ASSUME ~pcClamped' PROVE PcTime' = t
  <2>1. d \in Nat
    <3>1. ~(t < tod)
      BY <1>2, <1>6
    <3>2. QED
      BY <1>0, <1>1, <3>1 DEF d
  <2>2. u * PcBase + v = d
    BY <1>0, <2>1, PcOffset
  <2> HIDE DEF u, v
  <2>3. pcRaw + u * PcBase + v = pcRaw + d
    BY <1>0, <1>4, <2>1, <2>2
  <2>4. pcRaw + d = k * PcRange + t
    BY <1>0, <1>1, PcRangeFacts DEF d
  <2> DEFINE x == pcRaw + d
  <2>5. x \in Int
    BY <1>0, <2>1
  <2>6. x = k * PcRange + t
    BY <2>4
  <2> HIDE DEF x
  <2>7. x % PcRange = t
    BY <1>1, <2>5, <2>6, PcRangeFacts, ModUnique
  <2>8. PcTime' = (pcRaw + u * PcBase + v) % PcRange
    BY <1>2 DEF PcTime, PcRange
  <2>9. QED
    BY <2>3, <2>7, <2>8 DEF x
<1>7. QED
  BY <1>2, <1>5, <1>6 DEF PcInv, PcExact

----------------------------------------------------------------------------
(* The three parts together.                                                *)

PtpDrvInv == PxInv /\ PrInv /\ PcInv

LEMMA PxInitInv == PxInit => PxInv
  BY DEF PxInit, PxInv, PxTypes, PxKept

LEMMA PxUnchangedInv == PxInv /\ UNCHANGED pxVars => PxInv'
  BY DEF pxVars, PxInv, PxTypes, PxKept

LEMMA PrUnchangedInv == PrInv /\ UNCHANGED prVars => PrInv'
  BY DEF prVars, PrInv, PrTypes, PrUnread, PrAt, PrInOrder

LEMMA PcUnchangedInv == PcInv /\ UNCHANGED pcVars => PcInv'
  BY DEF pcVars, PcInv, PcTypes, PcExact, PcTime, PcRange

LEMMA PrNextInv == PrInv /\ PrNext => PrInv'
  BY PrHwRecvStep, PrIrqStep DEF PrNext

LEMMA PcNextInv == PcInv /\ PcNext => PcInv'
<1> SUFFICES ASSUME PcInv, PcNext PROVE PcInv'
  OBVIOUS
<1>1. ASSUME NEW t \in PcTimes PROVE t \in 0..(PcRange - 1) /\ t \in Int /\ -t \in Int
  BY <1>1, PtpDrvAssumption, PcRangeFacts DEF PcRange
<1>2. ASSUME NEW t \in PcTimes, PcSet(t) PROVE PcInv'
  BY <1>1, <1>2, PcSetStep
<1>3. ASSUME NEW t \in PcTimes, PcAdj(t) PROVE PcInv'
  BY <1>1, <1>3, PcAdjStep
<1>4. ASSUME NEW t \in PcTimes, PcAdj(-t) PROVE PcInv'
  BY <1>1, <1>4, PcAdjStep
<1>5. QED
  BY <1>2, <1>3, <1>4, PcTickStep, Zenon DEF PcNext

\* For any number of buffers and any width of the registers: a PTP frame that was written to a
\* buffer is there until it has been sent (axienet_ptp_xmit), received frames are handed up once and
\* in order unless the interrupt is so late that the buffers overran (axienet_ptp_recv), and the clock
\* shows the time it was set to, moved by every adjustment since, unless it was set to a time before
\* its counter (xlnx_ptp_settime, xlnx_ptp_adjtime).
THEOREM PxAlwaysSound == PtpDrvSpec => []PxSound
<1>1. PtpDrvInit => PtpDrvInv
  BY PxInitInv, PrInitInv, PcInitInv DEF PtpDrvInit, PtpDrvInv
<1>2. PtpDrvInv /\ [PtpDrvNext]_<<pxVars, prVars, pcVars>> => PtpDrvInv'
  <2> SUFFICES ASSUME PtpDrvInv, [PtpDrvNext]_<<pxVars, prVars, pcVars>> PROVE PtpDrvInv'
    OBVIOUS
  <2>1. /\ PxNext \/ UNCHANGED pxVars
        /\ PrNext \/ UNCHANGED prVars
        /\ PcNext \/ UNCHANGED pcVars
    BY Zenon DEF PtpDrvNext
  <2>2. QED
    BY <2>1, PxNextInv, PxUnchangedInv, PrNextInv, PrUnchangedInv, PcNextInv, PcUnchangedInv, Zenon
       DEF PtpDrvInv
<1>3. PtpDrvInv => PxSound
  BY DEF PtpDrvInv, PxInv, PrInv, PcInv, PxSound
<1>4. QED
  BY <1>1, <1>2, <1>3, PTL DEF PtpDrvSpec

----------------------------------------------------------------------------
(* Time stamps of a slave port.  Between two steps the local clock stays in one stretch of        *)
(* SyWander, so any two stamps it took there differ by at most that and what a drift can move an  *)
(* error that was no whole step; the stamps of a master are all equal.                             *)

\* The stretch the clock is in: x is the error of the clock now, or one it may have had since the
\* last step.
SyNear(off, x) ==
  \/ x = off
  \/ (off % 10) <= SyWander + 1 /\ x - (off - (off % 10)) \in 0..(SyWander + 1)

SyTsps == [mode : SyModes, t1 : Seq(Int), t2 : Seq(Int), t3 : Seq(Int), t4 : Seq(Int), delay : Int,
           valid : BOOLEAN]
\* The stamps of one exchange are taken together, the local ones since the last step.
SyTogether(off, t) ==
  /\ t \in SyTsps
  /\ (t.t1 = << >> <=> t.t2 = << >>) /\ (t.t3 = << >> <=> t.t4 = << >>)
  /\ t.t2 # << >> => SyNear(off, t.t2[1])
  /\ t.t3 # << >> => SyNear(off, t.t3[1])
\* The remote ones are of one grandmaster, and the delay is that of such an exchange.
SyOneTime(best, t) ==
  /\ t.t1 # << >> => t.t1[1] = SyTime[best]
  /\ t.t4 # << >> => t.t4[1] = SyTime[best]
  /\ t.valid => SyAbs(t.delay) <= SyStep

SyMsgs == [kind : {"sync", "fup"}, m : SyMasters, n : Int, ts : Int]
\* A message that waits, and the requests that do, bear stamps of the same stretch.
SyKept(off, last) ==
  \/ last = << >>
  \/ /\ last[1] \in SyMsgs
     /\ last[1].kind = "sync" => SyNear(off, last[1].ts)
SyAsked(off) == Seq({x \in Int : SyNear(off, x)})

SyFields == {"state", "last", "mixed", "crossed", "reqs", "tsp", "srv", "off", "row", "hasty", "ival"}
SyServo == {"count", "state", "answer", "left"}
\* The invariant, of what one message changes in port and clock
SyHolds(best, st) ==
  /\ DOMAIN st = SyFields /\ DOMAIN st.srv = SyServo
  /\ st.off \in Int /\ st.mixed = FALSE /\ st.crossed \in BOOLEAN
  /\ SyTogether(st.off, st.tsp) /\ (~st.crossed => SyOneTime(best, st.tsp))
  /\ SyKept(st.off, st.last) /\ st.reqs \in SyAsked(st.off)

SyInv ==
  /\ syParent \in SyMasters /\ syBest = SyGm[syParent]
  /\ SyHolds(syBest, SySt)

LEMMA SyNearFacts ==
  ASSUME NEW off \in Int, NEW x \in Int, NEW y \in Int, SyNear(off, x), SyNear(off, y)
  PROVE  SyNear(off, off) /\ x - y <= SyWander + 1 /\ y - x <= SyWander + 1
<1>1. (off % 10) \in 0..9
  OBVIOUS
<1>2. SyWander \in Nat
  BY SyAssumption
<1> DEFINE r == off % 10
<1> HIDE DEF r
<1>3. r \in 0..9
  BY <1>1 DEF r
<1>4. /\ x = off \/ (r <= SyWander + 1 /\ x - (off - r) \in 0..(SyWander + 1))
      /\ y = off \/ (r <= SyWander + 1 /\ y - (off - r) \in 0..(SyWander + 1))
  BY DEF SyNear, r
<1>5. x - y <= SyWander + 1 /\ y - x <= SyWander + 1
  BY <1>2, <1>3, <1>4
<1>6. QED
  BY <1>5 DEF SyNear

\* A drift stays in the stretch, and so do the stamps taken in it.
LEMMA SyDriftNear ==
  ASSUME NEW off \in Int, NEW d \in {-1, 1}, (off % 10) + d \in 0..SyWander, NEW x \in Int, SyNear(off, x)
  PROVE  SyNear(off + d, x)
<1>1. SyWander \in 0..9
  BY SyAssumption
<1>2. (off % 10) \in 0..9 /\ ((off + d) % 10) = (off % 10) + d
  BY <1>1
<1> DEFINE r == off % 10
           q == (off + d) % 10
<1>3. r \in 0..9 /\ q = r + d /\ q <= SyWander
  BY <1>1, <1>2
<1>4. x = off \/ (r <= SyWander + 1 /\ x - (off - r) \in 0..(SyWander + 1))
  BY DEF SyNear
<1> HIDE DEF r, q
<1>5. q <= SyWander + 1 /\ x - ((off + d) - q) \in 0..(SyWander + 1)
  BY <1>1, <1>3, <1>4
<1>6. QED
  BY <1>5 DEF SyNear, q

\* A delay of two local stamps of one stretch and two stamps of one grandmaster is no step.
LEMMA SyDelayClose ==
  ASSUME NEW off \in Int, NEW best, NEW t, SyTogether(off, t), t.t2 # << >>, t.t3 # << >>
  PROVE  /\ SyGetRawDelay(t) \in Int
         /\ SyOneTime(best, t) /\ SyTime[best] \in Int => SyAbs(SyGetRawDelay(t)) <= SyStep
<1>1. t.t1[1] \in Int /\ t.t2[1] \in Int /\ t.t3[1] \in Int /\ t.t4[1] \in Int
  BY DEF SyTogether, SyTsps
<1>2. SyGetRawDelay(t) \in Int
  BY <1>1 DEF SyGetRawDelay
<1>3. SyNear(off, t.t2[1]) /\ SyNear(off, t.t3[1]) /\ t.t1 # << >> /\ t.t4 # << >>
  BY DEF SyTogether
<1>4. ASSUME SyOneTime(best, t), SyTime[best] \in Int
      PROVE  SyAbs(SyGetRawDelay(t)) <= SyStep
  <2>1. t.t1[1] = SyTime[best] /\ t.t4[1] = SyTime[best]
    BY <1>3, <1>4 DEF SyOneTime
  <2>2. t.t2[1] - t.t3[1] <= SyWander + 1 /\ t.t3[1] - t.t2[1] <= SyWander + 1
    BY <1>1, <1>3, SyNearFacts
  <2>3. SyGetRawDelay(t) = t.t2[1] - t.t3[1]
    BY <1>1, <2>1, <1>4 DEF SyGetRawDelay
  <2>4. QED
    BY <1>1, <2>2, <2>3, SyAssumption DEF SyAbs
<1>5. QED
  BY <1>2, <1>4

\* tsproc_down_ts, tsproc_up_ts and tsproc_update_delay, tsproc_reset
LEMMA SyDownFacts ==
  ASSUME NEW off \in Int, NEW t, SyTogether(off, t), NEW remote \in Int, NEW local \in Int, SyNear(off, local)
  PROVE  /\ SyTogether(off, SyDownTs(t, remote, local))
         /\ \A best : SyOneTime(best, t) /\ remote = SyTime[best] => SyOneTime(best, SyDownTs(t, remote, local))
<1> DEFINE u == SyDownTs(t, remote, local)
<1>1. t \in SyTsps
  BY DEF SyTogether
<1>2. <<remote>> \in Seq(Int) /\ <<local>> \in Seq(Int) /\ <<remote>> # << >> /\ <<local>> # << >>
  OBVIOUS
<1>3. /\ u.t1 = <<remote>> /\ u.t2 = <<local>> /\ u.t3 = t.t3 /\ u.t4 = t.t4
      /\ u.delay = t.delay /\ u.valid = t.valid /\ u.mode = t.mode
  BY <1>1 DEF SyDownTs, SyTsps
<1>4. u \in SyTsps
  BY <1>1, <1>2 DEF SyDownTs, SyTsps
<1> HIDE DEF u
<1>5. SyTogether(off, u)
  BY <1>2, <1>3, <1>4 DEF SyTogether
<1>6. \A best : SyOneTime(best, t) /\ remote = SyTime[best] => SyOneTime(best, u)
  BY <1>3 DEF SyOneTime
<1>7. QED
  BY <1>5, <1>6 DEF u

LEMMA SyPathFacts ==
  ASSUME NEW off \in Int, NEW t, SyTogether(off, t), NEW remote \in Int, NEW local \in Int, SyNear(off, local)
  PROVE  /\ SyTogether(off, SyPathDelay(t, local, remote))
         /\ \A best : SyOneTime(best, t) /\ remote = SyTime[best] => SyOneTime(best, SyPathDelay(t, local, remote))
<1> DEFINE u == SyUpTs(t, local, remote)
           w == [u EXCEPT !.delay = SyGetRawDelay(u), !.valid = TRUE]
<1>1. t \in SyTsps
  BY DEF SyTogether
<1>2. <<remote>> \in Seq(Int) /\ <<local>> \in Seq(Int) /\ <<remote>> # << >> /\ <<local>> # << >>
  OBVIOUS
<1>3. /\ u.t4 = <<remote>> /\ u.t3 = <<local>> /\ u.t1 = t.t1 /\ u.t2 = t.t2
      /\ u.delay = t.delay /\ u.valid = t.valid /\ u.mode = t.mode
  BY <1>1 DEF SyUpTs, SyTsps
<1>4. u \in SyTsps
  BY <1>1, <1>2 DEF SyUpTs, SyTsps
<1>5. SyPathDelay(t, local, remote) = IF u.t2 = << >> \/ u.t3 = << >> THEN u ELSE w
  BY DEF SyPathDelay, SyUpdateDelay, SyNoTs
<1> HIDE DEF u
<1>6. SyTogether(off, u)
  BY <1>2, <1>3, <1>4 DEF SyTogether
<1>7. \A best : SyOneTime(best, t) /\ remote = SyTime[best] => SyOneTime(best, u)
  BY <1>3 DEF SyOneTime
<1>8. CASE u.t2 = << >> \/ u.t3 = << >>
  BY <1>5, <1>6, <1>7, <1>8
<1>9. CASE ~(u.t2 = << >> \/ u.t3 = << >>)
  <2>1. SyGetRawDelay(u) \in Int
    BY <1>6, <1>9, SyDelayClose
  <2>2. /\ w.t1 = u.t1 /\ w.t2 = u.t2 /\ w.t3 = u.t3 /\ w.t4 = u.t4 /\ w.delay = SyGetRawDelay(u)
    BY <1>4 DEF SyTsps
  <2>3. w \in SyTsps
    BY <1>4, <2>1 DEF SyTsps
  <2> HIDE DEF w
  <2>4. SyTogether(off, w)
    BY <1>6, <2>2, <2>3 DEF SyTogether
  <2>5. \A best : SyOneTime(best, t) /\ remote = SyTime[best] => SyOneTime(best, w)
    <3> SUFFICES ASSUME NEW best, SyOneTime(best, t), remote = SyTime[best]
                 PROVE  SyOneTime(best, w)
      OBVIOUS
    <3>1. SyOneTime(best, u)
      BY <1>7
    <3>2. SyAbs(SyGetRawDelay(u)) <= SyStep
      BY <1>6, <1>9, <3>1, SyDelayClose
    <3>3. QED
      BY <2>2, <3>1, <3>2 DEF SyOneTime
  <2>6. QED
    BY <1>5, <1>9, <2>4, <2>5
<1>10. QED
  BY <1>8, <1>9

\* A reset leaves no stamp that could be near or far; a full one no delay either.
LEMMA SyResetFacts ==
  ASSUME NEW off \in Int, NEW new \in Int, NEW t, SyTogether(off, t), NEW full \in BOOLEAN
  PROVE  /\ SyTogether(new, SyReset(t, full))
         /\ \A best : full \/ SyOneTime(best, t) => SyOneTime(best, SyReset(t, full))
<1> DEFINE u == SyReset(t, full)
<1>1. t \in SyTsps
  BY DEF SyTogether
<1>2. << >> \in Seq(Int)
  OBVIOUS
<1>3. u = [t EXCEPT !.t1 = << >>, !.t2 = << >>, !.t3 = << >>, !.t4 = << >>, !.valid = t.valid /\ ~full]
  BY <1>1 DEF SyReset, SyNoTs, SyTsps
<1>4. (t.valid /\ ~full) \in BOOLEAN
  OBVIOUS
<1>5. /\ u.t1 = << >> /\ u.t2 = << >> /\ u.t3 = << >> /\ u.t4 = << >> /\ u.delay = t.delay
      /\ u.valid = (t.valid /\ ~full)
  BY <1>1, <1>3 DEF SyTsps
<1>6. u \in SyTsps
  BY <1>1, <1>2, <1>3, <1>4 DEF SyTsps
<1> HIDE DEF u
<1>7. SyTogether(new, u)
  BY <1>5, <1>6 DEF SyTogether
<1>8. \A best : full \/ SyOneTime(best, t) => SyOneTime(best, u)
  BY <1>5 DEF SyOneTime
<1>9. QED
  BY <1>7, <1>8 DEF u

\* An offset that is known is a number.
LEMMA SyOffsetInt ==
  ASSUME NEW off \in Int, NEW t, SyTogether(off, t), SyOffsetKnown(t)
  PROVE  SyOffset(t) \in Int
<1>1. t \in SyTsps /\ t.t1 # << >> /\ t.t2 # << >>
  BY DEF SyTogether, SyOffsetKnown, SyNoTs
<1>2. t.t1[1] \in Int /\ t.t2[1] \in Int /\ t.delay \in Int
  BY <1>1 DEF SyTsps
<1>3. t.mode \in {"raw", "raw_weight"} => SyGetRawDelay(t) \in Int
  BY <1>1, SyDelayClose DEF SyOffsetKnown, SyNoTs
<1> DEFINE e == IF t.mode \in {"raw", "raw_weight"} THEN SyGetRawDelay(t) ELSE t.delay
<1>4. e \in Int
  BY <1>2, <1>3
<1>5. SyOffset(t) = 2 * (t.t2[1] - t.t1[1]) - e
  BY DEF SyOffset
<1> HIDE DEF e
<1>6. QED
  BY <1>2, <1>4, <1>5

\* The servo keeps its fields.
LEMMA SyServoFields ==
  ASSUME NEW v, DOMAIN v = SyServo, NEW offset, NEW second
  PROVE  DOMAIN SyServoSample(v, offset, second) = SyServo
<1> DEFINE w == SyPiSample(v, offset, second)
<1>1. DOMAIN w = SyServo
  BY DEF SyPiSample
<1> HIDE DEF w
<1>2. QED
  BY <1>1 DEF SyServoSample, w

\* clock_synchronize either takes the two stamps, or takes them, steps the clock and starts the
\* stamps over; then it says "JUMP".  The rest of what a message finds stays.
SySynchronized(st, c, ingress, origin) ==
  /\ DOMAIN c = SyFields /\ DOMAIN c.srv = SyServo
  /\ c.state = st.state /\ c.last = st.last /\ c.reqs = st.reqs /\ c.mixed = st.mixed /\ c.crossed = st.crossed
  /\ \/ c.off = st.off /\ c.tsp = SyDownTs(st.tsp, origin, ingress)
     \/ c.off \in Int /\ c.tsp = SyReset(SyDownTs(st.tsp, origin, ingress), FALSE) /\ c.srv.answer = "JUMP"

LEMMA SyClockFacts ==
  ASSUME NEW best, NEW st, SyHolds(best, st), NEW ingress \in Int, SyNear(st.off, ingress), NEW origin \in Int,
         NEW second
  PROVE  SySynchronized(st, SyClockSynchronize(st, ingress, origin, second), ingress, origin)
<1> DEFINE t == SyDownTs(st.tsp, origin, ingress)
           offset == SyOffset(t)
           v == SyServoSample(st.srv, offset, second)
           row == IF SyAbs(offset) >= SyThreshold THEN 0 ELSE IF st.row < SyNum THEN st.row + 1 ELSE st.row
           newrow == IF v.state \in {"UNLOCKED", "JUMP"} THEN 0 ELSE row
           newhasty == st.hasty \/ (v.state = "LOCKED_STABLE" /\ st.srv.state = "LOCKED" /\ row < SyNum)
           seen == [st EXCEPT !.tsp = t, !.srv = v, !.row = newrow, !.hasty = newhasty]
           a == [st EXCEPT !.tsp = t, !.srv = [st.srv EXCEPT !.answer = "UNLOCKED"]]
           b == [seen EXCEPT !.off = seen.off - (offset \div 2), !.tsp = SyReset(seen.tsp, FALSE),
                             !.srv = [v EXCEPT !.answer = "JUMP"]]
           c == [seen EXCEPT !.srv = [v EXCEPT !.answer = v.state]]
<1>1. DOMAIN st = SyFields /\ DOMAIN st.srv = SyServo /\ st.off \in Int
  BY DEF SyHolds
<1>2. DOMAIN v = SyServo
  BY <1>1, SyServoFields
<1>3. SyTogether(st.off, t)
  BY <1>1, SyDownFacts DEF SyHolds
<1>4. SyClockSynchronize(st, ingress, origin, second)
        = IF ~SyOffsetKnown(t) THEN a ELSE IF v.state = "JUMP" THEN b ELSE c
  BY <1>1 DEF SyClockSynchronize, SyFields
<1> HIDE DEF t, offset, v, newrow, newhasty
<1>5. /\ DOMAIN seen = SyFields /\ seen.tsp = t /\ seen.srv = v /\ seen.off = st.off
      /\ seen.state = st.state /\ seen.last = st.last /\ seen.reqs = st.reqs
      /\ seen.mixed = st.mixed /\ seen.crossed = st.crossed
  BY <1>1 DEF SyFields
<1> HIDE DEF seen
<1>6. SySynchronized(st, a, ingress, origin)
  BY <1>1 DEF SySynchronized, SyFields, SyServo, t
<1>7. SySynchronized(st, c, ingress, origin)
  BY <1>2, <1>5 DEF SySynchronized, SyFields, SyServo, t
<1>8. ASSUME SyOffsetKnown(t) PROVE SySynchronized(st, b, ingress, origin)
  <2>1. offset \in Int
    BY <1>1, <1>3, <1>8, SyOffsetInt DEF offset
  <2>2. seen.off - (offset \div 2) \in Int
    BY <1>1, <1>5, <2>1
  <2>3. /\ DOMAIN b = SyFields /\ b.srv = [v EXCEPT !.answer = "JUMP"] /\ b.tsp = SyReset(t, FALSE)
        /\ b.off = seen.off - (offset \div 2)
        /\ b.state = st.state /\ b.last = st.last /\ b.reqs = st.reqs /\ b.mixed = st.mixed /\ b.crossed = st.crossed
    BY <1>5 DEF SyFields
  <2>4. DOMAIN b.srv = SyServo /\ b.srv.answer = "JUMP"
    BY <1>2, <2>3 DEF SyServo
  <2> HIDE DEF b
  <2>5. QED
    BY <2>2, <2>3, <2>4 DEF SySynchronized, t
<1>9. QED
  BY <1>4, <1>6, <1>7, <1>8

\* port_synchronize: what waits is dropped or kept, and dropped once the clock was stepped.
SyPortDone(c, p) ==
  /\ DOMAIN p = SyFields /\ DOMAIN p.srv = SyServo
  /\ p.off = c.off /\ p.tsp = c.tsp /\ p.mixed = c.mixed /\ p.crossed = c.crossed
  /\ p.last \in {c.last, << >>} /\ p.reqs \in {c.reqs, << >>}
  /\ c.srv.answer = "JUMP" => p.reqs = << >>

LEMMA SyUncalibratedFacts ==
  ASSUME NEW c, DOMAIN c = SyFields, DOMAIN c.srv = SyServo, NEW u, u = SyUncalibrated(c)
  PROVE  /\ DOMAIN u = SyFields /\ u.srv = c.srv
         /\ u.off = c.off /\ u.tsp = c.tsp /\ u.mixed = c.mixed /\ u.crossed = c.crossed
         /\ u.last \in {c.last, << >>} /\ u.reqs \in {c.reqs, << >>}
<1>1. CASE c.state = "UNCALIBRATED"
  BY <1>1 DEF SyUncalibrated
<1>2. CASE c.state # "UNCALIBRATED"
  <2>1. u = [c EXCEPT !.state = "UNCALIBRATED", !.last = << >>, !.reqs = << >>]
    BY <1>2 DEF SyUncalibrated
  <2>2. QED
    BY <2>1 DEF SyFields
<1>3. QED
  BY <1>1, <1>2

LEMMA SyPortFacts ==
  ASSUME NEW best, NEW st, SyHolds(best, st), NEW ingress \in Int, SyNear(st.off, ingress), NEW origin \in Int,
         NEW second
  PROVE  LET c == SyClockSynchronize(st, ingress, origin, second)
         IN  SyPortDone(c, SyPortSynchronize(st, ingress, origin, second))
<1> DEFINE c == SyClockSynchronize(st, ingress, origin, second)
           r == [c EXCEPT !.srv = SyServoReset(c.srv)]
           u == SyUncalibrated(c)
           w == SyUncalibrated(r)
           p1 == [u EXCEPT !.ival = "initial"]
           p2 == [u EXCEPT !.reqs = << >>]
           p3 == [c EXCEPT !.state = "SLAVE"]
           p4 == [c EXCEPT !.state = "SLAVE", !.ival = "oper"]
<1>1. SySynchronized(st, c, ingress, origin)
  BY SyClockFacts
<1>2. DOMAIN c = SyFields /\ DOMAIN c.srv = SyServo
  BY <1>1 DEF SySynchronized
<1>3. SyPortSynchronize(st, ingress, origin, second)
        = CASE c.srv.answer = "UNLOCKED" -> p1
            [] c.srv.answer = "JUMP" -> p2
            [] c.srv.answer = "LOCKED" -> p3
            [] c.srv.answer = "LOCKED_STABLE" /\ st.srv.state = "LOCKED" -> p4
            [] c.srv.answer = "LOCKED_STABLE" /\ c.ival # "oper" -> w
            [] OTHER -> c
  BY <1>2 DEF SyPortSynchronize, SyFields
<1> HIDE DEF c
<1>4. DOMAIN r = SyFields /\ DOMAIN r.srv = SyServo /\ r.off = c.off /\ r.tsp = c.tsp /\ r.mixed = c.mixed
      /\ r.crossed = c.crossed /\ r.last = c.last /\ r.reqs = c.reqs
  BY <1>2 DEF SyServoReset, SyFields, SyServo
<1> HIDE DEF r
<1>5. /\ DOMAIN u = SyFields /\ u.srv = c.srv
      /\ u.off = c.off /\ u.tsp = c.tsp /\ u.mixed = c.mixed /\ u.crossed = c.crossed
      /\ u.last \in {c.last, << >>} /\ u.reqs \in {c.reqs, << >>}
  BY <1>2, SyUncalibratedFacts
<1>6. /\ DOMAIN w = SyFields /\ w.srv = r.srv
      /\ w.off = r.off /\ w.tsp = r.tsp /\ w.mixed = r.mixed /\ w.crossed = r.crossed
      /\ w.last \in {r.last, << >>} /\ w.reqs \in {r.reqs, << >>}
  BY <1>4, SyUncalibratedFacts
<1> HIDE DEF u, w
<1>7. c.srv.answer = "UNLOCKED" => SyPortDone(c, p1)
  BY <1>2, <1>5 DEF SyPortDone, SyFields
<1>8. SyPortDone(c, p2)
  BY <1>2, <1>5 DEF SyPortDone, SyFields
<1>9. c.srv.answer = "LOCKED" => SyPortDone(c, p3)
  BY <1>2 DEF SyPortDone, SyFields
<1>10. c.srv.answer = "LOCKED_STABLE" => SyPortDone(c, p4) /\ SyPortDone(c, w)
  BY <1>2, <1>4, <1>6 DEF SyPortDone, SyFields
<1>11. c.srv.answer # "JUMP" => SyPortDone(c, c)
  BY <1>2 DEF SyPortDone
<1> HIDE DEF p1, p2, p3, p4
<1>12. CASE c.srv.answer = "UNLOCKED"
  BY <1>3, <1>7, <1>12 DEF c
<1>13. CASE c.srv.answer = "JUMP"
  BY <1>3, <1>8, <1>13 DEF c
<1>14. CASE c.srv.answer = "LOCKED"
  BY <1>3, <1>9, <1>14 DEF c
<1>15. CASE c.srv.answer = "LOCKED_STABLE"
  <2>1. SyPortSynchronize(st, ingress, origin, second) \in {p4, w, c}
    BY <1>3, <1>15
  <2>2. QED
    BY <1>10, <1>11, <1>15, <2>1 DEF c
<1>16. CASE c.srv.answer \notin {"UNLOCKED", "JUMP", "LOCKED", "LOCKED_STABLE"}
  BY <1>3, <1>11, <1>16 DEF c
<1>17. QED
  BY <1>12, <1>13, <1>14, <1>15, <1>16

\* Whatever the clock did with a pair of stamps, the rest agrees with where the clock is now, as
\* long as nothing waits any more.
LEMMA SyTaken ==
  ASSUME NEW best, NEW st, SyHolds(best, st), NEW ingress \in Int, SyNear(st.off, ingress), NEW origin \in Int,
         NEW second, NEW crossed \in BOOLEAN, st.crossed => crossed, ~crossed => origin = SyTime[best],
         NEW q,
         q = [SyPortSynchronize(st, ingress, origin, second) EXCEPT !.last = << >>, !.mixed = FALSE, !.crossed = crossed]
  PROVE  SyHolds(best, q)
<1> DEFINE c == SyClockSynchronize(st, ingress, origin, second)
           p == SyPortSynchronize(st, ingress, origin, second)
           t == SyDownTs(st.tsp, origin, ingress)
<1>1. SySynchronized(st, c, ingress, origin)
  BY SyClockFacts
<1>2. SyPortDone(c, p)
  BY SyPortFacts
<1>3. /\ DOMAIN st = SyFields /\ st.off \in Int /\ st.crossed \in BOOLEAN
      /\ SyTogether(st.off, st.tsp) /\ (~st.crossed => SyOneTime(best, st.tsp)) /\ st.reqs \in SyAsked(st.off)
  BY DEF SyHolds
<1>4. SyTogether(st.off, t) /\ (~crossed => SyOneTime(best, t))
  BY <1>3, SyDownFacts
<1> HIDE DEF c, p, t
<1>5. /\ DOMAIN q = SyFields /\ DOMAIN q.srv = SyServo /\ q.off = c.off /\ q.tsp = c.tsp
      /\ q.mixed = FALSE /\ q.crossed = crossed /\ q.last = << >> /\ q.reqs = p.reqs
  <2>1. q = [p EXCEPT !.last = << >>, !.mixed = FALSE, !.crossed = crossed]
    BY DEF p
  <2>2. QED
    BY <1>2, <2>1 DEF SyPortDone, SyFields
<1>6. << >> \in SyAsked(q.off)
  BY DEF SyAsked
<1>7. CASE c.off = st.off /\ c.tsp = t
  <2>1. q.reqs \in SyAsked(q.off)
    BY <1>1, <1>2, <1>3, <1>5, <1>6, <1>7 DEF SyPortDone, SySynchronized
  <2>2. q.off \in Int /\ SyTogether(q.off, q.tsp) /\ (~q.crossed => SyOneTime(best, q.tsp))
    BY <1>3, <1>4, <1>5, <1>7
  <2>3. QED
    BY <1>5, <2>1, <2>2 DEF SyHolds, SyKept
<1>8. CASE c.off \in Int /\ c.tsp = SyReset(t, FALSE) /\ c.srv.answer = "JUMP"
  <2>1. q.reqs = << >>
    BY <1>2, <1>5, <1>8 DEF SyPortDone
  <2>2. SyTogether(c.off, SyReset(t, FALSE)) /\ (SyOneTime(best, t) => SyOneTime(best, SyReset(t, FALSE)))
    BY <1>3, <1>4, <1>8, SyResetFacts
  <2>3. QED
    BY <1>4, <1>5, <1>6, <1>8, <2>1, <2>2 DEF SyHolds, SyKept
<1>9. QED
  BY <1>1, <1>7, <1>8 DEF SySynchronized, t

----------------------------------------------------------------------------
(* The steps.                                                               *)

LEMMA SyTimeInt == ASSUME NEW m \in SyMasters PROVE SyTime[SyGm[m]] \in Int
BY SyAssumption

LEMMA SyStFields ==
  /\ DOMAIN SySt = SyFields
  /\ SySt.state = syState /\ SySt.last = syLast /\ SySt.mixed = syMixed /\ SySt.crossed = syCrossed /\ SySt.reqs = syReqs
  /\ SySt.tsp = syTsp /\ SySt.srv = sySrv /\ SySt.off = syOff
BY DEF SySt, SyFields

\* What a message leaves becomes the state.
LEMMA SyBecomesHolds ==
  ASSUME NEW best, NEW st, SyHolds(best, st), SyBecomes(st)
  PROVE  SyHolds(best, SySt)'
<1>1. /\ SySt'.last = st.last /\ SySt'.mixed = st.mixed /\ SySt'.crossed = st.crossed /\ SySt'.reqs = st.reqs
      /\ SySt'.tsp = st.tsp /\ SySt'.off = st.off /\ SySt'.srv = [st.srv EXCEPT !.answer = "none"]
      /\ DOMAIN SySt' = SyFields
  BY DEF SyBecomes, SySt, SyFields
<1>2. DOMAIN SySt'.srv = SyServo
  BY <1>1 DEF SyHolds, SyServo
<1>3. SyHolds(best, SySt')
  BY <1>1, <1>2 DEF SyHolds
<1>4. QED
  BY <1>3 DEF SyHolds

\* port_syfufsm, for a message of the parent that bears the error of the clock now
LEMMA SySyFuHolds ==
  ASSUME NEW best, NEW st, SyHolds(best, st), NEW msg \in SyMsgs, msg.kind = "sync" => msg.ts = st.off,
         best = SyGm[msg.m], NEW match \in BOOLEAN, NEW second,
         match => /\ st.last # << >> /\ st.last[1].n = msg.n
                  /\ st.last[1].kind = (IF msg.kind = "sync" THEN "fup" ELSE "sync")
  PROVE  SyHolds(best, SySyFuFsm(st, msg, match, second))
<1>1. /\ DOMAIN st = SyFields /\ DOMAIN st.srv = SyServo /\ st.off \in Int /\ st.mixed = FALSE /\ st.crossed \in BOOLEAN
      /\ SyTogether(st.off, st.tsp) /\ (~st.crossed => SyOneTime(best, st.tsp))
      /\ SyKept(st.off, st.last) /\ st.reqs \in SyAsked(st.off)
  BY DEF SyHolds
<1>2. SyNear(st.off, st.off)
  BY DEF SyNear
<1>3. CASE ~match
  <2> DEFINE q == [st EXCEPT !.last = <<msg>>]
  <2>1. SySyFuFsm(st, msg, match, second) = q
    BY <1>3 DEF SySyFuFsm
  <2>2. /\ DOMAIN q = SyFields /\ q.srv = st.srv /\ q.off = st.off /\ q.mixed = st.mixed /\ q.crossed = st.crossed
        /\ q.tsp = st.tsp /\ q.reqs = st.reqs /\ q.last = <<msg>>
    BY <1>1 DEF SyFields
  <2> HIDE DEF q
  <2>3. q.last[1] = msg
    BY <2>2
  <2>4. SyKept(q.off, q.last)
    BY <1>2, <2>2, <2>3 DEF SyKept
  <2>5. QED
    BY <1>1, <2>1, <2>2, <2>4 DEF SyHolds
<1>4. CASE match
  <2> DEFINE sync == IF msg.kind = "sync" THEN msg ELSE st.last[1]
             fup == IF msg.kind = "fup" THEN msg ELSE st.last[1]
             p == SyPortSynchronize(st, sync.ts, SyTime[SyGm[fup.m]], second)
             crossed == st.crossed \/ SyGm[sync.m] # SyGm[fup.m]
             q == [p EXCEPT !.last = << >>, !.mixed = FALSE, !.crossed = crossed]
  <2>1. /\ st.last[1] \in SyMsgs /\ (st.last[1].kind = "sync" => SyNear(st.off, st.last[1].ts))
        /\ st.last[1].n = msg.n
    BY <1>1, <1>4 DEF SyKept
  <2>2. /\ sync \in SyMsgs /\ fup \in SyMsgs /\ sync.n = fup.n /\ SyNear(st.off, sync.ts)
        /\ best = SyGm[sync.m] \/ best = SyGm[fup.m]
    <3>1. CASE msg.kind = "sync"
      BY <1>2, <2>1, <3>1, <1>4
    <3>2. CASE msg.kind = "fup"
      BY <1>4, <2>1, <3>2
    <3>3. msg.kind \in {"sync", "fup"}
      BY DEF SyMsgs
    <3>4. QED
      BY <3>1, <3>2, <3>3
  <2> HIDE DEF sync, fup
  <2>3. SyTime[SyGm[fup.m]] \in Int /\ sync.ts \in Int /\ crossed \in BOOLEAN
    BY <1>1, <2>2, SyTimeInt DEF SyMsgs
  <2>4. st.crossed => crossed
    OBVIOUS
  <2>5. ~crossed => SyTime[SyGm[fup.m]] = SyTime[best]
    BY <2>2
  <2>6. SyHolds(best, q)
    <3> HIDE DEF crossed
    <3> QED BY <2>2, <2>3, <2>4, <2>5, SyTaken
  <2>7. SySyFuFsm(st, msg, match, second)
          = [p EXCEPT !.last = << >>, !.mixed = @ \/ (sync.m = fup.m /\ sync.n # fup.n),
                      !.crossed = @ \/ SyGm[sync.m] # SyGm[fup.m]]
    BY <1>4 DEF SySyFuFsm, sync, fup
  <2>8. DOMAIN p = SyFields /\ p.mixed = FALSE /\ p.crossed = st.crossed
    <3> DEFINE c == SyClockSynchronize(st, sync.ts, SyTime[SyGm[fup.m]], second)
    <3>1. SySynchronized(st, c, sync.ts, SyTime[SyGm[fup.m]])
      BY <2>2, <2>3, SyClockFacts
    <3>2. SyPortDone(c, p)
      BY <2>2, <2>3, SyPortFacts
    <3> HIDE DEF c, p
    <3>3. QED
      BY <1>1, <3>1, <3>2 DEF SySynchronized, SyPortDone
  <2> HIDE DEF p
  <2>9. (p.mixed \/ (sync.m = fup.m /\ sync.n # fup.n)) = FALSE
    BY <2>2, <2>8
  <2>10. (p.crossed \/ SyGm[sync.m] # SyGm[fup.m]) = crossed
    BY <2>8
  <2>11. SySyFuFsm(st, msg, match, second) = q
    <3> DEFINE mx == p.mixed \/ (sync.m = fup.m /\ sync.n # fup.n)
               cr == p.crossed \/ SyGm[sync.m] # SyGm[fup.m]
    <3>1. SySyFuFsm(st, msg, match, second) = [p EXCEPT !.last = << >>, !.mixed = mx, !.crossed = cr]
      BY <2>7, <2>8 DEF SyFields
    <3>2. mx = FALSE /\ cr = crossed
      BY <2>9, <2>10
    <3> HIDE DEF mx, cr, crossed
    <3>3. QED
      BY <3>1, <3>2
  <2>12. QED
    BY <2>6, <2>11
<1>5. QED
  BY <1>3, <1>4

LEMMA SyInitInv == SyInit => SyInv
<1> SUFFICES ASSUME SyInit PROVE SyInv
  OBVIOUS
<1>1. /\ syParent \in SyMasters /\ syBest = SyGm[syParent] /\ syLast = << >> /\ syMixed = FALSE /\ syCrossed = FALSE
      /\ syReqs = << >> /\ syOff = 0
  BY DEF SyInit
<1>2. sySrv = [count |-> 0, state |-> "UNLOCKED", answer |-> "none", left |-> SyNum]
  BY DEF SyInit
<1>3. DOMAIN sySrv = SyServo
  BY <1>2 DEF SyServo
<1>4. PICK mode \in SyModes :
        syTsp = [mode |-> mode, t1 |-> SyNoTs, t2 |-> SyNoTs, t3 |-> SyNoTs, t4 |-> SyNoTs, delay |-> 0, valid |-> FALSE]
  BY DEF SyInit
<1>5. << >> \in Seq(Int)
  OBVIOUS
<1>6. syTsp \in SyTsps /\ syTsp.t1 = << >> /\ syTsp.t2 = << >> /\ syTsp.t3 = << >> /\ syTsp.t4 = << >> /\ syTsp.valid = FALSE
  BY <1>4, <1>5 DEF SyTsps, SyNoTs
<1>7. SyTogether(syOff, syTsp) /\ SyOneTime(syBest, syTsp)
  BY <1>6 DEF SyTogether, SyOneTime
<1>8. syReqs \in SyAsked(syOff)
  BY <1>1 DEF SyAsked
<1>9. SyHolds(syBest, SySt)
  <2>1. /\ DOMAIN SySt = SyFields /\ SySt.srv = sySrv /\ SySt.off = syOff /\ SySt.mixed = FALSE /\ SySt.crossed = FALSE
        /\ SySt.tsp = syTsp /\ SySt.last = << >> /\ SySt.reqs = syReqs
    BY <1>1, SyStFields
  <2>2. syOff \in Int
    BY <1>1
  <2>3. QED
    BY <1>3, <1>7, <1>8, <2>1, <2>2 DEF SyHolds, SyKept
<1>10. QED
  BY <1>1, <1>9 DEF SyInv

\* A step of the port that keeps its parent, with what it leaves in port and clock
LEMMA SyStays ==
  ASSUME SyInv, NEW st, SyHolds(syBest, st), SyBecomes(st), UNCHANGED <<syParent, syBest>>
  PROVE  SyInv'
<1>1. PICK b : b = syBest
  OBVIOUS
<1>2. SyHolds(b, SySt)'
  BY <1>1, SyBecomesHolds
<1>3. syBest' = b
  BY <1>1
<1>4. SyHolds(syBest, SySt)'
  BY <1>2, <1>3
<1>5. QED
  BY <1>4 DEF SyInv

LEMMA SySyncStep ==
  ASSUME SyInv, NEW m \in SyMasters, NEW n \in 1..SySyncs, NEW oneStep \in BOOLEAN, NEW late \in BOOLEAN, NEW second,
         SyProcessSync(m, n, oneStep, late, second)
  PROVE  SyInv'
<1> DEFINE msg == [kind |-> "sync", m |-> m, n |-> n, ts |-> syOff]
           match == syLast # << >> /\ syLast[1].kind = "fup" /\ SyMatchable(late) /\ SyMatch(syLast[1], msg)
           p == SyPortSynchronize(SySt, syOff, SyTime[SyGm[m]], second)
           one == [p EXCEPT !.last = << >>]
           two == SySyFuFsm(SySt, msg, match, second)
<1>1. SyHolds(syBest, SySt) /\ syParent \in SyMasters /\ syBest = SyGm[syParent]
  BY DEF SyInv
<1>2. /\ m = syParent /\ UNCHANGED <<syParent, syBest>>
      /\ SyBecomes(IF oneStep THEN one ELSE two)
  BY DEF SyProcessSync, SyFromParent
<1>3. syOff \in Int /\ SySt.off = syOff /\ syCrossed \in BOOLEAN /\ SySt.crossed = syCrossed /\ SySt.last = syLast
  BY <1>1, SyStFields DEF SyHolds
<1>4. msg \in SyMsgs /\ msg.kind = "sync" /\ msg.ts = syOff /\ msg.m = m /\ msg.n = n
  BY <1>3 DEF SyMsgs
<1>5. match \in BOOLEAN /\ (match => syLast # << >> /\ syLast[1].kind = "fup" /\ syLast[1].n = msg.n)
  BY DEF SyMatch
<1>6. SyHolds(syBest, two)
  <2> HIDE DEF msg, match
  <2> QED BY <1>1, <1>2, <1>3, <1>4, <1>5, SySyFuHolds
<1>7. SyHolds(syBest, one)
  <2> DEFINE c == SyClockSynchronize(SySt, syOff, SyTime[SyGm[m]], second)
             q == [p EXCEPT !.last = << >>, !.mixed = FALSE, !.crossed = syCrossed]
  <2>1. SyNear(SySt.off, syOff) /\ SyTime[SyGm[m]] \in Int
    BY <1>3, SyTimeInt DEF SyNear
  <2>2. SyHolds(syBest, q)
    BY <1>1, <1>2, <1>3, <2>1, SyTaken
  <2>3. SySynchronized(SySt, c, syOff, SyTime[SyGm[m]])
    BY <1>1, <1>3, <2>1, SyClockFacts
  <2>4. SyPortDone(c, p)
    BY <1>1, <1>3, <2>1, SyPortFacts
  <2> HIDE DEF c, p
  <2>5. DOMAIN p = SyFields /\ p.mixed = FALSE /\ p.crossed = syCrossed
    BY <1>1, <1>3, <2>3, <2>4 DEF SySynchronized, SyPortDone, SyHolds
  <2>6. /\ DOMAIN one = SyFields /\ one.srv = q.srv /\ one.off = q.off /\ one.mixed = q.mixed /\ one.crossed = q.crossed
        /\ one.tsp = q.tsp /\ one.last = q.last /\ one.reqs = q.reqs
    BY <2>5 DEF SyFields
  <2> HIDE DEF one, q
  <2>7. QED
    BY <2>2, <2>6 DEF SyHolds
<1> HIDE DEF one, two
<1>8. CASE oneStep
  BY <1>2, <1>7, <1>8, SyStays
<1>9. CASE ~oneStep
  BY <1>2, <1>6, <1>9, SyStays
<1>10. QED
  BY <1>8, <1>9

LEMMA SyFollowUpStep ==
  ASSUME SyInv, NEW m \in SyMasters, NEW n \in 1..SySyncs, NEW second, SyProcessFollowUp(m, n, second)
  PROVE  SyInv'
<1> DEFINE msg == [kind |-> "fup", m |-> m, n |-> n, ts |-> 0]
           match == syLast # << >> /\ syLast[1].kind = "sync" /\ SyMatch(syLast[1], msg)
           two == SySyFuFsm(SySt, msg, match, second)
<1>1. SyHolds(syBest, SySt) /\ syParent \in SyMasters /\ syBest = SyGm[syParent]
  BY DEF SyInv
<1>2. m = syParent /\ UNCHANGED <<syParent, syBest>> /\ SyBecomes(two)
  BY DEF SyProcessFollowUp, SyFromParent
<1>3. SySt.last = syLast
  BY SyStFields
<1>4. msg \in SyMsgs /\ msg.kind = "fup" /\ msg.m = m /\ msg.n = n
  BY DEF SyMsgs
<1>5. match \in BOOLEAN /\ (match => syLast # << >> /\ syLast[1].kind = "sync" /\ syLast[1].n = msg.n)
  BY DEF SyMatch
<1>6. SyHolds(syBest, two)
  <2> HIDE DEF msg, match
  <2> QED BY <1>1, <1>2, <1>3, <1>4, <1>5, SySyFuHolds
<1> HIDE DEF two
<1>7. QED
  BY <1>2, <1>6, SyStays

\* One field of port and clock changes, to a value that agrees with the clock.
LEMMA SyOneField ==
  ASSUME SyInv, NEW best,
         NEW q, DOMAIN q = SyFields, DOMAIN q.srv = SyServo, q.off = syOff, q.mixed = syMixed, q.crossed = syCrossed,
         SyTogether(syOff, q.tsp), ~syCrossed => SyOneTime(best, q.tsp),
         q.last \in {syLast, << >>}, q.reqs \in SyAsked(syOff)
  PROVE  SyHolds(best, q)
<1>1. SyHolds(syBest, SySt)
  BY DEF SyInv
<1>2. syOff \in Int /\ syMixed = FALSE /\ syCrossed \in BOOLEAN /\ SyKept(syOff, syLast)
  BY <1>1, SyStFields DEF SyHolds
<1>3. SyKept(q.off, q.last)
  BY <1>2 DEF SyKept
<1>4. QED
  BY <1>2, <1>3 DEF SyHolds

LEMMA SyParts ==
  ASSUME SyInv
  PROVE  /\ syOff \in Int /\ SyTogether(syOff, syTsp) /\ (~syCrossed => SyOneTime(syBest, syTsp))
         /\ syReqs \in SyAsked(syOff) /\ DOMAIN sySrv = SyServo /\ syCrossed \in BOOLEAN
         /\ syMixed = FALSE /\ SyKept(syOff, syLast)
BY SyStFields DEF SyInv, SyHolds

LEMMA SyRequestStep ==
  ASSUME SyInv, SyDelayRequest
  PROVE  SyInv'
<1> DEFINE q == [SySt EXCEPT !.reqs = Append(@, syOff)]
<1>1. SyBecomes(q) /\ UNCHANGED <<syParent, syBest>>
  BY DEF SyDelayRequest
<1>2. Append(syReqs, syOff) \in SyAsked(syOff)
  <2>1. syOff \in {x \in Int : SyNear(syOff, x)}
    BY SyParts DEF SyNear
  <2>2. QED
    BY <2>1, SyParts DEF SyAsked
<1>3. /\ DOMAIN q = SyFields /\ q.srv = sySrv /\ q.off = syOff /\ q.mixed = syMixed /\ q.crossed = syCrossed
      /\ q.tsp = syTsp /\ q.last = syLast /\ q.reqs = Append(syReqs, syOff)
  BY SyStFields DEF SyFields
<1> HIDE DEF q
<1>4. SyHolds(syBest, q)
  BY <1>2, <1>3, SyParts, SyOneField
<1>5. QED
  BY <1>1, <1>4, SyStays

LEMMA SyPruneStep ==
  ASSUME SyInv, SyPrune
  PROVE  SyInv'
<1> DEFINE q == [SySt EXCEPT !.reqs = Tail(@)]
<1>1. SyBecomes(q) /\ UNCHANGED <<syParent, syBest>> /\ syReqs # << >>
  BY DEF SyPrune
<1>2. Tail(syReqs) \in SyAsked(syOff)
  BY <1>1, SyParts DEF SyAsked
<1>3. /\ DOMAIN q = SyFields /\ q.srv = sySrv /\ q.off = syOff /\ q.mixed = syMixed /\ q.crossed = syCrossed
      /\ q.tsp = syTsp /\ q.last = syLast /\ q.reqs = Tail(syReqs)
  BY SyStFields DEF SyFields
<1> HIDE DEF q
<1>4. SyHolds(syBest, q)
  BY <1>2, <1>3, SyParts, SyOneField
<1>5. QED
  BY <1>1, <1>4, SyStays

LEMMA SyCheckStep ==
  ASSUME SyInv, SyCheckTs
  PROVE  SyInv'
<1> DEFINE q == [SySt EXCEPT !.srv = SyServoReset(@)]
<1>1. SyBecomes(q) /\ UNCHANGED <<syParent, syBest>>
  BY DEF SyCheckTs
<1>2. /\ DOMAIN q = SyFields /\ q.srv = SyServoReset(sySrv) /\ q.off = syOff /\ q.mixed = syMixed /\ q.crossed = syCrossed
      /\ q.tsp = syTsp /\ q.last = syLast /\ q.reqs = syReqs
  BY SyStFields DEF SyFields
<1>3. DOMAIN q.srv = SyServo
  BY <1>2, SyParts DEF SyServoReset
<1> HIDE DEF q
<1>4. SyHolds(syBest, q)
  BY <1>2, <1>3, SyParts, SyOneField
<1>5. QED
  BY <1>1, <1>4, SyStays

LEMMA SyDelayRespStep ==
  ASSUME SyInv, NEW m \in SyMasters, NEW i \in 1..SyReqs, SyProcessDelayResp(m, i)
  PROVE  SyInv'
<1> DEFINE u == SyPathDelay(syTsp, syReqs[i], SyTime[SyGm[m]])
           q == [SySt EXCEPT !.tsp = SyPathDelay(@, syReqs[i], SyTime[SyGm[m]]), !.reqs = RemoveAt(@, i)]
           S == {x \in Int : SyNear(syOff, x)}
<1>1. /\ SyBecomes(q) /\ UNCHANGED <<syParent, syBest>> /\ i \in DOMAIN syReqs
      /\ SyTime[SyGm[m]] = SyTime[syBest]
  BY DEF SyProcessDelayResp, SyFromParent, SyInv
<1>2. syReqs \in Seq(S)
  BY SyParts DEF SyAsked
<1>3. /\ SubSeq(syReqs, 1, i - 1) \in Seq(S) /\ SubSeq(syReqs, i + 1, Len(syReqs)) \in Seq(S)
      /\ syReqs[i] \in S
  <2> HIDE DEF S
  <2>1. i \in 1..Len(syReqs) /\ Len(syReqs) \in Nat
    BY <1>1, <1>2
  <2>2. syReqs[i] \in S
    BY <1>2, <2>1, ElementOfSeq
  <2>3. SubSeq(syReqs, 1, i - 1) \in Seq(S)
    <3>1. \A j \in 1..(i - 1) : syReqs[j] \in S
      BY <1>2, <2>1, ElementOfSeq
    <3>2. QED
      BY <1>2, <2>1, <3>1, SubSeqProperties
  <2>4. SubSeq(syReqs, i + 1, Len(syReqs)) \in Seq(S)
    BY <1>2, <2>1, SubSeqProperties
  <2>5. QED
    BY <2>2, <2>3, <2>4
<1>4. RemoveAt(syReqs, i) \in SyAsked(syOff)
  BY <1>3 DEF RemoveAt, SyAsked
<1>5. syReqs[i] \in Int /\ SyNear(syOff, syReqs[i])
  BY <1>3
<1>6. SyTogether(syOff, u) /\ (~syCrossed => SyOneTime(syBest, u))
  BY <1>1, <1>5, SyParts, SyPathFacts, SyTimeInt
<1>7. /\ DOMAIN q = SyFields /\ q.srv = sySrv /\ q.off = syOff /\ q.mixed = syMixed /\ q.crossed = syCrossed
      /\ q.tsp = u /\ q.last = syLast /\ q.reqs = RemoveAt(syReqs, i)
  BY SyStFields DEF SyFields
<1> HIDE DEF q, u
<1>8. SyHolds(syBest, q)
  BY <1>4, <1>6, <1>7, SyParts, SyOneField
<1>9. QED
  BY <1>1, <1>8, SyStays

LEMMA SyNewParentStep ==
  ASSUME SyInv, NEW m \in SyMasters, SyNewParent(m)
  PROVE  SyInv'
<1> DEFINE r == [SySt EXCEPT !.tsp = SyReset(@, TRUE)]
           q == SyUncalibrated(r)
<1>1. /\ syParent' = m /\ syBest' = SyGm[m]
      /\ SyBecomes(IF SyGm[m] = syBest THEN SySt ELSE q)
  BY DEF SyNewParent
<1>2. CASE SyGm[m] = syBest
  <2>1. PICK b : b = syBest
    OBVIOUS
  <2>2. SyHolds(b, SySt) /\ SyBecomes(SySt)
    BY <1>1, <1>2, <2>1 DEF SyInv
  <2>3. SyHolds(b, SySt)'
    BY <2>2, SyBecomesHolds
  <2>4. SyHolds(syBest, SySt)'
    BY <1>1, <1>2, <2>1, <2>3
  <2>5. QED
    BY <1>1, <2>4 DEF SyInv
<1>3. CASE SyGm[m] # syBest
  <2>1. PICK b : b = SyGm[m]
    OBVIOUS
  <2>2. SyTogether(syOff, SyReset(syTsp, TRUE)) /\ SyOneTime(b, SyReset(syTsp, TRUE))
    BY SyParts, SyResetFacts
  <2>3. /\ DOMAIN r = SyFields /\ r.srv = sySrv /\ r.off = syOff /\ r.mixed = syMixed /\ r.crossed = syCrossed
        /\ r.tsp = SyReset(syTsp, TRUE) /\ r.last = syLast /\ r.reqs = syReqs
    BY SyStFields DEF SyFields
  <2> HIDE DEF r
  <2>4. /\ DOMAIN q = SyFields /\ q.srv = r.srv
        /\ q.off = r.off /\ q.tsp = r.tsp /\ q.mixed = r.mixed /\ q.crossed = r.crossed
        /\ q.last \in {r.last, << >>} /\ q.reqs \in {r.reqs, << >>}
    BY <2>3, SyParts, SyUncalibratedFacts
  <2> HIDE DEF q
  <2>5. << >> \in SyAsked(syOff)
    BY DEF SyAsked
  <2>6. SyHolds(b, q)
    BY <2>2, <2>3, <2>4, <2>5, SyParts, SyOneField
  <2>7. SyHolds(b, SySt)'
    BY <1>1, <1>3, <2>6, SyBecomesHolds
  <2>8. SyHolds(syBest, SySt)'
    BY <1>1, <2>1, <2>7
  <2>9. QED
    BY <1>1, <2>8 DEF SyInv
<1>4. QED
  BY <1>2, <1>3

\* The clock drifts: the stretch stays, and what was near in it.
LEMMA SyDriftStep ==
  ASSUME SyInv, NEW d \in {-1, 1}, SyDrift(d)
  PROVE  SyInv'
<1>1. /\ (syOff % 10) + d \in 0..SyWander /\ syOff' = syOff + d /\ syOff \in Int
      /\ UNCHANGED <<syState, syParent, syBest, syLast, syMixed, syCrossed, syReqs, syTsp, sySrv>>
  BY SyParts DEF SyDrift
<1>2. \A x \in Int : SyNear(syOff, x) => SyNear(syOff', x)
  BY <1>1, SyDriftNear
<1>3. syOff' \in Int
  BY <1>1
<1>4. SyTogether(syOff', syTsp)
  <2>1. syTsp.t2 # << >> => syTsp.t2[1] \in Int
    BY SyParts DEF SyTogether, SyTsps
  <2>2. syTsp.t3 # << >> => syTsp.t3[1] \in Int
    BY SyParts DEF SyTogether, SyTsps
  <2>3. QED
    BY <1>2, <2>1, <2>2, SyParts DEF SyTogether
<1>5. SyKept(syOff', syLast)
  BY <1>2, SyParts DEF SyKept, SyMsgs
<1>6. syReqs \in SyAsked(syOff')
  <2>1. {x \in Int : SyNear(syOff, x)} \subseteq {x \in Int : SyNear(syOff', x)}
    BY <1>2
  <2>2. QED
    BY <2>1, SyParts DEF SyAsked
<1>7. PICK b : b = syBest
  OBVIOUS
<1>8. /\ DOMAIN SySt' = SyFields /\ SySt'.srv = sySrv /\ SySt'.off = syOff' /\ SySt'.mixed = syMixed
      /\ SySt'.crossed = syCrossed /\ SySt'.tsp = syTsp /\ SySt'.last = syLast /\ SySt'.reqs = syReqs
  BY <1>1 DEF SySt, SyFields
<1>9. SyHolds(b, SySt')
  BY <1>3, <1>4, <1>5, <1>6, <1>7, <1>8, SyParts DEF SyHolds
<1>10. SyHolds(syBest, SySt)'
  BY <1>1, <1>7, <1>9 DEF SyHolds
<1>11. QED
  BY <1>1, <1>10 DEF SyInv

LEMMA SyNextInv == SyInv /\ [SyNext]_syVars => SyInv'
<1> SUFFICES ASSUME SyInv, [SyNext]_syVars PROVE SyInv'
  OBVIOUS
<1>1. CASE UNCHANGED syVars
  <2>1. PICK b : b = syBest
    OBVIOUS
  <2>2. SySt' = SySt /\ syBest' = b /\ syParent' = syParent
    BY <1>1, <2>1 DEF syVars, SySt
  <2>3. SyHolds(b, SySt)
    BY <2>1 DEF SyInv
  <2>4. SyHolds(syBest, SySt)'
    BY <2>2, <2>3 DEF SyHolds
  <2>5. QED
    BY <2>1, <2>2, <2>4 DEF SyInv
<1>2. CASE SyNext
  <2>1. CASE \E m \in SyMasters : SyNewParent(m)
    BY <2>1, SyNewParentStep
  <2>2. ASSUME NEW m \in SyMasters, NEW n \in 1..SySyncs, NEW second, SyProcessFollowUp(m, n, second)
        PROVE  SyInv'
    BY <2>2, SyFollowUpStep
  <2>3. ASSUME NEW m \in SyMasters, NEW n \in 1..SySyncs, NEW second, NEW oneStep \in BOOLEAN, NEW late \in BOOLEAN,
               SyProcessSync(m, n, oneStep, late, second)
        PROVE  SyInv'
    BY <2>3, SySyncStep
  <2>4. CASE \E m \in SyMasters, i \in 1..SyReqs : SyProcessDelayResp(m, i)
    BY <2>4, SyDelayRespStep
  <2>5. CASE \E d \in {-1, 1} : SyDrift(d)
    BY <2>5, SyDriftStep
  <2>6. QED
    BY <1>2, <2>1, <2>2, <2>3, <2>4, <2>5, SyRequestStep, SyPruneStep, SyCheckStep, Zenon DEF SyNext
<1>3. QED
  BY <1>1, <1>2

\* For any masters, grandmasters and times, any number of messages and requests in any order, lost and
\* repeated, and any settings of the servo, as long as the clock drifts less between two steps than
\* what makes a step: no delay is computed from stamps on the two sides of a step or from the times of
\* two grandmasters, unless messages of the two were taken together, and Sync and Follow_Up of one
\* master are of one transmission (port_syfufsm, tsproc_update_delay, clock_synchronize).
THEOREM SyAlwaysSound == SySpec => []SySound
<1>1. SyInv => SySound
  <2> SUFFICES ASSUME SyInv PROVE SySound
    OBVIOUS
  <2>1. syMixed = FALSE
    BY SyParts
  <2>2. syTsp.valid => syCrossed \/ SyAbs(syTsp.delay) <= SyStep
    BY SyParts DEF SyOneTime
  <2>3. QED
    BY <2>1, <2>2 DEF SySound, SyDelaySound, SyPaired
<1>2. QED
  BY <1>1, SyInitInv, SyNextInv, PTL DEF SySpec

\* A set of naturals that is not empty has a least element.
LEMMA LeastOf ==
  ASSUME NEW S, S \subseteq Nat, S # {}
  PROVE  \E i \in S : \A j \in S : i <= j
<1>1. \E k \in S : \A j \in S : <<j, k>> \notin OpToRel(<, Nat)
  BY NatLessThanWellFounded, WFMin
<1>2. PICK k \in S : \A j \in S : <<j, k>> \notin OpToRel(<, Nat)
  BY <1>1
<1>3. \A j \in S : ~(j < k)
  BY <1>2 DEF OpToRel
<1>4. QED
  BY <1>3

----------------------------------------------------------------------------
(* Folds over sequences.  FoldLeft takes the last element off the set of indices until none is left; *)
(* a fold therefore is the last of a chain of values, one for each element.                          *)

\* The table of a fold: what it yields for every set of indices below n + 1
FoldTable(G, base, n, t) ==
  \A s \in SUBSET (1..n) : t[s] = IF s = {} THEN base ELSE G[<<t[s \ {Max(s)}], Max(s)>>]

LEMMA MaxOf ==
  ASSUME NEW n \in Nat, NEW s \in SUBSET (1..n), s # {}
  PROVE  Max(s) \in s /\ \A i \in s : i <= Max(s)
<1> DEFINE Above(i) == \A j \in s : i >= j
           P == {i \in Nat : \A j \in s : j <= i}
<1>1. n \in P
  OBVIOUS
<1>2. PICK m \in P : \A i \in P : m <= i
  <2>1. P \subseteq Nat /\ P # {}
    BY <1>1
  <2> HIDE DEF P
  <2>2. \E m \in P : \A k \in P : <<k, m>> \notin OpToRel(<, Nat)
    BY <2>1, NatLessThanWellFounded, WFMin
  <2>3. PICK m \in P : \A k \in P : <<k, m>> \notin OpToRel(<, Nat)
    BY <2>2
  <2>4. \A k \in P : ~(k < m)
    BY <2>1, <2>3 DEF OpToRel
  <2>5. \A k \in P : m <= k
    BY <2>1, <2>4
  <2>6. QED
    BY <2>5
<1>3. m \in s
  <2>1. SUFFICES ASSUME m \notin s PROVE FALSE
    OBVIOUS
  <2>2. m \in Nat /\ m > 0
    <3>1. PICK j \in s : TRUE
      OBVIOUS
    <3>2. j \in 1..n /\ j <= m /\ m \in Nat
      BY <3>1
    <3>3. QED
      BY <3>2
  <2>3. m - 1 \in P
    BY <2>1, <2>2
  <2>4. QED
    BY <1>2, <2>2, <2>3
<1>4. Above(m)
  BY <1>3
<1>5. Max(s) \in s /\ Above(Max(s))
  <2>1. Max(s) = CHOOSE i \in s : Above(i)
    BY DEF Max
  <2> HIDE DEF Above
  <2>2. QED
    BY <1>3, <1>4, <2>1
<1>6. QED
  BY <1>5

LEMMA FoldTableExists ==
  ASSUME NEW n \in Nat, NEW X, NEW base \in X, NEW G \in [X \X (1..n) -> X]
  PROVE  \E t \in [SUBSET (1..n) -> X] : FoldTable(G, base, n, t)
<1> DEFINE Has(k) == \E t \in [SUBSET (1..k) -> X] : FoldTable(G, base, k, t)
           Bad == {k \in 0..n : ~Has(k)}
<1> HIDE DEF Has
<1> SUFFICES ASSUME Bad # {} PROVE FALSE
  <2>1. SUFFICES Has(n)
    BY DEF Has
  <2>2. n \in 0..n
    OBVIOUS
  <2>3. QED
    BY <2>2
<1>1. PICK k \in Bad : \A j \in Bad : k <= j
  <2>1. Bad \subseteq Nat
    OBVIOUS
  <2> HIDE DEF Bad
  <2>2. \E k \in Bad : \A j \in Bad : <<j, k>> \notin OpToRel(<, Nat)
    BY <2>1, NatLessThanWellFounded, WFMin
  <2>3. PICK k \in Bad : \A j \in Bad : <<j, k>> \notin OpToRel(<, Nat)
    BY <2>2
  <2>4. \A j \in Bad : ~(j < k)
    BY <2>1, <2>3 DEF OpToRel
  <2>5. \A j \in Bad : k <= j
    BY <2>1, <2>4
  <2>6. QED
    BY <2>5
<1>2. Has(0)
  <2> DEFINE t == [s \in SUBSET (1..0) |-> base]
  <2>1. t \in [SUBSET (1..0) -> X]
    OBVIOUS
  <2>2. \A s \in SUBSET (1..0) : s = {}
    OBVIOUS
  <2>3. FoldTable(G, base, 0, t)
    BY <2>2 DEF FoldTable
  <2>4. QED
    BY <2>1, <2>3 DEF Has
<1>3. k \in 1..n /\ ~Has(k)
  BY <1>2
<1>4. k - 1 \in 0..n /\ k - 1 \notin Bad
  BY <1>1, <1>3
<1>5. Has(k - 1)
  BY <1>4
<1>6. PICK t \in [SUBSET (1..(k - 1)) -> X] : FoldTable(G, base, k - 1, t)
  BY <1>5 DEF Has
<1> DEFINE u == [s \in SUBSET (1..k) |-> IF k \in s THEN G[<<t[s \ {k}], k>>] ELSE t[s]]
<1> HIDE DEF Bad
<1>7. \A s \in SUBSET (1..k) : (s \ {k}) \in SUBSET (1..(k - 1)) /\ (k \notin s => s \in SUBSET (1..(k - 1)))
  BY <1>3
<1>8. u \in [SUBSET (1..k) -> X]
  <2>1. ASSUME NEW s \in SUBSET (1..k) PROVE u[s] \in X
    <3>1. CASE k \in s
      BY <1>3, <1>6, <1>7, <3>1
    <3>2. CASE k \notin s
      BY <1>6, <1>7, <3>2
    <3>3. QED
      BY <3>1, <3>2
  <2>2. QED
    BY <2>1
<1>9. FoldTable(G, base, k, u)
  <2> SUFFICES ASSUME NEW s \in SUBSET (1..k)
               PROVE  u[s] = IF s = {} THEN base ELSE G[<<u[s \ {Max(s)}], Max(s)>>]
    BY DEF FoldTable
  <2>1. CASE s = {}
    BY <1>6, <1>7, <2>1 DEF FoldTable
  <2>2. CASE k \in s
    <3>1. Max(s) = k
      <4>1. k \in Nat /\ s # {}
        BY <1>3, <2>2
      <4>2. Max(s) \in s /\ k <= Max(s)
        BY <2>2, <4>1, MaxOf
      <4>3. Max(s) \in 1..k
        BY <4>2
      <4>4. QED
        BY <4>1, <4>2, <4>3
    <3>2. u[s \ {k}] = t[s \ {k}]
      BY <1>7
    <3>3. QED
      BY <2>2, <3>1, <3>2
  <2>3. CASE k \notin s /\ s # {}
    <3>1. s \in SUBSET (1..(k - 1)) /\ (s \ {Max(s)}) \in SUBSET (1..(k - 1)) /\ k \notin (s \ {Max(s)})
      BY <1>7, <2>3
    <3>2. u[s] = t[s] /\ u[s \ {Max(s)}] = t[s \ {Max(s)}]
      BY <2>3, <3>1, <1>3
    <3>3. QED
      BY <1>6, <2>3, <3>1, <3>2 DEF FoldTable
  <2>4. QED
    BY <2>1, <2>2, <2>3
<1>10. QED
  BY <1>3, <1>8, <1>9 DEF Has


\* A fold that every element keeps in a set ends in it.
FoldRuns(X, G, base, n, T) ==
  T[{}] = base /\ \A i \in 1..n : T[1..(i - 1)] \in X => T[1..i] = G[<<T[1..(i - 1)], i>>]

LEMMA FoldStays ==
  ASSUME NEW n \in Nat, NEW X, NEW base \in X, NEW G \in [X \X (1..n) -> X], NEW T, FoldRuns(X, G, base, n, T)
  PROVE  T[1..n] \in X
<1> DEFINE Bad == {i \in 0..n : T[1..i] \notin X}
<1> SUFFICES ASSUME Bad # {} PROVE FALSE
  OBVIOUS
<1>1. Bad \subseteq Nat
  OBVIOUS
<1>2. PICK i \in Bad : \A j \in Bad : i <= j
  <2> HIDE DEF Bad
  <2> QED BY <1>1, LeastOf
<1>3. (1..0) = {} /\ i \in 0..n /\ T[1..i] \notin X /\ T[{}] = base
  BY <1>2 DEF FoldRuns
<1>4. i \in 1..n /\ i - 1 \in 0..n /\ ~(i <= i - 1)
  BY <1>3
<1>5. T[1..(i - 1)] \in X
  BY <1>2, <1>4
<1>6. T[1..i] \in X
  BY <1>4, <1>5 DEF FoldRuns
<1>7. QED
  BY <1>3, <1>6

----------------------------------------------------------------------------
(* Transparent clocks.                                                      *)

XcPort == 1..XcPorts
XcMsgs == [type : {"SYNC", "FOLLOW_UP", "DELAY_REQ", "DELAY_RESP", "ANNOUNCE"},
           src : XcSources \cup {"slave", "m"}, seq : XcSeqs \cup {0}]
XcTimes == {XcResidence(m, q, p) : m \in XcMsgs, q \in XcPort, p \in XcPort} \cup {<< >>}
\* A descriptor of port p holds the residence time of its own message between its two ports.
XcDesc(p) ==
  {x \in [m : XcMsgs, res : XcTimes, in : XcPort] :
     x.m.type \in {"SYNC", "DELAY_REQ"} => x.res = XcResidence(x.m, x.in, p)}
XcLists == {f \in [XcPort -> Seq(UNION {XcDesc(p) : p \in XcPort})] : \A p \in XcPort : f[p] \in Seq(XcDesc(p))}
XcStates == [XcPort -> {"SLAVE", "MASTER", "PASSIVE", "FAULTY"}]
\* The states of the loop over the ports: the message has the correction it came with, and nothing wrong was sent.
XcLoop == [list : XcLists, state : XcStates, corr : {<< >>}, wrong : {FALSE}, corrupt : BOOLEAN]

LEMMA XcListSet ==
  ASSUME NEW f \in XcLists, NEW p \in XcPort, NEW l \in Seq(XcDesc(p))
  PROVE  [f EXCEPT ![p] = l] \in XcLists
<1> DEFINE g == [f EXCEPT ![p] = l]
           D == UNION {XcDesc(k) : k \in XcPort}
<1>1. f \in [XcPort -> Seq(D)] /\ \A k \in XcPort : f[k] \in Seq(XcDesc(k))
  BY DEF XcLists
<1>2. XcDesc(p) \subseteq D
  OBVIOUS
<1> HIDE DEF D
<1>3. l \in Seq(D)
  BY <1>2
<1>4. g \in [XcPort -> Seq(D)]
  BY <1>1, <1>3
<1>5. \A k \in XcPort : g[k] \in Seq(XcDesc(k))
  BY <1>1
<1>6. QED
  BY <1>4, <1>5 DEF XcLists, D

LEMMA XcRemoved ==
  ASSUME NEW D, NEW l \in Seq(D), NEW i \in DOMAIN l
  PROVE  RemoveAt(l, i) \in Seq(D)
<1>1. i \in 1..Len(l) /\ Len(l) \in Nat
  OBVIOUS
<1>2. SubSeq(l, 1, i - 1) \in Seq(D)
  <2>1. \A k \in 1..(i - 1) : l[k] \in D
    BY <1>1
  <2>2. QED
    BY <1>1, <2>1, SubSeqProperties
<1>3. SubSeq(l, i + 1, Len(l)) \in Seq(D)
  <2>1. \A k \in (i + 1)..Len(l) : l[k] \in D
    BY <1>1
  <2>2. QED
    BY <1>1, <2>1, SubSeqProperties
<1>4. QED
  BY <1>2, <1>3, ConcatProperties DEF RemoveAt

LEMMA XcFaultOk ==
  ASSUME NEW s \in XcLoop, NEW p \in XcPort
  PROVE  XcFault(s, p) \in XcLoop
<1> DEFINE l == [s.list EXCEPT ![p] = << >>]
           w == [s.state EXCEPT ![p] = "FAULTY"]
<1>1. CASE s.state[p] = "FAULTY"
  BY <1>1 DEF XcFault
<1>2. CASE s.state[p] # "FAULTY"
  <2>1. XcFault(s, p) = [s EXCEPT !.state = w, !.list = l]
    BY <1>2 DEF XcFault, XcLoop
  <2>2. s.list \in XcLists /\ s.state \in XcStates
    BY DEF XcLoop
  <2>3. l \in XcLists
    <3>1. << >> \in Seq(XcDesc(p))
      OBVIOUS
    <3>2. QED
      BY <2>2, <3>1, XcListSet
  <2>4. w \in XcStates
    BY <2>2 DEF XcStates
  <2> HIDE DEF l, w
  <2>5. QED
    BY <2>1, <2>3, <2>4 DEF XcLoop
<1>3. QED
  BY <1>1, <1>2

\* What is handed to tc_complete: an event message has its own residence time, another has none yet.
XcTime(m, q, p, res) ==
  res = IF m.type \in {"SYNC", "DELAY_REQ"} THEN XcResidence(m, q, p) ELSE << >>

LEMMA XcLoopSet ==
  ASSUME NEW s \in XcLoop, NEW p \in XcPort, NEW l \in Seq(XcDesc(p))
  PROVE  /\ [s EXCEPT !.list[p] = l] \in XcLoop
         /\ \A b \in BOOLEAN : [s EXCEPT !.corrupt = b] \in XcLoop
<1>1. s.list \in XcLists
  BY DEF XcLoop
<1>2. PICK f : f = [s.list EXCEPT ![p] = l]
  OBVIOUS
<1>3. f \in XcLists
  BY <1>1, <1>2, XcListSet
<1>4. [s EXCEPT !.list[p] = l] = [s EXCEPT !.list = f]
  BY <1>2 DEF XcLoop
<1>5. [s EXCEPT !.list = f] \in XcLoop
  BY <1>3 DEF XcLoop
<1>6. QED
  BY <1>4, <1>5 DEF XcLoop

LEMMA XcListOk ==
  ASSUME NEW s \in XcLoop, NEW p \in XcPort
  PROVE  /\ s.list[p] \in Seq(XcDesc(p))
         /\ \A i \in DOMAIN s.list[p] : s.list[p][i] \in XcDesc(p)
         /\ s.corr = << >> /\ s.wrong = FALSE /\ s.corrupt \in BOOLEAN
<1>1. s.list \in XcLists
  BY DEF XcLoop
<1>2. s.list[p] \in Seq(XcDesc(p))
  BY <1>1 DEF XcLists
<1>3. s.corr = << >> /\ s.wrong = FALSE /\ s.corrupt \in BOOLEAN
  BY DEF XcLoop
<1>4. QED
  BY <1>2, <1>3, ElementOfSeq

LEMMA XcKeepOk ==
  ASSUME NEW s \in XcLoop, NEW q \in XcPort, NEW p \in XcPort, NEW m \in XcMsgs, NEW res, XcTime(m, q, p, res)
  PROVE  XcKeep(s, q, p, m, res) \in XcLoop
<1> DEFINE x == [m |-> m, res |-> res, in |-> q]
<1>1. res \in XcTimes
  BY DEF XcTime, XcTimes
<1>2. x \in XcDesc(p)
  BY <1>1 DEF XcDesc, XcTime
<1>3. PICK l : l = Append(s.list[p], x)
  OBVIOUS
<1> HIDE DEF x
<1>4. l \in Seq(XcDesc(p))
  BY <1>2, <1>3, XcListOk, AppendProperties
<1>5. XcKeep(s, q, p, m, res) = [s EXCEPT !.list[p] = l]
  BY <1>3 DEF XcKeep, x, XcLoop
<1>6. QED
  BY <1>4, <1>5, XcLoopSet

LEMMA XcFound ==
  ASSUME NEW D, NEW l \in Seq(D), NEW I \in SUBSET DOMAIN l, I # {}
  PROVE  (CHOOSE j \in I : TRUE) \in DOMAIN l /\ (CHOOSE j \in I : TRUE) \in I
OBVIOUS

\* tc_complete_syfup
LEMMA XcSyfupOk ==
  ASSUME NEW s \in XcLoop, NEW q \in XcPort, NEW p \in XcPort, NEW m \in XcMsgs, m.type \in {"SYNC", "FOLLOW_UP"},
         NEW res, XcTime(m, q, p, res), NEW sends \in BOOLEAN
  PROVE  XcCompleteSyfup(s, q, p, m, res, sends) \in XcLoop
<1> DEFINE found == {i \in DOMAIN s.list[p] : XcMatchSyfup(q, m, s.list[p][i])
                                              /\ \A j \in 1..(i - 1) : ~XcMatchSyfup(q, m, s.list[p][j])}
           i == CHOOSE j \in found : TRUE
           x == s.list[p][i]
           residence == IF m.type = "FOLLOW_UP" THEN x.res ELSE res
           corr == Append(IF m.type = "FOLLOW_UP" THEN s.corr ELSE << >>, residence)
           t == [s EXCEPT !.corr = IF m.type = "FOLLOW_UP" THEN XcRestored(@, corr) ELSE @,
                          !.wrong = @ \/ (sends /\ ~XcOwn(corr, m, q, p))]
           l == RemoveAt(s.list[p], i)
<1>1. XcCompleteSyfup(s, q, p, m, res, sends) =
        IF found = {} THEN XcKeep(s, q, p, m, res)
        ELSE IF sends \/ s.state[p] = "FAULTY" THEN [t EXCEPT !.list[p] = RemoveAt(@, i)]
        ELSE [XcFault(t, p) EXCEPT !.corrupt = TRUE]
  BY DEF XcCompleteSyfup, XcFirst
<1>2. CASE found = {}
  BY <1>1, <1>2, XcKeepOk
<1>3. CASE found # {}
  <2>1. i \in DOMAIN s.list[p] /\ i \in found
    <3>1. found \subseteq DOMAIN s.list[p] /\ s.list[p] \in Seq(XcDesc(p))
      BY XcListOk
    <3> HIDE DEF found
    <3>2. QED
      BY <1>3, <3>1, XcFound
  <2>2. x \in XcDesc(p) /\ XcMatchSyfup(q, m, x)
    <3>1. XcMatchSyfup(q, m, s.list[p][i])
      <4> HIDE DEF i
      <4> QED BY <2>1
    <3> HIDE DEF i, found
    <3>2. QED
      BY <2>1, <3>1, XcListOk
  <2> HIDE DEF i, x, found
  <2>3. residence = XcResidence(XcMsg("SYNC", m.src, m.seq), q, p)
    <3>1. CASE m.type = "FOLLOW_UP"
      <4>1. x.m.type = "SYNC" /\ x.in = q /\ x.m.seq = m.seq /\ x.m.src = m.src
        BY <2>2, <3>1 DEF XcMatchSyfup
      <4>2. x.res = XcResidence(x.m, x.in, p)
        BY <2>2, <4>1 DEF XcDesc
      <4>3. QED
        BY <3>1, <4>1, <4>2 DEF XcResidence, XcMsg
    <3>2. CASE m.type = "SYNC"
      BY <3>2 DEF XcTime, XcResidence, XcMsg
    <3>3. QED
      BY <3>1, <3>2
  <2>4. corr = <<residence>>
    <3> HIDE DEF residence
    <3>1. s.corr = << >>
      BY XcListOk
    <3>2. QED
      BY <3>1
  <2>5. XcOwn(corr, m, q, p)
    <3>1. corr = <<XcResidence(XcMsg("SYNC", m.src, m.seq), q, p)>>
      BY <2>3, <2>4
    <3> HIDE DEF corr
    <3>2. m.type # "DELAY_RESP"
      OBVIOUS
    <3>3. QED
      BY <3>1, <3>2 DEF XcOwn
  <2> HIDE DEF corr, residence
  <2>6. t = s
    BY <2>5, XcListOk DEF XcRestored, XcLoop
  <2> HIDE DEF t
  <2>7. l \in Seq(XcDesc(p))
    BY <2>1, XcRemoved, XcListOk
  <2>8. CASE sends \/ s.state[p] = "FAULTY"
    <3>1. XcCompleteSyfup(s, q, p, m, res, sends) = [s EXCEPT !.list[p] = l]
      BY <1>1, <1>3, <2>6, <2>8 DEF XcLoop
    <3> HIDE DEF l
    <3>2. QED
      BY <2>7, <3>1, XcLoopSet
  <2>9. CASE ~(sends \/ s.state[p] = "FAULTY")
    <3>1. XcCompleteSyfup(s, q, p, m, res, sends) = [XcFault(s, p) EXCEPT !.corrupt = TRUE]
      BY <1>1, <1>3, <2>6, <2>9
    <3>2. PICK f : f = XcFault(s, p)
      OBVIOUS
    <3>3. f \in XcLoop
      BY <3>2, XcFaultOk
    <3>4. << >> \in Seq(XcDesc(p))
      OBVIOUS
    <3>5. QED
      BY <3>1, <3>2, <3>3, <3>4, XcLoopSet
  <2>10. QED
    BY <2>8, <2>9
<1>4. QED
  BY <1>2, <1>3

\* tc_complete_response
LEMMA XcResponseOk ==
  ASSUME NEW s \in XcLoop, NEW q \in XcPort, NEW p \in XcPort, NEW m \in XcMsgs, m.type = "DELAY_RESP",
         NEW sends \in BOOLEAN, p # q
  PROVE  XcCompleteResponse(s, q, p, m, sends) \in XcLoop
<1> DEFINE found == {i \in DOMAIN s.list[q] : XcMatchDelay(p, m, s.list[q][i])
                                              /\ \A j \in 1..(i - 1) : ~XcMatchDelay(p, m, s.list[q][j])}
           i == CHOOSE j \in found : TRUE
           x == s.list[q][i]
           corr == Append(s.corr, x.res)
           t == IF sends THEN s ELSE XcFault(s, p)
           l == RemoveAt(t.list[q], i)
<1>1. XcCompleteResponse(s, q, p, m, sends) =
        IF found = {} THEN s
        ELSE [t EXCEPT !.list[q] = RemoveAt(@, i), !.corr = XcRestored(@, corr),
                       !.wrong = @ \/ (sends /\ ~XcOwn(corr, m, q, p))]
  BY DEF XcCompleteResponse, XcFirst
<1>2. CASE found = {}
  BY <1>1, <1>2
<1>3. CASE found # {}
  <2>1. i \in DOMAIN s.list[q] /\ i \in found
    <3>1. found \subseteq DOMAIN s.list[q] /\ s.list[q] \in Seq(XcDesc(q))
      BY XcListOk
    <3> HIDE DEF found
    <3>2. QED
      BY <1>3, <3>1, XcFound
  <2>2. x \in XcDesc(q) /\ XcMatchDelay(p, m, x)
    <3>1. XcMatchDelay(p, m, s.list[q][i])
      <4> HIDE DEF i
      <4> QED BY <2>1
    <3> HIDE DEF i, found
    <3>2. QED
      BY <2>1, <3>1, XcListOk
  <2> HIDE DEF i, x, found
  <2>3. x.res = XcResidence(XcMsg("DELAY_REQ", m.src, m.seq), p, q)
    <3>1. x.m.type = "DELAY_REQ" /\ x.in = p /\ x.m.seq = m.seq /\ x.m.src = m.src
      BY <2>2 DEF XcMatchDelay
    <3>2. x.res = XcResidence(x.m, x.in, q)
      BY <2>2, <3>1 DEF XcDesc
    <3>3. QED
      BY <3>1, <3>2 DEF XcResidence, XcMsg
  <2>4. corr = <<x.res>>
    <3>1. s.corr = << >>
      BY XcListOk
    <3>2. QED
      BY <3>1
  <2>5. XcOwn(corr, m, q, p)
    <3>1. corr = <<XcResidence(XcMsg("DELAY_REQ", m.src, m.seq), p, q)>>
      BY <2>3, <2>4
    <3> HIDE DEF corr
    <3>2. QED
      BY <3>1 DEF XcOwn
  <2> HIDE DEF corr
  <2>6. t \in XcLoop /\ t.list[q] = s.list[q]
    <3>1. XcFault(s, p) \in XcLoop
      BY XcFaultOk
    <3>2. XcFault(s, p).list[q] = s.list[q]
      BY DEF XcFault, XcLoop, XcLists
    <3>3. QED
      BY <3>1, <3>2
  <2> HIDE DEF t
  <2>7. l \in Seq(XcDesc(q))
    BY <2>1, <2>6, XcRemoved, XcListOk
  <2>8. XcCompleteResponse(s, q, p, m, sends) = [t EXCEPT !.list[q] = l]
    BY <1>1, <1>3, <2>5, <2>6 DEF XcRestored, XcLoop
  <2> HIDE DEF l
  <2>9. QED
    BY <2>6, <2>7, <2>8, XcLoopSet
<1>4. QED
  BY <1>2, <1>3

\* tc_complete
LEMMA XcCompleteOk ==
  ASSUME NEW s \in XcLoop, NEW q \in XcPort, NEW p \in XcPort, NEW m \in XcMsgs, m.type # "ANNOUNCE",
         NEW res, XcTime(m, q, p, res), NEW sends \in BOOLEAN, p # q
  PROVE  XcComplete(s, q, p, m, res, sends) \in XcLoop
<1>1. CASE m.type \in {"SYNC", "FOLLOW_UP"}
  <2>1. XcComplete(s, q, p, m, res, sends) = XcCompleteSyfup(s, q, p, m, res, sends)
    BY <1>1 DEF XcComplete
  <2>2. QED
    BY <1>1, <2>1, XcSyfupOk
<1>2. CASE m.type = "DELAY_REQ"
  <2>1. XcComplete(s, q, p, m, res, sends) = XcKeep(s, q, p, m, res)
    BY <1>2 DEF XcComplete, XcCompleteRequest
  <2>2. QED
    BY <2>1, XcKeepOk
<1>3. CASE m.type = "DELAY_RESP"
  <2>1. XcComplete(s, q, p, m, res, sends) = XcCompleteResponse(s, q, p, m, sends)
    BY <1>3 DEF XcComplete
  <2>2. QED
    BY <1>3, <2>1, XcResponseOk
<1>4. QED
  BY <1>1, <1>2, <1>3 DEF XcMsgs

\* One port of the loops
XcEventStep(q, m, bad, lost, t, p) ==
  IF XcBlocked(t.state, q, p, m) THEN t
  ELSE IF p = bad \/ t.state[p] = "FAULTY" THEN XcFault(t, p)
  ELSE XcComplete(t, q, p, m, XcResidence(m, q, p), p # lost)
XcGeneralStep(q, m, bad, t, p) ==
  IF XcBlocked(t.state, q, p, m) THEN t
  ELSE XcComplete(t, q, p, m, << >>, p # bad /\ t.state[p] # "FAULTY")

LEMMA XcStepOk ==
  ASSUME NEW t \in XcLoop, NEW q \in XcPort, NEW p \in XcPort, NEW m \in XcMsgs, m.type # "ANNOUNCE", NEW bad, NEW lost
  PROVE  /\ m.type \in {"SYNC", "DELAY_REQ"} => XcEventStep(q, m, bad, lost, t, p) \in XcLoop
         /\ m.type \in {"FOLLOW_UP", "DELAY_RESP"} => XcGeneralStep(q, m, bad, t, p) \in XcLoop
<1>1. CASE XcBlocked(t.state, q, p, m)
  BY <1>1 DEF XcEventStep, XcGeneralStep
<1>2. CASE ~XcBlocked(t.state, q, p, m)
  <2>1. p # q
    BY <1>2 DEF XcBlocked
  <2>2. ASSUME m.type \in {"SYNC", "DELAY_REQ"} PROVE XcEventStep(q, m, bad, lost, t, p) \in XcLoop
    <3>1. XcTime(m, q, p, XcResidence(m, q, p))
      BY <2>2 DEF XcTime
    <3>2. PICK sends \in BOOLEAN : sends <=> p # lost
      OBVIOUS
    <3>3. XcComplete(t, q, p, m, XcResidence(m, q, p), sends) \in XcLoop
      BY <2>1, <3>1, XcCompleteOk
    <3>4. sends = (p # lost)
      BY <3>2
    <3>5. \/ XcEventStep(q, m, bad, lost, t, p) = XcFault(t, p)
          \/ XcEventStep(q, m, bad, lost, t, p) = XcComplete(t, q, p, m, XcResidence(m, q, p), sends)
      BY <1>2, <3>4 DEF XcEventStep
    <3>6. QED
      BY <3>3, <3>5, XcFaultOk
  <2>3. ASSUME m.type \in {"FOLLOW_UP", "DELAY_RESP"} PROVE XcGeneralStep(q, m, bad, t, p) \in XcLoop
    <3>1. XcTime(m, q, p, << >>)
      BY <2>3 DEF XcTime
    <3>2. PICK sends \in BOOLEAN : sends <=> (p # bad /\ t.state[p] # "FAULTY")
      OBVIOUS
    <3>3. XcComplete(t, q, p, m, << >>, sends) \in XcLoop
      BY <2>1, <3>1, XcCompleteOk
    <3>4. sends = (p # bad /\ t.state[p] # "FAULTY")
      BY <3>2
    <3>5. XcGeneralStep(q, m, bad, t, p) = XcComplete(t, q, p, m, << >>, sends)
      BY <1>2, <3>4 DEF XcGeneralStep
    <3>6. QED
      BY <3>3, <3>5
  <2>4. QED
    BY <2>2, <2>3
<1>3. QED
  BY <1>1, <1>2

\* tc_fwd_event
LEMMA XcEventOk ==
  ASSUME NEW s \in XcLoop, NEW q \in XcPort, NEW m \in XcMsgs, m.type \in {"SYNC", "DELAY_REQ"}, NEW bad, NEW lost
  PROVE  XcFwdEvent(s, q, m, bad, lost) \in XcLoop
<1> DEFINE n == XcPorts
           Step(t, z) == IF z = {} THEN s ELSE XcEventStep(q, m, bad, lost, t[z \ {Max(z)}], Max(z))
           G == [k \in XcLoop \X (1..n) |-> XcEventStep(q, m, bad, lost, k[1], k[2])]
           T == CHOOSE t : t = [z \in SUBSET (1..n) |-> Step(t, z)]
<1>1. n \in Nat /\ DOMAIN XcAll = 1..n /\ \A i \in 1..n : XcAll[i] = i
  BY XcAssumption DEF XcAll
<1>2. XcFwdEvent(s, q, m, bad, lost) = T[1..n]
  <2> DEFINE Own(t, z) == IF z = {} THEN s ELSE XcEventStep(q, m, bad, lost, t[z \ {Max(z)}], XcAll[Max(z)])
  <2>1. XcFwdEvent(s, q, m, bad, lost) = (CHOOSE t : t = [z \in SUBSET DOMAIN XcAll |-> Own(t, z)])[DOMAIN XcAll]
    BY Zenon DEF XcFwdEvent, FoldLeft, MapThenFoldSet, XcEventStep
  <2>2. ASSUME NEW t PROVE [z \in SUBSET (1..n) |-> Own(t, z)] = [z \in SUBSET (1..n) |-> Step(t, z)]
    <3>1. ASSUME NEW z \in SUBSET (1..n) PROVE Own(t, z) = Step(t, z)
      <4>1. CASE z = {}
        BY <4>1
      <4>2. CASE z # {}
        <5>1. Max(z) \in 1..n
          BY <1>1, <4>2, MaxOf
        <5>2. XcAll[Max(z)] = Max(z)
          BY <1>1, <5>1
        <5>3. QED
          BY <5>2
      <4>3. QED
        BY <4>1, <4>2
    <3> HIDE DEF Own, Step
    <3>2. QED
      BY <3>1
  <2> HIDE DEF Own, Step
  <2>3. (CHOOSE t : t = [z \in SUBSET (1..n) |-> Own(t, z)]) = T
    BY <2>2, Zenon DEF T
  <2>4. QED
    BY <1>1, <2>1, <2>3
<1>3. G \in [XcLoop \X (1..n) -> XcLoop]
  <2>1. ASSUME NEW t \in XcLoop, NEW i \in 1..n PROVE XcEventStep(q, m, bad, lost, t, i) \in XcLoop
    BY XcStepOk DEF XcPort
  <2>2. QED
    BY <2>1
<1>4. PICK t \in [SUBSET (1..n) -> XcLoop] : FoldTable(G, s, n, t)
  <2> HIDE DEF G, n
  <2> QED BY <1>1, <1>3, FoldTableExists
<1>5. \A z \in SUBSET (1..n) : t[z] = Step(t, z)
  <2> SUFFICES ASSUME NEW z \in SUBSET (1..n) PROVE t[z] = Step(t, z)
    OBVIOUS
  <2>1. CASE z = {}
    BY <1>4, <2>1 DEF FoldTable
  <2>2. CASE z # {}
    <3>1. Max(z) \in z /\ z \ {Max(z)} \in SUBSET (1..n)
      BY <1>1, <2>2, MaxOf
    <3>2. <<t[z \ {Max(z)}], Max(z)>> \in XcLoop \X (1..n)
      BY <3>1
    <3>3. t[z] = G[<<t[z \ {Max(z)}], Max(z)>>]
      BY <1>4, <2>2 DEF FoldTable
    <3>4. QED
      BY <2>2, <3>2, <3>3
  <2>3. QED
    BY <2>1, <2>2
<1>6. t = [z \in SUBSET (1..n) |-> Step(t, z)]
  <2> HIDE DEF Step
  <2> QED BY <1>5
<1>7. T = [z \in SUBSET (1..n) |-> Step(T, z)]
  <2> HIDE DEF Step
  <2> QED BY <1>6, Zenon
<1>8. \A z \in SUBSET (1..n) : T[z] = Step(T, z)
  <2> HIDE DEF T, Step
  <2> QED BY <1>7
<1> HIDE DEF T
<1>9. T[{}] = s
  BY <1>8
<1>10. ASSUME NEW i \in 1..n, T[1..(i - 1)] \in XcLoop PROVE T[1..i] = G[<<T[1..(i - 1)], i>>]
  <2>1. (1..i) \in SUBSET (1..n) /\ (1..i) # {} /\ (1..i) \ {i} = 1..(i - 1) /\ i \in Nat /\ i \in 1..i
    <3> HIDE DEF n
    <3>1. n \in Nat /\ i \in 1..n
      BY <1>1
    <3>2. QED
      BY <3>1
  <2>2. Max(1..i) = i
    <3>1. Max(1..i) \in 1..i /\ i <= Max(1..i)
      BY <2>1, MaxOf
    <3>2. QED
      BY <2>1, <3>1
  <2>3. T[1..i] = XcEventStep(q, m, bad, lost, T[1..(i - 1)], i)
    BY <1>8, <2>1, <2>2
  <2>4. QED
    BY <1>10, <2>3
<1> HIDE DEF G
<1>11. T[1..n] \in XcLoop
  <2>1. FoldRuns(XcLoop, G, s, n, T)
    BY <1>9, <1>10 DEF FoldRuns
  <2> HIDE DEF n
  <2> QED BY <1>1, <1>3, <2>1, FoldStays
<1>12. QED
  BY <1>2, <1>11

\* tc_fwd_folup, tc_fwd_response
LEMMA XcGeneralOk ==
  ASSUME NEW s \in XcLoop, NEW q \in XcPort, NEW m \in XcMsgs, m.type \in {"FOLLOW_UP", "DELAY_RESP"}, NEW bad
  PROVE  XcFwdGeneral(s, q, m, bad) \in XcLoop
<1> DEFINE n == XcPorts
           Step(t, z) == IF z = {} THEN s ELSE XcGeneralStep(q, m, bad, t[z \ {Max(z)}], Max(z))
           G == [k \in XcLoop \X (1..n) |-> XcGeneralStep(q, m, bad, k[1], k[2])]
           T == CHOOSE t : t = [z \in SUBSET (1..n) |-> Step(t, z)]
<1>1. n \in Nat /\ DOMAIN XcAll = 1..n /\ \A i \in 1..n : XcAll[i] = i
  BY XcAssumption DEF XcAll
<1>2. XcFwdGeneral(s, q, m, bad) = T[1..n]
  <2> DEFINE Own(t, z) == IF z = {} THEN s ELSE XcGeneralStep(q, m, bad, t[z \ {Max(z)}], XcAll[Max(z)])
  <2>1. XcFwdGeneral(s, q, m, bad) = (CHOOSE t : t = [z \in SUBSET DOMAIN XcAll |-> Own(t, z)])[DOMAIN XcAll]
    BY Zenon DEF XcFwdGeneral, FoldLeft, MapThenFoldSet, XcGeneralStep
  <2>2. ASSUME NEW t PROVE [z \in SUBSET (1..n) |-> Own(t, z)] = [z \in SUBSET (1..n) |-> Step(t, z)]
    <3>1. ASSUME NEW z \in SUBSET (1..n) PROVE Own(t, z) = Step(t, z)
      <4>1. CASE z = {}
        BY <4>1
      <4>2. CASE z # {}
        <5>1. Max(z) \in 1..n
          BY <1>1, <4>2, MaxOf
        <5>2. XcAll[Max(z)] = Max(z)
          BY <1>1, <5>1
        <5>3. QED
          BY <5>2
      <4>3. QED
        BY <4>1, <4>2
    <3> HIDE DEF Own, Step
    <3>2. QED
      BY <3>1
  <2> HIDE DEF Own, Step
  <2>3. (CHOOSE t : t = [z \in SUBSET (1..n) |-> Own(t, z)]) = T
    BY <2>2, Zenon DEF T
  <2>4. QED
    BY <1>1, <2>1, <2>3
<1>3. G \in [XcLoop \X (1..n) -> XcLoop]
  <2>1. ASSUME NEW t \in XcLoop, NEW i \in 1..n PROVE XcGeneralStep(q, m, bad, t, i) \in XcLoop
    BY XcStepOk DEF XcPort
  <2>2. QED
    BY <2>1
<1>4. PICK t \in [SUBSET (1..n) -> XcLoop] : FoldTable(G, s, n, t)
  <2> HIDE DEF G, n
  <2> QED BY <1>1, <1>3, FoldTableExists
<1>5. \A z \in SUBSET (1..n) : t[z] = Step(t, z)
  <2> SUFFICES ASSUME NEW z \in SUBSET (1..n) PROVE t[z] = Step(t, z)
    OBVIOUS
  <2>1. CASE z = {}
    BY <1>4, <2>1 DEF FoldTable
  <2>2. CASE z # {}
    <3>1. Max(z) \in z /\ z \ {Max(z)} \in SUBSET (1..n)
      BY <1>1, <2>2, MaxOf
    <3>2. <<t[z \ {Max(z)}], Max(z)>> \in XcLoop \X (1..n)
      BY <3>1
    <3>3. t[z] = G[<<t[z \ {Max(z)}], Max(z)>>]
      BY <1>4, <2>2 DEF FoldTable
    <3>4. QED
      BY <2>2, <3>2, <3>3
  <2>3. QED
    BY <2>1, <2>2
<1>6. t = [z \in SUBSET (1..n) |-> Step(t, z)]
  <2> HIDE DEF Step
  <2> QED BY <1>5
<1>7. T = [z \in SUBSET (1..n) |-> Step(T, z)]
  <2> HIDE DEF Step
  <2> QED BY <1>6, Zenon
<1>8. \A z \in SUBSET (1..n) : T[z] = Step(T, z)
  <2> HIDE DEF T, Step
  <2> QED BY <1>7
<1> HIDE DEF T
<1>9. T[{}] = s
  BY <1>8
<1>10. ASSUME NEW i \in 1..n, T[1..(i - 1)] \in XcLoop PROVE T[1..i] = G[<<T[1..(i - 1)], i>>]
  <2>1. (1..i) \in SUBSET (1..n) /\ (1..i) # {} /\ (1..i) \ {i} = 1..(i - 1) /\ i \in Nat /\ i \in 1..i
    <3> HIDE DEF n
    <3>1. n \in Nat /\ i \in 1..n
      BY <1>1
    <3>2. QED
      BY <3>1
  <2>2. Max(1..i) = i
    <3>1. Max(1..i) \in 1..i /\ i <= Max(1..i)
      BY <2>1, MaxOf
    <3>2. QED
      BY <2>1, <3>1
  <2>3. T[1..i] = XcGeneralStep(q, m, bad, T[1..(i - 1)], i)
    BY <1>8, <2>1, <2>2
  <2>4. QED
    BY <1>10, <2>3
<1> HIDE DEF G
<1>11. T[1..n] \in XcLoop
  <2>1. FoldRuns(XcLoop, G, s, n, T)
    BY <1>9, <1>10 DEF FoldRuns
  <2> HIDE DEF n
  <2> QED BY <1>1, <1>3, <2>1, FoldStays
<1>12. QED
  BY <1>2, <1>11

----------------------------------------------------------------------------
\* The invariant of a transparent clock: every descriptor holds its own residence time.
XcInv == xcList \in XcLists /\ xcState \in XcStates /\ xcWrong = FALSE

\* What a message that is passed on leaves behind
LEMMA XcThenOk == ASSUME NEW s \in XcLoop, XcThen(s) PROVE XcInv'
BY DEF XcThen, XcLoop, XcInv

\* A message of this kind is one of the messages.
LEMMA XcMsgOk ==
  ASSUME NEW type \in {"SYNC", "FOLLOW_UP", "DELAY_REQ", "DELAY_RESP", "ANNOUNCE"},
         NEW src \in XcSources \cup {"slave", "m"}, NEW seq \in XcSeqs \cup {0}
  PROVE  XcMsg(type, src, seq) \in XcMsgs /\ XcMsg(type, src, seq).type = type
BY DEF XcMsg, XcMsgs

LEMMA XcInvNext == XcInv /\ [XcNext]_xcVars => XcInv'
<1> SUFFICES ASSUME XcInv, [XcNext]_xcVars PROVE XcInv'
  OBVIOUS
<1>1. XcNow \in XcLoop
  BY DEF XcNow, XcInv, XcLoop
<1>2. PICK s : s = XcNow
  OBVIOUS
<1>3. s \in XcLoop
  BY <1>1, <1>2
<1>4. ASSUME NEW q \in XcPort, NEW bad \in 0..XcPorts, XcGeneral(q, bad) PROVE XcInv'
  <2>1. XcThen(XcForward(XcNow, q, XcMsg("ANNOUNCE", "m", 0), bad))
    BY <1>4 DEF XcGeneral
  <2>2. PICK t : t = XcForward(s, q, XcMsg("ANNOUNCE", "m", 0), bad)
    OBVIOUS
  <2>3. t \in XcLoop
    <3>1. bad # 0 => bad \in XcPort
      BY XcAssumption DEF XcPort
    <3>2. bad # 0 => XcFault(s, bad) \in XcLoop
      BY <1>3, <3>1, XcFaultOk
    <3>3. QED
      BY <1>3, <2>2, <3>2 DEF XcForward
  <2>4. XcThen(t)
    BY <1>2, <2>1, <2>2
  <2>5. QED
    BY <2>3, <2>4, XcThenOk
<1>5. ASSUME NEW q \in XcPort, NEW bad \in 0..XcPorts, NEW seq \in XcSeqs, XcDelayReq(q, seq, bad) PROVE XcInv'
  <2>1. PICK m : m = XcMsg("DELAY_REQ", "slave", seq)
    OBVIOUS
  <2>2. m \in XcMsgs /\ m.type = "DELAY_REQ"
    BY <2>1, XcMsgOk
  <2>3. PICK t : t = XcFwdEvent(s, q, m, bad, 0)
    OBVIOUS
  <2>4. t \in XcLoop
    BY <1>3, <2>2, <2>3, XcEventOk
  <2>5. XcThen(t)
    BY <1>2, <1>5, <2>1, <2>3 DEF XcDelayReq
  <2>6. QED
    BY <2>4, <2>5, XcThenOk
<1>6. ASSUME NEW q \in XcPort, NEW bad \in 0..XcPorts, NEW seq \in XcSeqs, XcDelayResp(q, seq, bad) PROVE XcInv'
  <2>1. PICK m : m = XcMsg("DELAY_RESP", "slave", seq)
    OBVIOUS
  <2>2. m \in XcMsgs /\ m.type = "DELAY_RESP"
    BY <2>1, XcMsgOk
  <2>3. PICK t : t = XcFwdGeneral(s, q, m, bad)
    OBVIOUS
  <2>4. t \in XcLoop
    BY <1>3, <2>2, <2>3, XcGeneralOk
  <2>5. XcThen(t)
    BY <1>2, <1>6, <2>1, <2>3 DEF XcDelayResp
  <2>6. QED
    BY <2>4, <2>5, XcThenOk
<1>7. ASSUME NEW q \in XcPort, NEW bad \in 0..XcPorts, NEW seq \in XcSeqs, NEW src \in XcSources,
             XcFollowUp(q, src, seq, bad)
      PROVE  XcInv'
  <2>1. PICK m : m = XcMsg("FOLLOW_UP", src, seq)
    OBVIOUS
  <2>2. m \in XcMsgs /\ m.type = "FOLLOW_UP"
    BY <2>1, XcMsgOk
  <2>3. PICK t : t = XcFwdGeneral(s, q, m, bad)
    OBVIOUS
  <2>4. t \in XcLoop
    BY <1>3, <2>2, <2>3, XcGeneralOk
  <2>5. XcThen(t)
    BY <1>2, <1>7, <2>1, <2>3 DEF XcFollowUp
  <2>6. QED
    BY <2>4, <2>5, XcThenOk
<1>8. ASSUME NEW q \in XcPort, NEW bad \in 0..XcPorts, NEW seq \in XcSeqs, NEW src \in XcSources,
             NEW one \in BOOLEAN, NEW lost \in 0..XcPorts, XcSync(q, src, seq, one, bad, lost)
      PROVE  XcInv'
  <2>1. PICK m : m = XcMsg("SYNC", src, seq)
    OBVIOUS
  <2>2. m \in XcMsgs /\ m.type = "SYNC" /\ m.src = src /\ m.seq = seq
    BY <2>1, XcMsgOk DEF XcMsg
  <2>3. PICK fup : fup = XcMsg("FOLLOW_UP", src, seq)
    OBVIOUS
  <2>4. fup \in XcMsgs /\ fup.type = "FOLLOW_UP"
    BY <2>3, XcMsgOk
  <2>5. PICK t : t = XcFwdEvent(s, q, m, bad, lost)
    OBVIOUS
  <2>6. t \in XcLoop
    BY <1>3, <2>2, <2>5, XcEventOk
  <2>7. PICK u : u = XcFwdGeneral(t, q, fup, lost)
    OBVIOUS
  <2>8. u \in XcLoop
    BY <2>4, <2>6, <2>7, XcGeneralOk
  <2>9. PICK w : w = XcFwdSync(s, q, m, one, bad, lost)
    OBVIOUS
  <2>10. w = IF one THEN u ELSE t
    BY <2>2, <2>3, <2>5, <2>7, <2>9 DEF XcFwdSync
  <2>11. XcThen(w)
    BY <1>2, <1>8, <2>1, <2>9 DEF XcSync
  <2>12. w \in XcLoop
    BY <2>6, <2>8, <2>10
  <2>13. QED
    BY <2>11, <2>12, XcThenOk
<1>9. ASSUME NEW p \in XcPort, NEW n \in 1..XcArrivals, XcPrune(p, n) PROVE XcInv'
  <2>1. PICK l : l = SubSeq(xcList[p], n + 1, Len(xcList[p]))
    OBVIOUS
  <2>2. xcList \in XcLists /\ xcList[p] \in Seq(XcDesc(p))
    BY DEF XcInv, XcLists
  <2>3. l \in Seq(XcDesc(p))
    <3>1. PICK r : r = xcList[p]
      OBVIOUS
    <3>2. r \in Seq(XcDesc(p)) /\ n \in 1..Len(r) /\ Len(r) \in Nat
      BY <1>9, <2>2, <3>1 DEF XcPrune
    <3>3. n + 1 \in Nat /\ n + 1 \in 1..(Len(r) + 1) /\ \A k \in (n + 1)..Len(r) : r[k] \in XcDesc(p)
      <4>1. \A k \in (n + 1)..Len(r) : k \in DOMAIN r
        BY <3>2
      <4>2. QED
        BY <3>2, <4>1, ElementOfSeq
    <3>4. QED
      BY <2>1, <3>1, <3>2, <3>3, SubSeqProperties
  <2>4. xcList' = [xcList EXCEPT ![p] = l]
    BY <1>9, <2>1 DEF XcPrune
  <2>5. xcList' \in XcLists
    <3>1. PICK f : f = xcList
      OBVIOUS
    <3>2. [f EXCEPT ![p] = l] \in XcLists
      BY <2>2, <2>3, <3>1, XcListSet
    <3>3. QED
      BY <2>4, <3>1, <3>2
  <2>6. QED
    BY <1>9, <2>5 DEF XcPrune, XcInv
<1>10. ASSUME NEW p \in XcPort, NEW state \in {"SLAVE", "MASTER", "PASSIVE", "FAULTY"}, XcDispatch(p, state)
       PROVE  XcInv'
  <2>1. PICK f : f = xcList
    OBVIOUS
  <2>2. PICK l : l = IF state = "FAULTY" THEN << >> ELSE f[p]
    OBVIOUS
  <2>3. f \in XcLists /\ f[p] \in Seq(XcDesc(p))
    BY <2>1 DEF XcInv, XcLists
  <2>4. l \in Seq(XcDesc(p))
    <3>1. << >> \in Seq(XcDesc(p))
      OBVIOUS
    <3>2. QED
      BY <2>2, <2>3, <3>1
  <2>5. [f EXCEPT ![p] = l] \in XcLists
    BY <2>3, <2>4, XcListSet
  <2>6. xcList' = [f EXCEPT ![p] = l]
    BY <1>10, <2>1, <2>2 DEF XcDispatch
  <2>7. xcState' \in XcStates
    BY <1>10 DEF XcDispatch, XcInv, XcStates
  <2>8. QED
    BY <1>10, <2>5, <2>6, <2>7 DEF XcDispatch, XcInv
<1>11. CASE UNCHANGED xcVars
  BY <1>11 DEF xcVars, XcInv
<1>12. QED
  BY <1>4, <1>5, <1>6, <1>7, <1>8, <1>9, <1>10, <1>11 DEF XcNext, XcPort

\* A Follow_Up or Delay_Resp leaves the clock with the residence time of its own Sync or Delay_Req,
\* measured between the same two ports, added exactly once (tc_complete_syfup, tc_complete_response).
THEOREM XcAlwaysSound == XcSpec => []XcSound
<1>1. XcInit => XcInv
  <2> SUFFICES ASSUME XcInit PROVE XcInv
    OBVIOUS
  <2>1. << >> \in Seq(UNION {XcDesc(p) : p \in XcPort}) /\ \A p \in XcPort : << >> \in Seq(XcDesc(p))
    OBVIOUS
  <2>2. xcList \in XcLists
    BY <2>1 DEF XcInit, XcLists, XcPort
  <2>3. QED
    BY <2>2 DEF XcInit, XcInv, XcStates, XcPort
<1>2. XcInv => XcSound
  BY DEF XcInv, XcSound
<1>3. QED
  BY <1>1, <1>2, XcInvNext, PTL DEF XcSpec

----------------------------------------------------------------------------
(* phc2sys.                                                                 *)

PhClockSet == ToSet(PhClocks)
PhOne == [state : PhStates \cup {"none"}, new : PhStates \cup {"none"}]
PhMsgs == [k : {"note", "resp"}, port : PhPorts, state : PhStates]
PhDatas == [port : [PhPorts -> PhStates], clock : [PhClockSet -> PhOne], changed : BOOLEAN]

\* What phc2sys holds of every clock, its new state or else its state, agrees with the states of the ports.
PhAgrees(ports, clock) ==
  \A c \in PhClockSet : PhCompute(ports, c) = IF clock[c].new # "none" THEN clock[c].new ELSE clock[c].state

LEMMA PhComputeState ==
  ASSUME NEW ports \in [PhPorts -> PhStates], NEW c
  PROVE  PhCompute(ports, c) \in PhStates
<1> DEFINE mine == {ports[p] : p \in {q \in PhPorts : PhClockOf[q] = c}} \cup {"DISABLED"}
           Top(s) == \A t \in mine : PhRank(t) <= PhRank(s)
<1>1. mine \subseteq PhStates /\ "DISABLED" \in mine
  BY DEF PhStates
<1>2. PhRank("DISABLED") = 3 /\ PhRank("MASTER") = 6 /\ PhRank("UNCALIBRATED") = 8 /\ PhRank("SLAVE") = 9
  BY DEF PhRank
<1>3. PhCompute(ports, c) = CHOOSE s \in mine : Top(s)
  BY DEF PhCompute
<1> HIDE DEF mine
<1>4. \E s \in mine : Top(s)
  <2>1. CASE "SLAVE" \in mine
    BY <1>1, <1>2, <2>1 DEF PhStates
  <2>2. CASE "SLAVE" \notin mine /\ "UNCALIBRATED" \in mine
    BY <1>1, <1>2, <2>2 DEF PhStates
  <2>3. CASE "SLAVE" \notin mine /\ "UNCALIBRATED" \notin mine /\ "MASTER" \in mine
    BY <1>1, <1>2, <2>3 DEF PhStates
  <2>4. CASE "SLAVE" \notin mine /\ "UNCALIBRATED" \notin mine /\ "MASTER" \notin mine
    BY <1>1, <1>2, <2>4 DEF PhStates
  <2>5. QED
    BY <2>1, <2>2, <2>3, <2>4
<1> HIDE DEF Top
<1>5. (CHOOSE s \in mine : Top(s)) \in mine
  BY <1>4
<1>6. QED
  BY <1>1, <1>3, <1>5

\* A port says nothing of the clocks of other ports.
LEMMA PhComputeOther ==
  ASSUME NEW ports \in [PhPorts -> PhStates], NEW p \in PhPorts, NEW s, NEW c, PhClockOf[p] # c
  PROVE  PhCompute([ports EXCEPT ![p] = s], c) = PhCompute(ports, c)
<1> DEFINE set == {q \in PhPorts : PhClockOf[q] = c}
           next == [ports EXCEPT ![p] = s]
<1>1. \A q \in set : next[q] = ports[q]
  OBVIOUS
<1>2. {next[q] : q \in set} = {ports[q] : q \in set}
  <2> HIDE DEF set, next
  <2> QED BY <1>1
<1>3. QED
  BY <1>2 DEF PhCompute

\* recv_subscribed
PhNotes(d, m, e) ==
  /\ e \in PhDatas /\ e.port = [d.port EXCEPT ![m.port] = m.state]
  /\ \A c \in PhClockSet : e.clock[c].state = d.clock[c].state /\ (d.clock[c].new # "none" => e.clock[c].new # "none")
  /\ PhAgrees(d.port, d.clock) => PhAgrees(e.port, e.clock)
  /\ ~e.changed => ~d.changed /\ e.clock = d.clock
  /\ d.changed => e.changed

LEMMA PhNotedFacts ==
  ASSUME NEW d \in PhDatas, NEW m \in PhMsgs
  PROVE  PhNotes(d, m, PhNoted(d, m))
<1> DEFINE ports == [d.port EXCEPT ![m.port] = m.state]
           c == PhClockOf[m.port]
           s == PhCompute(ports, c)
<1>1. d.port \in [PhPorts -> PhStates] /\ d.clock \in [PhClockSet -> PhOne] /\ d.changed \in BOOLEAN
  BY DEF PhDatas
<1>2. m.port \in PhPorts /\ m.state \in PhStates
  BY DEF PhMsgs
<1>3. ports \in [PhPorts -> PhStates]
  BY <1>1, <1>2
<1>4. c \in PhClockSet
  BY <1>2, PhAssumption, ElementOfSeq DEF PhPorts, PhClockSet
<1>5. s \in PhStates /\ s # "none"
  <2>1. s \in PhStates
    BY <1>3, PhComputeState
  <2> HIDE DEF s
  <2>2. QED
    BY <2>1 DEF PhStates
<1>6. \A b \in PhClockSet : b # c => PhCompute(ports, b) = PhCompute(d.port, b)
  BY <1>1, <1>2, PhComputeOther
<1>7. CASE d.port[m.port] = m.state
  <2>1. PhNoted(d, m) = d
    BY <1>7 DEF PhNoted
  <2>2. ports = d.port
    BY <1>1, <1>2, <1>7
  <2>3. QED
    BY <2>1, <2>2 DEF PhNotes
<1> HIDE DEF ports, c, s
<1>8. CASE d.port[m.port] # m.state /\ (d.clock[c].state # s \/ d.clock[c].new # "none")
  <2> DEFINE k == [d.clock EXCEPT ![c].new = s]
  <2>1. PhNoted(d, m) = [port |-> ports, clock |-> k, changed |-> TRUE]
    BY <1>8 DEF PhNoted, ports, c, s
  <2>2. k \in [PhClockSet -> PhOne]
    BY <1>1, <1>4, <1>5 DEF PhOne
  <2>3. k[c].new = s /\ k[c].state = d.clock[c].state /\ \A b \in PhClockSet : b # c => k[b] = d.clock[b]
    BY <1>1, <1>4 DEF PhOne
  <2> HIDE DEF k
  <2>4. [port |-> ports, clock |-> k, changed |-> TRUE] \in PhDatas
    BY <1>3, <2>2 DEF PhDatas
  <2>5. \A b \in PhClockSet : k[b].state = d.clock[b].state /\ (d.clock[b].new # "none" => k[b].new # "none")
    BY <1>5, <2>3
  <2>6. ASSUME PhAgrees(d.port, d.clock) PROVE PhAgrees(ports, k)
    <3>1. PhCompute(ports, c) = s
      BY DEF s
    <3>2. QED
      BY <1>5, <1>6, <2>3, <2>6, <3>1 DEF PhAgrees
  <2>7. QED
    BY <2>1, <2>4, <2>5, <2>6 DEF PhNotes, ports
<1>9. CASE d.port[m.port] # m.state /\ ~(d.clock[c].state # s \/ d.clock[c].new # "none")
  <2>1. PhNoted(d, m) = [d EXCEPT !.port = ports]
    BY <1>9 DEF PhNoted, ports, c, s
  <2> DEFINE e == [d EXCEPT !.port = ports]
  <2>2. e \in PhDatas /\ e.port = ports /\ e.clock = d.clock /\ e.changed = d.changed
    BY <1>1, <1>3 DEF PhDatas
  <2> HIDE DEF e
  <2>3. ASSUME PhAgrees(d.port, d.clock) PROVE PhAgrees(ports, d.clock)
    <3>1. PhCompute(ports, c) = s
      BY DEF s
    <3>2. QED
      BY <1>6, <1>9, <2>3, <3>1 DEF PhAgrees
  <2>4. PhNotes(d, m, e)
    BY <2>2, <2>3, <1>1 DEF PhNotes, ports
  <2>5. QED
    BY <2>1, <2>4 DEF e
<1>10. QED
  BY <1>7, <1>8, <1>9

----------------------------------------------------------------------------
(* A run of values, each made of the one before.                            *)

LEMMA RunStays ==
  ASSUME NEW n \in Nat, NEW X, NEW g, g[0] \in X[0], \A i \in 1..n : g[i - 1] \in X[i - 1] => g[i] \in X[i]
  PROVE  g[n] \in X[n]
<1> DEFINE Bad == {i \in 0..n : g[i] \notin X[i]}
<1> SUFFICES ASSUME Bad # {} PROVE FALSE
  OBVIOUS
<1>1. Bad \subseteq Nat
  OBVIOUS
<1>2. PICK i \in Bad : \A j \in Bad : i <= j
  <2> HIDE DEF Bad
  <2> QED BY <1>1, LeastOf
<1>3. i \in 0..n /\ g[i] \notin X[i]
  BY <1>2
<1>4. i \in 1..n /\ i - 1 \in 0..n /\ ~(i <= i - 1)
  BY <1>3
<1>5. g[i - 1] \in X[i - 1]
  BY <1>2, <1>4
<1>6. QED
  BY <1>3, <1>4, <1>5

PhReads(d, m) == IF m.k = "note" THEN PhNoted(d, m) ELSE d
PhRun(g, d, chan) == g[0] = d /\ \A i \in 1..Len(chan) : g[i] = PhReads(g[i - 1], chan[i])

\* run_pmc_events reads one message after the other.
LEMMA PhDrainRun ==
  ASSUME PhData \in PhDatas, phChan \in Seq(PhMsgs)
  PROVE  \E g : PhRun(g, PhData, phChan) /\ g[Len(phChan)] = PhDrain
<1> DEFINE n == Len(phChan)
           Step(t, z) == IF z = {} THEN PhData ELSE PhReads(t[z \ {Max(z)}], phChan[Max(z)])
           G == [k \in PhDatas \X (1..n) |-> PhReads(k[1], phChan[k[2]])]
           T == CHOOSE t : t = [z \in SUBSET (1..n) |-> Step(t, z)]
<1>1. n \in Nat /\ DOMAIN phChan = 1..n /\ \A i \in 1..n : phChan[i] \in PhMsgs
  BY ElementOfSeq
<1>2. PhDrain = T[1..n]
  <2>1. PhDrain = (CHOOSE t : t = [z \in SUBSET DOMAIN phChan |-> Step(t, z)])[DOMAIN phChan]
    BY Zenon DEF PhDrain, FoldLeft, MapThenFoldSet, PhReads
  <2> HIDE DEF Step
  <2>2. QED
    BY <1>1, <2>1
<1>3. G \in [PhDatas \X (1..n) -> PhDatas]
  <2>1. ASSUME NEW d \in PhDatas, NEW i \in 1..n PROVE PhReads(d, phChan[i]) \in PhDatas
    BY <1>1, PhNotedFacts DEF PhReads, PhNotes
  <2>2. QED
    BY <2>1
<1>4. PICK t \in [SUBSET (1..n) -> PhDatas] : FoldTable(G, PhData, n, t)
  <2> HIDE DEF G, n
  <2> QED BY <1>1, <1>3, FoldTableExists
<1>5. \A z \in SUBSET (1..n) : t[z] = Step(t, z)
  <2> SUFFICES ASSUME NEW z \in SUBSET (1..n) PROVE t[z] = Step(t, z)
    OBVIOUS
  <2>1. CASE z = {}
    BY <1>4, <2>1 DEF FoldTable
  <2>2. CASE z # {}
    <3>1. Max(z) \in z /\ z \ {Max(z)} \in SUBSET (1..n)
      <4> HIDE DEF n
      <4> QED BY <1>1, <2>2, MaxOf
    <3>2. <<t[z \ {Max(z)}], Max(z)>> \in PhDatas \X (1..n)
      BY <3>1
    <3>3. t[z] = G[<<t[z \ {Max(z)}], Max(z)>>]
      BY <1>4, <2>2 DEF FoldTable
    <3>4. QED
      BY <2>2, <3>2, <3>3
  <2>3. QED
    BY <2>1, <2>2
<1>6. t = [z \in SUBSET (1..n) |-> Step(t, z)]
  <2> HIDE DEF Step
  <2> QED BY <1>5
<1>7. T = [z \in SUBSET (1..n) |-> Step(T, z)]
  <2> HIDE DEF Step
  <2> QED BY <1>6, Zenon
<1>8. \A z \in SUBSET (1..n) : T[z] = Step(T, z)
  <2> HIDE DEF T, Step
  <2> QED BY <1>7
<1> HIDE DEF T
<1> DEFINE g == [i \in 0..n |-> T[1..i]]
<1>9. g[0] = PhData
  <2>1. (1..0) = {} /\ {} \in SUBSET (1..n) /\ g[0] = T[1..0]
    BY <1>1
  <2>2. T[{}] = PhData
    BY <1>8, <2>1
  <2>3. QED
    BY <2>1, <2>2
<1>10. ASSUME NEW i \in 1..n PROVE g[i] = PhReads(g[i - 1], phChan[i])
  <2>1. (1..i) \in SUBSET (1..n) /\ (1..i) # {} /\ (1..i) \ {i} = 1..(i - 1) /\ i \in 1..i
    <3> HIDE DEF n
    <3>1. n \in Nat
      BY <1>1
    <3>2. i \in 1..n
      OBVIOUS
    <3>3. QED
      BY ONLY <3>1, <3>2
  <2>2. Max(1..i) = i
    <3>1. Max(1..i) \in 1..i /\ i <= Max(1..i)
      <4> HIDE DEF n
      <4> QED BY <1>1, <2>1, MaxOf
    <3>2. QED
      BY <3>1
  <2>3. T[1..i] = PhReads(T[1..(i - 1)], phChan[i])
    BY <1>8, <2>1, <2>2
  <2>4. g[i] = T[1..i] /\ g[i - 1] = T[1..(i - 1)]
    BY <1>1
  <2>5. QED
    BY <2>3, <2>4
<1>11. g[n] = T[1..n]
  BY <1>1
<1> HIDE DEF g
<1>12. QED
  BY <1>2, <1>9, <1>10, <1>11 DEF PhRun

----------------------------------------------------------------------------
\* What is under way from ptp4l leads from the states phc2sys has to those the ports have: f are the
\* states after each message.  An answer says what the notifications before it said.
PhChain(f, port, chan, real) ==
  /\ f \in [0..Len(chan) -> [PhPorts -> PhStates]] /\ f[0] = port /\ f[Len(chan)] = real
  /\ \A i \in 1..Len(chan) : f[i] = [f[i - 1] EXCEPT ![chan[i].port] = chan[i].state]
                             /\ (chan[i].k = "resp" => f[i] = f[i - 1])
PhHeard(port, chan, real) == \E f : PhChain(f, port, chan, real)

\* ptp4l sends one more message.
LEMMA PhHeardMore ==
  ASSUME NEW port, NEW chan \in Seq(PhMsgs), NEW real, PhHeard(port, chan, real), NEW m \in PhMsgs,
         NEW next \in [PhPorts -> PhStates], next = [real EXCEPT ![m.port] = m.state], m.k = "resp" => next = real
  PROVE  PhHeard(port, Append(chan, m), next)
<1> DEFINE n == Len(chan)
           more == Append(chan, m)
<1>1. PICK f : PhChain(f, port, chan, real)
  BY DEF PhHeard
<1>2. n \in Nat /\ Len(more) = n + 1 /\ more[n + 1] = m /\ \A i \in 1..n : more[i] = chan[i]
  BY AppendProperties
<1> DEFINE g == [i \in 0..(n + 1) |-> IF i = n + 1 THEN next ELSE f[i]]
<1>3. /\ f \in [0..n -> [PhPorts -> PhStates]] /\ f[0] = port /\ f[n] = real
      /\ \A i \in 1..n : f[i] = [f[i - 1] EXCEPT ![chan[i].port] = chan[i].state]
                         /\ (chan[i].k = "resp" => f[i] = f[i - 1])
  BY <1>1 DEF PhChain
<1> HIDE DEF n, more
<1>4. g \in [0..(n + 1) -> [PhPorts -> PhStates]]
  BY <1>2, <1>3
<1>5. g[0] = port /\ g[n + 1] = next /\ g[n] = real /\ \A i \in 0..n : g[i] = f[i]
  BY <1>2, <1>3
<1> HIDE DEF g
<1>6. ASSUME NEW i \in 1..(n + 1)
      PROVE  g[i] = [g[i - 1] EXCEPT ![more[i].port] = more[i].state] /\ (more[i].k = "resp" => g[i] = g[i - 1])
  <2>1. CASE i = n + 1
    <3>1. i - 1 = n
      BY <1>2, <2>1
    <3>2. QED
      BY <1>2, <1>5, <2>1, <3>1
  <2>2. CASE i # n + 1
    <3>1. i \in 1..n /\ i \in 0..n /\ i - 1 \in 0..n
      BY <1>2, <2>2
    <3>2. g[i] = f[i] /\ g[i - 1] = f[i - 1] /\ more[i] = chan[i]
      BY <1>2, <1>5, <3>1
    <3>3. QED
      BY <1>3, <3>1, <3>2
  <2>3. QED
    BY <2>1, <2>2
<1>7. PhChain(g, port, more, next)
  BY <1>2, <1>4, <1>5, <1>6 DEF PhChain
<1>8. QED
  BY <1>7 DEF PhHeard, more

\* phc2sys reads one.
LEMMA PhHeardLess ==
  ASSUME NEW port \in [PhPorts -> PhStates], NEW chan \in Seq(PhMsgs), chan # << >>, NEW real, PhHeard(port, chan, real)
  PROVE  /\ PhHeard([port EXCEPT ![Head(chan).port] = Head(chan).state], Tail(chan), real)
         /\ Head(chan).k = "resp" => [port EXCEPT ![Head(chan).port] = Head(chan).state] = port
<1> DEFINE n == Len(chan)
           rest == Tail(chan)
           next == [port EXCEPT ![Head(chan).port] = Head(chan).state]
<1>1. PICK f : PhChain(f, port, chan, real)
  BY DEF PhHeard
<1>2. n \in Nat /\ n # 0 /\ Len(rest) = n - 1 /\ chan[1] = Head(chan) /\ \A i \in 1..(n - 1) : rest[i] = chan[i + 1]
  BY HeadTailProperties
<1> DEFINE g == [i \in 0..(n - 1) |-> f[i + 1]]
<1>3. /\ f \in [0..n -> [PhPorts -> PhStates]] /\ f[0] = port /\ f[n] = real
      /\ \A i \in 1..n : f[i] = [f[i - 1] EXCEPT ![chan[i].port] = chan[i].state]
                         /\ (chan[i].k = "resp" => f[i] = f[i - 1])
  BY <1>1 DEF PhChain
<1> HIDE DEF n, rest
<1>4. f[1] = next /\ (Head(chan).k = "resp" => next = port)
  <2>1. 1 \in 1..n /\ 1 - 1 = 0
    BY <1>2
  <2>2. f[1] = [f[0] EXCEPT ![chan[1].port] = chan[1].state] /\ (chan[1].k = "resp" => f[1] = f[0])
    BY <1>3, <2>1
  <2>3. QED
    BY <1>2, <1>3, <2>2
<1>5. g \in [0..(n - 1) -> [PhPorts -> PhStates]]
  BY <1>2, <1>3
<1>6. g[0] = f[1] /\ g[n - 1] = real /\ \A i \in 0..(n - 1) : g[i] = f[i + 1]
  BY <1>2, <1>3
<1> HIDE DEF g, next
<1>7. ASSUME NEW i \in 1..(n - 1)
      PROVE  g[i] = [g[i - 1] EXCEPT ![rest[i].port] = rest[i].state] /\ (rest[i].k = "resp" => g[i] = g[i - 1])
  <2>1. i + 1 \in 1..n /\ (i + 1) - 1 = i /\ i \in 0..(n - 1) /\ i - 1 \in 0..(n - 1) /\ (i - 1) + 1 = i
    BY <1>2
  <2>2. g[i] = f[i + 1] /\ g[i - 1] = f[i] /\ rest[i] = chan[i + 1]
    BY <1>2, <1>6, <2>1
  <2>3. f[i + 1] = [f[i] EXCEPT ![chan[i + 1].port] = chan[i + 1].state] /\ (chan[i + 1].k = "resp" => f[i + 1] = f[i])
    BY <1>3, <2>1
  <2>4. QED
    BY <2>2, <2>3
<1>8. PhChain(g, next, rest, real)
  BY <1>2, <1>4, <1>5, <1>6, <1>7 DEF PhChain
<1>9. PhHeard(next, rest, real)
  BY <1>8 DEF PhHeard
<1>10. QED
  BY <1>4, <1>9 DEF next, rest

LEMMA PhHeardAll ==
  ASSUME NEW port, NEW real, PhHeard(port, << >>, real)
  PROVE  port = real
BY DEF PhHeard, PhChain

----------------------------------------------------------------------------
\* What reading messages leaves of the data d: the states, what is pending, and the agreement with the ports.
PhLater(d, e) ==
  /\ e \in PhDatas
  /\ \A c \in PhClockSet : e.clock[c].state = d.clock[c].state /\ (d.clock[c].new # "none" => e.clock[c].new # "none")
  /\ PhAgrees(d.port, d.clock) => PhAgrees(e.port, e.clock)
  /\ ~e.changed => ~d.changed /\ e.clock = d.clock
  /\ d.changed => e.changed

LEMMA PhLaterMore ==
  ASSUME NEW d, NEW e, NEW m \in PhMsgs, PhLater(d, e)
  PROVE  PhLater(d, PhReads(e, m))
<1>1. CASE m.k = "note"
  <2>1. PhNotes(e, m, PhNoted(e, m))
    BY PhNotedFacts DEF PhLater
  <2>2. QED
    BY <1>1, <2>1 DEF PhLater, PhNotes, PhReads
<1>2. CASE m.k # "note"
  BY <1>2 DEF PhReads
<1>3. QED
  BY <1>1, <1>2

\* run_pmc_events
LEMMA PhDrainFacts ==
  ASSUME PhData \in PhDatas, phChan \in Seq(PhMsgs)
  PROVE  /\ PhLater(PhData, PhDrain)
         /\ PhHeard(phPort, phChan, phReal) => PhDrain.port = phReal
<1> DEFINE n == Len(phChan)
<1>1. n \in Nat /\ \A i \in 1..n : phChan[i] \in PhMsgs
  BY ElementOfSeq
<1>2. PICK g : PhRun(g, PhData, phChan) /\ g[n] = PhDrain
  BY PhDrainRun
<1>3. g[0] = PhData /\ \A i \in 1..n : g[i] = PhReads(g[i - 1], phChan[i])
  BY <1>2 DEF PhRun
<1> HIDE DEF n
<1>4. PhLater(PhData, PhDrain)
  <2> DEFINE X == [i \in 0..n |-> {d \in PhDatas : PhLater(PhData, d)}]
  <2>1. PhLater(PhData, PhData)
    BY DEF PhLater
  <2>2. g[0] \in X[0]
    BY <1>1, <1>3, <2>1
  <2>3. ASSUME NEW i \in 1..n, g[i - 1] \in X[i - 1] PROVE g[i] \in X[i]
    <3>1. i - 1 \in 0..n /\ i \in 0..n
      BY <1>1
    <3>2. PhLater(PhData, g[i - 1])
      BY <2>3, <3>1
    <3>3. PhLater(PhData, g[i])
      BY <1>1, <1>3, <3>2, PhLaterMore
    <3>4. QED
      BY <3>1, <3>3 DEF PhLater
  <2>4. g[n] \in X[n]
    <3> HIDE DEF X
    <3> QED BY <1>1, <2>2, <2>3, RunStays
  <2>5. QED
    BY <1>1, <1>2, <2>4
<1>5. ASSUME PhHeard(phPort, phChan, phReal) PROVE PhDrain.port = phReal
  <2>1. PICK f : PhChain(f, phPort, phChan, phReal)
    BY <1>5 DEF PhHeard
  <2>2. /\ f[0] = phPort /\ f[n] = phReal
        /\ \A i \in 1..n : f[i] = [f[i - 1] EXCEPT ![phChan[i].port] = phChan[i].state]
                           /\ (phChan[i].k = "resp" => f[i] = f[i - 1])
    BY <2>1 DEF PhChain, n
  <2> DEFINE X == [i \in 0..n |-> {d \in PhDatas : d.port = f[i]}]
  <2>3. g[0] \in X[0]
    BY <1>1, <1>3, <2>2 DEF PhData
  <2>4. ASSUME NEW i \in 1..n, g[i - 1] \in X[i - 1] PROVE g[i] \in X[i]
    <3>1. i - 1 \in 0..n /\ i \in 0..n
      BY <1>1
    <3>2. g[i - 1] \in PhDatas /\ g[i - 1].port = f[i - 1] /\ phChan[i] \in PhMsgs
      BY <1>1, <2>4, <3>1
    <3>3. CASE phChan[i].k = "note"
      <4>1. PhNotes(g[i - 1], phChan[i], PhNoted(g[i - 1], phChan[i]))
        BY <3>2, PhNotedFacts
      <4>2. g[i] = PhNoted(g[i - 1], phChan[i])
        BY <1>3, <3>3 DEF PhReads
      <4>3. g[i] \in PhDatas /\ g[i].port = f[i]
        BY <2>2, <3>2, <4>1, <4>2 DEF PhNotes
      <4>4. QED
        BY <3>1, <4>3
    <3>4. CASE phChan[i].k = "resp"
      <4>1. g[i] = g[i - 1] /\ f[i] = f[i - 1]
        BY <1>3, <2>2, <3>4 DEF PhReads
      <4>2. QED
        BY <3>1, <3>2, <4>1
    <3>5. QED
      BY <3>2, <3>3, <3>4 DEF PhMsgs
  <2>5. g[n] \in X[n]
    <3> HIDE DEF X
    <3> QED BY <1>1, <2>3, <2>4, RunStays
  <2>6. QED
    BY <1>1, <1>2, <2>2, <2>5
<1>6. QED
  BY <1>4, <1>5

----------------------------------------------------------------------------
(* The invariant.                                                           *)

PhTyped ==
  /\ phReal \in [PhPorts -> PhStates] /\ phChan \in Seq(PhMsgs) /\ phAsked \in Seq(PhPorts) /\ PhData \in PhDatas
  /\ phDst \subseteq PhClockSet \cup {"rt"} /\ phDefault \in BOOLEAN /\ phMissed \in BOOLEAN /\ phSub \in BOOLEAN
\* reconfigure goes through the clocks to the last; one it asks the ports of has a new state.
PhLeft(list) == list \in Seq(PhClockSet) /\ (list # << >> => Last(list) = Last(PhClocks))
PhAtClock(list) ==
  /\ phPc = [at |-> "clock", clocks |-> list] /\ PhLeft(list)
  /\ list = << >> => phClock[Last(PhClocks)].new = "none"
PhAtPort(list, ports) ==
  /\ phPc = [at |-> "port", clocks |-> list, ports |-> ports] /\ PhLeft(list) /\ list # << >>
  /\ ports \in SUBSET PhPorts /\ ports # {} /\ phClock[Head(list)].new # "none"
PhStands == phPc = [at |-> "sleep"] \/ (\E list : PhAtClock(list)) \/ (\E list, ports : PhAtPort(list, ports))
\* Unless a change was not notified, phc2sys holds what ptp4l has, but for what is still to be read.
PhKnown == ~phMissed => PhHeard(phPort, phChan, phReal) /\ PhAgrees(phPort, phClock)
\* A new state is applied in this reconfiguration, in the next, or is that of the source taken by default.
PhPending ==
  ~phChanged => \A c \in PhClockSet : phClock[c].new # "none" =>
                  IF phPc.at = "sleep" THEN phDefault /\ c = phMaster ELSE c \in ToSet(phPc.clocks)
PhDefaulted ==
  phPc.at = "sleep" /\ phDefault /\ ~phMissed => phMaster \in PhClockSet /\ phClock[phMaster].new # "none"
PhInv == PhTyped /\ PhStands /\ PhKnown /\ PhPending /\ PhDefaulted /\ PhNoFight

LEMMA PhInvSound == PhInv => PhSound
<1> SUFFICES ASSUME PhInv PROVE PhFollows
  BY DEF PhInv, PhSound
<1> SUFFICES ASSUME phPc.at = "sleep", phChan = << >>, ~phChanged, ~phMissed, NEW c \in ToSet(PhClocks)
             PROVE  PhCompute(phReal, c) = IF phDefault /\ c = phMaster THEN phClock[c].new ELSE phClock[c].state
  BY DEF PhFollows
<1>1. phPort = phReal /\ c \in PhClockSet
  BY PhHeardAll DEF PhInv, PhKnown, PhClockSet
<1>2. PhCompute(phReal, c) = IF phClock[c].new # "none" THEN phClock[c].new ELSE phClock[c].state
  BY <1>1 DEF PhInv, PhKnown, PhAgrees
<1>3. CASE phDefault /\ c = phMaster
  BY <1>2, <1>3 DEF PhInv, PhDefaulted
<1>4. CASE ~(phDefault /\ c = phMaster)
  <2>1. phClock[c].new = "none"
    BY <1>1, <1>4 DEF PhInv, PhPending
  <2>2. QED
    BY <1>2, <1>4, <2>1
<1>5. QED
  BY <1>3, <1>4

LEMMA PhNoFightStays ==
  ASSUME PhNoFight, phPc.at = "sleep", UNCHANGED <<phDst, phMaster, phRtState, phDefault>>,
         phDst \subseteq PhClockSet \cup {"rt"}, \A c \in PhClockSet : phClock'[c].state = phClock[c].state
  PROVE  PhNoFight'
<1> SUFFICES ASSUME phPc'.at = "sleep", ~phDefault', NEW c \in PhUpdated' \ {"rt"}, NEW d \in ToSet(PhClocks),
                    PhPhc[c] = PhPhc[d]
             PROVE  phClock'[d].state \notin {"UNCALIBRATED", "SLAVE"}
  BY DEF PhNoFight
<1>1. phMaster # "none" /\ c \in phDst /\ c \in PhClockSet /\ d \in PhClockSet
  BY DEF PhUpdated, PhClockSet
<1>2. c \in PhUpdated \ {"rt"}
  BY <1>1 DEF PhUpdated
<1>3. phClock[d].state \notin {"UNCALIBRATED", "SLAVE"}
  BY <1>2 DEF PhNoFight
<1>4. QED
  BY <1>1, <1>3

LEMMA PhMaxPort == ASSUME NEW ports \in SUBSET PhPorts, ports # {} PROVE Max(ports) \in ports
<1>1. PhPorts = 1..Len(PhClockOf) /\ Len(PhClockOf) \in Nat
  BY PhAssumption DEF PhPorts
<1>2. QED
  BY <1>1, MaxOf

----------------------------------------------------------------------------
LEMMA PhInitInv == PhInit => PhInv
<1> SUFFICES ASSUME PhInit PROVE PhInv
  OBVIOUS
<1>1. /\ phReal \in [PhPorts -> PhStates] /\ phPort = phReal /\ phChan = << >> /\ phAsked = << >> /\ phSub = TRUE
      /\ phClock = [c \in PhClockSet |-> [state |-> "none", new |-> PhCompute(phReal, c)]]
      /\ phDst = {} /\ phMaster = "none" /\ phPc = [at |-> "sleep"]
  BY DEF PhInit, PhClockSet
<1>2. phChanged /\ ~phMissed /\ ~phDefault
  BY DEF PhInit
<1>2a. phChanged \in BOOLEAN /\ phMissed \in BOOLEAN /\ phDefault \in BOOLEAN
  BY DEF PhInit
<1>3. \A c \in PhClockSet : PhCompute(phReal, c) \in PhStates
  BY <1>1, PhComputeState
<1>4. phClock \in [PhClockSet -> PhOne]
  BY <1>1, <1>3 DEF PhOne
<1>5. PhTyped
  BY <1>1, <1>2a, <1>4 DEF PhTyped, PhData, PhDatas
<1>6. PhAgrees(phPort, phClock)
  <2> SUFFICES ASSUME NEW c \in PhClockSet
               PROVE  PhCompute(phPort, c) = IF phClock[c].new # "none" THEN phClock[c].new ELSE phClock[c].state
    BY DEF PhAgrees
  <2>1. phClock[c].new = PhCompute(phReal, c)
    BY <1>1
  <2>2. PhCompute(phReal, c) # "none"
    BY <1>3 DEF PhStates
  <2>3. QED
    BY <1>1, <2>1, <2>2
<1>7. PhHeard(phPort, phChan, phReal)
  <2>1. PhChain([i \in 0..0 |-> phReal], phPort, phChan, phReal)
    BY <1>1 DEF PhChain
  <2>2. QED
    BY <2>1 DEF PhHeard
<1>8. PhStands /\ PhKnown
  BY <1>1, <1>6, <1>7 DEF PhStands, PhKnown
<1>9. PhPending /\ PhDefaulted
  BY <1>2 DEF PhPending, PhDefaulted
<1>10. PhNoFight
  BY <1>1 DEF PhNoFight, PhUpdated
<1>11. QED
  BY <1>5, <1>8, <1>9, <1>10 DEF PhInv

\* Where neither phc2sys nor what it holds moves
PhRests == UNCHANGED <<phPort, phClock, phRtState, phDst, phMaster, phDefault, phChanged, phPc>>

LEMMA PhRestsKeep ==
  ASSUME PhInv, PhRests, phMissed' \in BOOLEAN, phMissed => phMissed'
  PROVE  PhStands' /\ PhPending' /\ PhDefaulted' /\ PhNoFight' /\ PhData' \in PhDatas
<1>1. PhStands'
  BY DEF PhInv, PhRests, PhStands, PhAtClock, PhAtPort
<1>2. PhPending' /\ PhDefaulted'
  BY DEF PhInv, PhRests, PhPending, PhDefaulted
<1>3. PhNoFight'
  BY DEF PhInv, PhRests, PhNoFight, PhUpdated
<1>4. PhData' \in PhDatas
  BY DEF PhInv, PhRests, PhTyped, PhData
<1>5. QED
  BY <1>1, <1>2, <1>3, <1>4

LEMMA PhPortChangesStep ==
  ASSUME PhInv, NEW p \in PhPorts, NEW s \in PhStates, PhPortChanges(p, s)
  PROVE  PhInv'
<1> DEFINE m == [k |-> "note", port |-> p, state |-> s]
<1>1. /\ phReal' = [phReal EXCEPT ![p] = s] /\ phAsked' = phAsked /\ phSub' = phSub
      /\ phChan' = IF phSub THEN Append(phChan, m) ELSE phChan
      /\ PhRests
  BY DEF PhPortChanges, PhRests, phConfVars
<1>2. phMissed' <=> (phMissed \/ ~phSub)
  BY DEF PhPortChanges
<1>2a. phMissed' \in BOOLEAN
  BY DEF PhPortChanges
<1>3. /\ phReal \in [PhPorts -> PhStates] /\ phChan \in Seq(PhMsgs) /\ phAsked \in Seq(PhPorts)
      /\ phDst \subseteq PhClockSet \cup {"rt"} /\ phDefault \in BOOLEAN /\ phSub \in BOOLEAN
  BY DEF PhInv, PhTyped
<1>4. m \in PhMsgs /\ m.port = p /\ m.state = s /\ m.k # "resp"
  BY DEF PhMsgs
<1> HIDE DEF m
<1>5. phReal' \in [PhPorts -> PhStates]
  BY <1>1, <1>3
<1>6. phChan' \in Seq(PhMsgs)
  BY <1>1, <1>3, <1>4, AppendProperties
<1>7. PhStands' /\ PhPending' /\ PhDefaulted' /\ PhNoFight' /\ PhData' \in PhDatas
  BY <1>1, <1>2, <1>2a, PhRestsKeep
<1>8. PhTyped'
  BY <1>1, <1>2a, <1>3, <1>5, <1>6, <1>7 DEF PhTyped, PhRests
<1>9. PhKnown'
  <2> SUFFICES ASSUME ~phMissed' PROVE PhHeard(phPort, phChan', phReal') /\ PhAgrees(phPort, phClock)
    BY <1>1 DEF PhKnown, PhRests
  <2>1. ~phMissed /\ phSub
    BY <1>2
  <2>2. PhHeard(phPort, phChan, phReal) /\ PhAgrees(phPort, phClock)
    BY <2>1 DEF PhInv, PhKnown
  <2>3. phChan' = Append(phChan, m)
    BY <1>1, <2>1
  <2>4. PICK real \in [PhPorts -> PhStates] : real = phReal'
    BY <1>5
  <2>5. PhHeard(phPort, Append(phChan, m), real)
    BY <1>1, <1>3, <1>4, <2>2, <2>4, PhHeardMore
  <2>6. QED
    BY <2>2, <2>3, <2>4, <2>5
<1>10. QED
  BY <1>7, <1>8, <1>9 DEF PhInv

LEMMA PhAnswersStep == ASSUME PhInv, PhAnswers PROVE PhInv'
<1> DEFINE p == Head(phAsked)
           m == [k |-> "resp", port |-> p, state |-> phReal[p]]
<1>1. /\ phAsked # << >> /\ phAsked' = Tail(phAsked) /\ phChan' = Append(phChan, m)
      /\ phReal' = phReal /\ PhRests
  BY DEF PhAnswers, PhRests, phConfVars, phPtpVars
<1>2. (phMissed' <=> phMissed) /\ (phSub' <=> phSub)
  BY DEF PhAnswers, phPtpVars
<1>2a. phMissed' \in BOOLEAN /\ phSub' \in BOOLEAN
  BY DEF PhAnswers, phPtpVars, PhInv, PhTyped
<1>3. /\ phReal \in [PhPorts -> PhStates] /\ phChan \in Seq(PhMsgs) /\ phAsked \in Seq(PhPorts)
      /\ phDst \subseteq PhClockSet \cup {"rt"} /\ phDefault \in BOOLEAN
  BY DEF PhInv, PhTyped
<1>4. p \in PhPorts /\ phAsked' \in Seq(PhPorts)
  BY <1>1, <1>3, HeadTailProperties
<1>5. phReal[p] \in PhStates
  BY <1>3, <1>4
<1> HIDE DEF p
<1>6. m \in PhMsgs /\ m.port = p /\ m.state = phReal[p]
  BY <1>4, <1>5 DEF PhMsgs
<1> HIDE DEF m
<1>7. phChan' \in Seq(PhMsgs)
  BY <1>1, <1>3, <1>6, AppendProperties
<1>8. PhStands' /\ PhPending' /\ PhDefaulted' /\ PhNoFight' /\ PhData' \in PhDatas
  BY <1>1, <1>2, <1>2a, PhRestsKeep
<1>9. PhTyped'
  BY <1>1, <1>2a, <1>3, <1>4, <1>7, <1>8 DEF PhTyped, PhRests
<1>10. PhKnown'
  <2> SUFFICES ASSUME ~phMissed' PROVE PhHeard(phPort, phChan', phReal) /\ PhAgrees(phPort, phClock)
    BY <1>1 DEF PhKnown, PhRests
  <2>1. PhHeard(phPort, phChan, phReal) /\ PhAgrees(phPort, phClock)
    BY <1>2 DEF PhInv, PhKnown
  <2>2. phReal = [phReal EXCEPT ![m.port] = m.state]
    BY <1>3, <1>4, <1>6
  <2>3. PhHeard(phPort, Append(phChan, m), phReal)
    BY <1>3, <1>6, <2>1, <2>2, PhHeardMore
  <2>4. QED
    BY <1>1, <2>1, <2>3
<1>11. QED
  BY <1>8, <1>9, <1>10 DEF PhInv

LEMMA PhSubscriptionStep == ASSUME PhInv, PhSubscription PROVE PhInv'
<1>1. PhRests /\ UNCHANGED <<phReal, phChan, phAsked, phMissed>>
  BY DEF PhSubscription, PhRests, phConfVars
<1>2. phSub' \in BOOLEAN
  BY DEF PhSubscription
<1>3. phMissed' \in BOOLEAN /\ (phMissed => phMissed')
  BY <1>1 DEF PhInv, PhTyped
<1>4. PhStands' /\ PhPending' /\ PhDefaulted' /\ PhNoFight' /\ PhData' \in PhDatas
  BY <1>1, <1>3, PhRestsKeep
<1>5. PhTyped'
  BY <1>1, <1>2, <1>3, <1>4 DEF PhInv, PhTyped, PhRests
<1>6. PhKnown'
  BY <1>1 DEF PhInv, PhKnown, PhRests
<1>7. QED
  BY <1>4, <1>5, <1>6 DEF PhInv

LEMMA PhHeardNone == ASSUME NEW real \in [PhPorts -> PhStates] PROVE PhHeard(real, << >>, real)
<1>1. PhChain([i \in 0..0 |-> real], real, << >>, real)
  BY DEF PhChain
<1>2. QED
  BY <1>1 DEF PhHeard

LEMMA PhLastClock == PhClocks \in Seq(PhClockSet) /\ PhClocks # << >> /\ Last(PhClocks) \in PhClockSet
<1>1. PhClocks \in Seq(STRING \ {"none", "rt"}) /\ PhClocks # << >>
  BY PhAssumption
<1> DEFINE n == Len(PhClocks)
<1>2. n \in Nat /\ n > 0 /\ DOMAIN PhClocks = 1..n /\ PhClocks \in [1..n -> STRING \ {"none", "rt"}]
  BY <1>1, EmptySeq, LenProperties
<1>3. PhClockSet = {PhClocks[i] : i \in 1..n}
  BY <1>2 DEF PhClockSet, ToSet
<1>4. PhClocks \in [1..n -> PhClockSet]
  BY <1>2, <1>3
<1>5. PhClocks \in Seq(PhClockSet)
  BY <1>2, <1>4, SeqDef
<1>6. Last(PhClocks) = PhClocks[n] /\ n \in 1..n
  BY <1>2 DEF Last
<1>7. QED
  BY <1>1, <1>3, <1>5, <1>6

LEMMA PhLeftTail ==
  ASSUME NEW list, PhLeft(list), list # << >>
  PROVE  /\ Head(list) \in PhClockSet /\ PhLeft(Tail(list))
         /\ Tail(list) = << >> => Head(list) = Last(PhClocks)
         /\ \A c \in ToSet(list) : c # Head(list) => c \in ToSet(Tail(list))
<1> DEFINE n == Len(list)
           rest == Tail(list)
<1>1. list \in Seq(PhClockSet) /\ Last(list) = Last(PhClocks)
  BY DEF PhLeft
<1>2. /\ n \in Nat /\ n > 0 /\ Head(list) = list[1] /\ DOMAIN list = 1..n
      /\ rest \in Seq(PhClockSet) /\ Len(rest) = n - 1 /\ DOMAIN rest = 1..(n - 1)
      /\ \A i \in 1..(n - 1) : rest[i] = list[i + 1]
  BY <1>1, HeadTailProperties, EmptySeq, LenProperties
<1>3. Head(list) \in PhClockSet
  BY <1>1, HeadTailProperties
<1>4. Last(list) = list[n] /\ Last(rest) = rest[n - 1]
  BY <1>2 DEF Last
<1>5. list \in [1..n -> PhClockSet] /\ rest \in [1..(n - 1) -> PhClockSet]
  BY <1>1, <1>2, LenProperties
<1>5a. rest = << >> => n - 1 = 0
  BY <1>2
<1>5b. rest # << >> => n - 1 # 0
  BY <1>2, EmptySeq
<1> HIDE DEF n, rest
<1>6. rest # << >> => Last(rest) = Last(list)
  <2> SUFFICES ASSUME rest # << >> PROVE Last(rest) = Last(list)
    OBVIOUS
  <2>1. n - 1 \in 1..(n - 1) /\ (n - 1) + 1 = n
    BY <1>2, <1>5b
  <2>2. QED
    BY <1>2, <1>4, <2>1
<1>7. rest = << >> => Head(list) = Last(PhClocks)
  <2> SUFFICES ASSUME rest = << >> PROVE Head(list) = Last(PhClocks)
    OBVIOUS
  <2>1. n = 1
    BY <1>2, <1>5a
  <2>2. QED
    BY <1>1, <1>2, <1>4, <2>1
<1>8. ASSUME NEW c \in ToSet(list), c # Head(list) PROVE c \in ToSet(rest)
  <2>1. PICK i \in 1..n : c = list[i]
    BY <1>2 DEF ToSet
  <2>2. i # 1
    BY <1>2, <1>8, <2>1
  <2>3. i - 1 \in 1..(n - 1) /\ (i - 1) + 1 = i
    BY <1>2, <2>2
  <2>4. rest[i - 1] = c
    BY <1>2, <2>1, <2>3
  <2>5. QED
    BY <1>2, <2>3, <2>4 DEF ToSet
<1>9. PhLeft(rest)
  BY <1>1, <1>2, <1>6 DEF PhLeft
<1>10. QED
  BY <1>3, <1>7, <1>8, <1>9 DEF rest

----------------------------------------------------------------------------
LEMMA PhPassStep == ASSUME PhInv, NEW answered \in BOOLEAN, PhPass(answered) PROVE PhInv'
<1> DEFINE d == PhDrain
<1>1. /\ phPc.at = "sleep" /\ phChan' = << >> /\ phReal' = phReal /\ phAsked' = phAsked
      /\ phRtState' = phRtState /\ phMaster' = phMaster
  BY DEF PhPass, phPtpVars
<1>2. (phMissed' <=> phMissed) /\ (phSub' <=> phSub) /\ (phDefault' <=> phDefault)
  BY DEF PhPass, phPtpVars
<1>2a. phMissed' \in BOOLEAN /\ phSub' \in BOOLEAN /\ phDefault' \in BOOLEAN /\ phDefault' = phDefault
  BY DEF PhPass, phPtpVars, PhInv, PhTyped
<1>3. /\ phReal \in [PhPorts -> PhStates] /\ phChan \in Seq(PhMsgs) /\ phAsked \in Seq(PhPorts) /\ PhData \in PhDatas
      /\ phDst \subseteq PhClockSet \cup {"rt"}
  BY DEF PhInv, PhTyped
<1>4. phPc = [at |-> "sleep"]
  BY <1>1 DEF PhInv, PhStands, PhAtClock, PhAtPort
<1>5. PhLater(PhData, d) /\ (PhHeard(phPort, phChan, phReal) => d.port = phReal)
  BY <1>3, PhDrainFacts
<1>6. /\ d \in PhDatas /\ PhData.port = phPort /\ PhData.clock = phClock /\ (PhData.changed <=> phChanged)
      /\ d.port \in [PhPorts -> PhStates] /\ d.clock \in [PhClockSet -> PhOne] /\ d.changed \in BOOLEAN
  BY <1>5 DEF PhLater, PhData, PhDatas
<1>7. CASE d.changed /\ answered
  <2>1. /\ phPort' = d.port /\ phClock' = d.clock /\ phPc' = [at |-> "clock", clocks |-> PhClocks] /\ phDst' = {}
    <3>1. /\ PhTake([d EXCEPT !.changed = FALSE]) /\ phPc' = PhNextClock(PhClocks) /\ phDst' = {}
      BY <1>7 DEF PhPass
    <3> HIDE DEF d
    <3>2. QED
      BY <1>6, <3>1 DEF PhTake, PhDatas, PhNextClock
  <2>2. ~phChanged' /\ phChanged' \in BOOLEAN
    <3>1. PhTake([d EXCEPT !.changed = FALSE])
      BY <1>7 DEF PhPass
    <3> HIDE DEF d
    <3>2. phChanged' = FALSE
      BY <1>6, <3>1 DEF PhTake, PhDatas
    <3>3. QED
      BY <3>2
  <2> HIDE DEF d
  <2>3. PhData' \in PhDatas
    BY <1>6, <2>1, <2>2 DEF PhData, PhDatas
  <2>4. PhTyped'
    BY <1>1, <1>2a, <1>3, <2>1, <2>3, EmptySeq DEF PhTyped
  <2>5. PhStands'
    <3>1. PhLeft(PhClocks) /\ PhClocks # << >>
      BY PhLastClock DEF PhLeft
    <3>2. PhAtClock(PhClocks)'
      BY <2>1, <3>1 DEF PhAtClock
    <3>3. QED
      BY <3>2 DEF PhStands
  <2>6. PhKnown'
    <3> SUFFICES ASSUME ~phMissed' PROVE PhHeard(phPort', phChan', phReal') /\ PhAgrees(phPort', phClock')
      BY DEF PhKnown
    <3>1. PhHeard(phPort, phChan, phReal) /\ PhAgrees(phPort, phClock)
      BY <1>2 DEF PhInv, PhKnown
    <3>2. d.port = phReal /\ PhAgrees(d.port, d.clock)
      BY <1>5, <1>6, <3>1 DEF PhLater
    <3>3. PhHeard(phReal, << >>, phReal)
      BY <1>3, PhHeardNone
    <3>4. QED
      BY <1>1, <2>1, <3>2, <3>3
  <2>7. PhPending' /\ PhDefaulted' /\ PhNoFight'
    BY <2>1 DEF PhPending, PhDefaulted, PhNoFight, PhClockSet
  <2>8. QED
    BY <2>4, <2>5, <2>6, <2>7 DEF PhInv
<1>8. CASE ~(d.changed /\ answered)
  <2>1. phPort' = d.port /\ phClock' = d.clock /\ phPc' = phPc /\ phDst' = phDst
    BY <1>8 DEF PhPass, PhTake
  <2>2. phChanged' = d.changed
    BY <1>8 DEF PhPass, PhTake
  <2>2a. (phChanged' <=> d.changed) /\ phChanged' \in BOOLEAN
    BY <1>6, <2>2
  <2> HIDE DEF d
  <2>3. PhData' \in PhDatas
    BY <1>6, <2>1, <2>2a DEF PhData, PhDatas
  <2>4. PhTyped'
    BY <1>1, <1>2a, <1>3, <2>1, <2>3, EmptySeq DEF PhTyped
  <2>5. PhStands'
    BY <1>4, <2>1 DEF PhStands
  <2>6. PhKnown'
    <3> SUFFICES ASSUME ~phMissed' PROVE PhHeard(phPort', phChan', phReal') /\ PhAgrees(phPort', phClock')
      BY DEF PhKnown
    <3>1. PhHeard(phPort, phChan, phReal) /\ PhAgrees(phPort, phClock)
      BY <1>2 DEF PhInv, PhKnown
    <3>2. d.port = phReal /\ PhAgrees(d.port, d.clock)
      BY <1>5, <1>6, <3>1 DEF PhLater
    <3>3. PhHeard(phReal, << >>, phReal)
      BY <1>3, PhHeardNone
    <3>4. QED
      BY <1>1, <2>1, <3>2, <3>3
  <2>7. PhPending'
    <3> SUFFICES ASSUME ~phChanged', NEW c \in PhClockSet, phClock'[c].new # "none"
                 PROVE  phDefault' /\ c = phMaster'
      BY <1>1, <2>1 DEF PhPending
    <3>1. ~phChanged /\ phClock' = phClock
      BY <1>5, <1>6, <2>1, <2>2a DEF PhLater
    <3>2. phDefault /\ c = phMaster
      BY <1>1, <3>1 DEF PhInv, PhPending
    <3>3. QED
      BY <1>1, <1>2, <3>2
  <2>8. PhDefaulted'
    <3> SUFFICES ASSUME phDefault', ~phMissed' PROVE phMaster' \in PhClockSet /\ phClock'[phMaster'].new # "none"
      BY DEF PhDefaulted
    <3>1. phMaster \in PhClockSet /\ phClock[phMaster].new # "none"
      BY <1>1, <1>2 DEF PhInv, PhDefaulted
    <3>2. QED
      BY <1>1, <1>5, <1>6, <2>1, <3>1 DEF PhLater
  <2>9. PhNoFight'
    <3>1. \A c \in PhClockSet : phClock'[c].state = phClock[c].state
      BY <1>5, <1>6, <2>1 DEF PhLater
    <3>2. QED
      BY <1>1, <1>2a, <1>3, <2>1, <3>1, PhNoFightStays DEF PhInv
  <2>10. QED
    BY <2>4, <2>5, <2>6, <2>7, <2>8, <2>9 DEF PhInv
<1>9. QED
  BY <1>7, <1>8

\* run_pmc_port_properties asks for the next port.
LEMMA PhAskFacts ==
  ASSUME NEW list, PhLeft(list), list # << >>, NEW ports \in SUBSET PhPorts, ports # {}, PhAsk(list, ports),
         phAsked \in Seq(PhPorts), phClock'[Head(list)].new # "none"
  PROVE  PhAtPort(list, ports)' /\ phAsked' \in Seq(PhPorts)
<1>1. Max(ports) \in PhPorts
  BY PhMaxPort
<1>2. phAsked' = Append(phAsked, Max(ports)) /\ phPc' = [at |-> "port", clocks |-> list, ports |-> ports]
  BY DEF PhAsk
<1>3. phAsked' \in Seq(PhPorts)
  BY <1>1, <1>2, AppendProperties
<1>4. QED
  BY <1>2, <1>3 DEF PhAtPort

LEMMA PhClockTurnStep == ASSUME PhInv, PhClockTurn PROVE PhInv'
<1>1. /\ phPc.at = "clock" /\ phPc.clocks # << >>
      /\ UNCHANGED <<phReal, phChan, phPort, phClock, phRtState, phDst, phMaster>>
  BY DEF PhClockTurn, phPtpVars, phConfVars
<1>2. UNCHANGED <<phMissed, phSub, phDefault, phChanged>>
  BY DEF PhClockTurn, phPtpVars, phConfVars
<1>2a. /\ phMissed' \in BOOLEAN /\ phSub' \in BOOLEAN /\ phDefault' \in BOOLEAN
       /\ (phMissed' <=> phMissed) /\ (phChanged' <=> phChanged)
  BY <1>2 DEF PhInv, PhTyped
<1>3. PICK list : PhAtClock(list)
  BY <1>1 DEF PhInv, PhStands, PhAtPort
<1>4. PhLeft(list) /\ phPc.clocks = list /\ list # << >> /\ phPc.at # "sleep"
  BY <1>1, <1>3 DEF PhAtClock
<1> DEFINE c == Head(list)
<1>5. /\ c \in PhClockSet /\ PhLeft(Tail(list)) /\ (Tail(list) = << >> => c = Last(PhClocks))
      /\ \A b \in ToSet(list) : b # c => b \in ToSet(Tail(list))
  BY <1>4, PhLeftTail
<1>6. PhData' \in PhDatas /\ phAsked \in Seq(PhPorts)
  BY <1>1, <1>2 DEF PhInv, PhTyped, PhData
<1>7. PhStands' /\ PhPending' /\ phPc'.at # "sleep" /\ phAsked' \in Seq(PhPorts)
  <2>1. CASE phClock[c].new # "none"
    <3>1. PhAsk(list, PhPortsOf(c))
      BY <1>4, <2>1 DEF PhClockTurn
    <3>2. PhPortsOf(c) \in SUBSET PhPorts /\ PhPortsOf(c) # {}
      BY <1>5, PhAssumption DEF PhPortsOf, PhPorts, PhClockSet
    <3> HIDE DEF c
    <3>3. phClock'[Head(list)].new # "none"
      BY <1>1, <2>1 DEF c
    <3>4. PhAtPort(list, PhPortsOf(c))' /\ phAsked' \in Seq(PhPorts)
      <4>1. PICK ports : ports = PhPortsOf(c)
        OBVIOUS
      <4>2. ports \in SUBSET PhPorts /\ ports # {} /\ PhAsk(list, ports)
        BY <3>1, <3>2, <4>1
      <4>3. PhAtPort(list, ports)' /\ phAsked' \in Seq(PhPorts)
        BY <1>4, <1>6, <3>3, <4>2, PhAskFacts
      <4>4. QED
        BY <4>1, <4>3 DEF PhAtPort, PhPortsOf
    <3>5. phPc'.clocks = list /\ phPc'.at = "port"
      BY <3>4 DEF PhAtPort
    <3>6. PhPending'
      BY <1>1, <1>2a, <1>4, <3>5 DEF PhInv, PhPending
    <3>7. QED
      BY <3>4, <3>5, <3>6 DEF PhStands
  <2>2. CASE phClock[c].new = "none"
    <3>1. phPc' = [at |-> "clock", clocks |-> Tail(list)] /\ phAsked' = phAsked
      BY <1>4, <2>2 DEF PhClockTurn, PhNextClock
    <3>2. PhAtClock(Tail(list))'
      <4>1. PICK rest : rest = Tail(list)
        OBVIOUS
      <4>2. PhAtClock(rest)'
        BY <1>1, <1>5, <2>2, <3>1, <4>1 DEF PhAtClock
      <4>3. QED
        BY <4>1, <4>2
    <3>3. PhPending'
      BY <1>1, <1>2a, <1>4, <1>5, <2>2, <3>1 DEF PhInv, PhPending
    <3>4. QED
      BY <1>6, <3>1, <3>2, <3>3 DEF PhStands
  <2>3. QED
    BY <2>1, <2>2
<1>8. PhTyped'
  BY <1>1, <1>2a, <1>6, <1>7 DEF PhInv, PhTyped
<1>9. PhKnown'
  BY <1>1, <1>2a DEF PhInv, PhKnown
<1>10. PhDefaulted' /\ PhNoFight'
  BY <1>7 DEF PhDefaulted, PhNoFight
<1>11. QED
  BY <1>7, <1>8, <1>9, <1>10 DEF PhInv

\* clock_reinit goes on to the next port, or reconfigure gives the clock its new state.
LEMMA PhPortDoneFacts ==
  ASSUME PhInv, NEW list, NEW set, PhAtPort(list, set), NEW ports \in [PhPorts -> PhStates],
         PhPortDone(ports, phClock), phChanged' = phChanged, phDefault' = phDefault, phMaster' = phMaster,
         ~phMissed => ports = phPort
  PROVE  /\ phAsked' \in Seq(PhPorts) /\ PhData' \in PhDatas /\ phPort' = ports
         /\ PhStands' /\ PhPending' /\ phPc'.at # "sleep"
         /\ ~phMissed => PhAgrees(phPort', phClock')
<1> DEFINE c == Head(list)
<1>1. /\ phPc.clocks = list /\ phPc.ports = set /\ phPc.at = "port" /\ PhLeft(list) /\ list # << >>
      /\ set \in SUBSET PhPorts /\ set # {} /\ phClock[c].new # "none"
  BY DEF PhAtPort
<1>2. /\ c \in PhClockSet /\ PhLeft(Tail(list)) /\ (Tail(list) = << >> => c = Last(PhClocks))
      /\ \A b \in ToSet(list) : b # c => b \in ToSet(Tail(list))
  BY <1>1, PhLeftTail
<1>3. phClock \in [PhClockSet -> PhOne] /\ phChanged \in BOOLEAN /\ phAsked \in Seq(PhPorts)
  BY DEF PhInv, PhTyped, PhData, PhDatas
<1>4. ASSUME ~phMissed PROVE PhAgrees(ports, phClock)
  BY <1>4 DEF PhInv, PhKnown
<1>5. phPort' = ports
  BY DEF PhPortDone
<1>6. ASSUME ~phChanged', NEW b \in PhClockSet, phClock[b].new # "none" PROVE b \in ToSet(list)
  <2>1. ~phChanged
    BY <1>6
  <2>2. QED
    BY <1>1, <1>6, <2>1 DEF PhInv, PhPending
<1>7. CASE set # {Max(set)}
  <2> DEFINE left == set \ {Max(set)}
  <2>1. PhAsk(list, left) /\ phClock' = phClock
    BY <1>1, <1>7 DEF PhPortDone
  <2>2. left \in SUBSET PhPorts /\ left # {}
    <3>1. Max(set) \in set
      BY <1>1, PhMaxPort
    <3>2. QED
      BY <1>1, <1>7, <3>1
  <2> HIDE DEF left
  <2>3. phClock'[Head(list)].new # "none"
    BY <1>1, <2>1
  <2>4. PICK all : all = left
    OBVIOUS
  <2>5. all \in SUBSET PhPorts /\ all # {} /\ PhAsk(list, all)
    BY <2>1, <2>2, <2>4
  <2>6. PhAtPort(list, all)' /\ phAsked' \in Seq(PhPorts)
    BY <1>1, <1>3, <2>3, <2>5, PhAskFacts
  <2>7. phPc'.at = "port" /\ phPc'.clocks = list
    BY <2>6 DEF PhAtPort
  <2>8. PhPending'
    BY <1>6, <2>1, <2>7 DEF PhPending
  <2>9. PhData' \in PhDatas
    BY <1>3, <1>5, <2>1 DEF PhData, PhDatas
  <2>10. QED
    BY <1>4, <1>5, <2>1, <2>6, <2>7, <2>8, <2>9 DEF PhStands
<1>8. CASE set = {Max(set)}
  <2>1. /\ phPc' = [at |-> "clock", clocks |-> Tail(list)] /\ phAsked' = phAsked
        /\ phClock' = [phClock EXCEPT ![c] = [state |-> phClock[c].new, new |-> "none"]]
    BY <1>1, <1>8 DEF PhPortDone, PhNextClock
  <2>2. [state |-> phClock[c].new, new |-> "none"] \in PhOne
    BY <1>2, <1>3 DEF PhOne
  <2>3. /\ phClock' \in [PhClockSet -> PhOne]
        /\ phClock'[c].state = phClock[c].new /\ phClock'[c].new = "none"
        /\ \A b \in PhClockSet : b # c => phClock'[b] = phClock[b]
    BY <1>2, <1>3, <2>1, <2>2
  <2>4. PhData' \in PhDatas
    BY <1>3, <1>5, <2>3 DEF PhData, PhDatas
  <2>5. ASSUME ~phMissed PROVE PhAgrees(ports, phClock')
    BY <1>1, <1>4, <2>3, <2>5 DEF PhAgrees
  <2> HIDE DEF c
  <2>6. PhAtClock(Tail(list))'
    <3>1. PICK rest : rest = Tail(list)
      OBVIOUS
    <3>2. PhAtClock(rest)'
      BY <1>2, <2>1, <2>3, <3>1 DEF PhAtClock
    <3>3. QED
      BY <3>1, <3>2
  <2>7. PhPending'
    <3> SUFFICES ASSUME ~phChanged', NEW b \in PhClockSet, phClock'[b].new # "none" PROVE b \in ToSet(Tail(list))
      BY <2>1 DEF PhPending
    <3>1. b # c /\ phClock[b].new # "none"
      BY <2>3
    <3>2. QED
      BY <1>2, <1>6, <3>1
  <2>8. QED
    BY <1>3, <1>5, <2>1, <2>4, <2>5, <2>6, <2>7 DEF PhStands
<1>9. QED
  BY <1>7, <1>8

LEMMA PhReadStep == ASSUME PhInv, PhRead PROVE PhInv'
<1> DEFINE m == Head(phChan)
<1>1. /\ phPc.at = "port" /\ phChan # << >> /\ phChan' = Tail(phChan)
      /\ UNCHANGED <<phReal, phRtState, phDst, phMaster>>
  BY DEF PhRead, phPtpVars, phConfVars
<1>2. UNCHANGED <<phMissed, phSub, phDefault>>
  BY DEF PhRead, phPtpVars, phConfVars
<1>2a. phMissed' \in BOOLEAN /\ phSub' \in BOOLEAN /\ phDefault' \in BOOLEAN /\ (phMissed' <=> phMissed)
  BY <1>2 DEF PhInv, PhTyped
<1>3. PICK list, set : PhAtPort(list, set)
  BY <1>1 DEF PhInv, PhStands, PhAtClock
<1>4. /\ PhLeft(list) /\ phPc.clocks = list /\ phPc.ports = set /\ list # << >>
      /\ set \in SUBSET PhPorts /\ set # {} /\ phClock[Head(list)].new # "none"
  BY <1>3 DEF PhAtPort
<1>5. /\ phReal \in [PhPorts -> PhStates] /\ phChan \in Seq(PhMsgs) /\ phAsked \in Seq(PhPorts) /\ PhData \in PhDatas
      /\ phPort \in [PhPorts -> PhStates]
  BY DEF PhInv, PhTyped, PhData, PhDatas
<1>6. m \in PhMsgs /\ phChan' \in Seq(PhMsgs)
  BY <1>1, <1>5, HeadTailProperties
<1>7. ASSUME ~phMissed
      PROVE  /\ PhHeard([phPort EXCEPT ![m.port] = m.state], phChan', phReal)
             /\ m.k = "resp" => [phPort EXCEPT ![m.port] = m.state] = phPort
             /\ PhAgrees(phPort, phClock)
  <2>1. PhHeard(phPort, phChan, phReal) /\ PhAgrees(phPort, phClock)
    BY <1>7 DEF PhInv, PhKnown
  <2>2. QED
    BY <1>1, <1>5, <2>1, PhHeardLess
<1>8. /\ phAsked' \in Seq(PhPorts) /\ PhData' \in PhDatas
      /\ PhStands' /\ PhPending' /\ phPc'.at # "sleep"
      /\ ~phMissed => PhHeard(phPort', phChan', phReal) /\ PhAgrees(phPort', phClock')
  <2>1. CASE m.k = "note" /\ PhTake(PhNoted(PhData, m)) /\ UNCHANGED <<phPc, phAsked>>
    <3> DEFINE e == PhNoted(PhData, m)
    <3>1. PhNotes(PhData, m, e)
      BY <1>5, <1>6, PhNotedFacts
    <3>2. phPort' = e.port /\ phClock' = e.clock /\ phPc' = phPc /\ phAsked' = phAsked
      BY <2>1 DEF PhTake
    <3>3. phChanged' = e.changed
      BY <2>1 DEF PhTake
    <3> HIDE DEF e
    <3>4. /\ e \in PhDatas /\ e.port \in [PhPorts -> PhStates] /\ e.clock \in [PhClockSet -> PhOne]
          /\ e.changed \in BOOLEAN
      BY <3>1 DEF PhNotes, PhDatas
    <3>5. (phChanged' <=> e.changed) /\ phChanged' \in BOOLEAN
      BY <3>3, <3>4
    <3>6. PhData' \in PhDatas
      BY <3>2, <3>4, <3>5 DEF PhData, PhDatas
    <3>7. PhData.port = phPort /\ PhData.clock = phClock /\ (PhData.changed <=> phChanged)
      BY <1>5 DEF PhData, PhDatas
    <3>8. phClock'[Head(list)].new # "none"
      <4>1. Head(list) \in PhClockSet
        BY <1>4, PhLeftTail
      <4>2. QED
        BY <1>4, <3>1, <3>2, <3>7, <4>1 DEF PhNotes
    <3>9. PhAtPort(list, set)'
      BY <1>3, <3>2, <3>8 DEF PhAtPort
    <3>10. PhPending'
      <4> SUFFICES ASSUME ~phChanged', NEW b \in PhClockSet, phClock'[b].new # "none" PROVE b \in ToSet(list)
        BY <1>1, <1>4, <3>2 DEF PhPending
      <4>1. ~phChanged /\ phClock' = phClock
        BY <3>1, <3>2, <3>5, <3>7 DEF PhNotes
      <4>2. QED
        BY <1>1, <1>4, <4>1 DEF PhInv, PhPending
    <3>11. ASSUME ~phMissed PROVE PhHeard(phPort', phChan', phReal) /\ PhAgrees(phPort', phClock')
      <4>1. phPort' = [phPort EXCEPT ![m.port] = m.state]
        BY <3>1, <3>2, <3>7 DEF PhNotes
      <4>2. PhAgrees(phPort', phClock')
        BY <1>7, <3>1, <3>2, <3>7, <3>11 DEF PhNotes
      <4>3. QED
        BY <1>7, <3>11, <4>1, <4>2
    <3>12. QED
      BY <1>1, <1>5, <3>2, <3>6, <3>9, <3>10, <3>11 DEF PhStands
  <2>2. CASE m.k = "resp" /\ m.port = Max(phPc.ports) /\ PhPortDone([phPort EXCEPT ![m.port] = m.state], phClock)
             /\ UNCHANGED phChanged
    <3> DEFINE ports == [phPort EXCEPT ![m.port] = m.state]
    <3>1. ports \in [PhPorts -> PhStates]
      BY <1>5, <1>6 DEF PhMsgs
    <3>2. ~phMissed => ports = phPort
      BY <1>7, <2>2
    <3>2a. ~phMissed => PhHeard(ports, phChan', phReal)
      BY <1>7
    <3> HIDE DEF ports
    <3>3. PICK q \in [PhPorts -> PhStates] : q = ports
      BY <3>1
    <3>4. PhPortDone(q, phClock)
      BY <2>2, <3>3 DEF ports
    <3>5. /\ phAsked' \in Seq(PhPorts) /\ PhData' \in PhDatas /\ phPort' = q
          /\ PhStands' /\ PhPending' /\ phPc'.at # "sleep"
          /\ ~phMissed => PhAgrees(phPort', phClock')
      BY <1>1, <1>2, <1>3, <2>2, <3>2, <3>3, <3>4, PhPortDoneFacts
    <3>6. QED
      BY <3>2a, <3>3, <3>5
  <2>3. CASE m.k = "resp" /\ PhAsk(phPc.clocks, phPc.ports) /\ UNCHANGED <<phPort, phClock, phChanged>>
    <3>1. phPort' = phPort /\ phClock' = phClock /\ PhAsk(list, set)
      BY <1>4, <2>3
    <3>2. phClock'[Head(list)].new # "none"
      BY <1>4, <3>1
    <3>3. PhAtPort(list, set)' /\ phAsked' \in Seq(PhPorts)
      BY <1>4, <1>5, <3>1, <3>2, PhAskFacts
    <3>4. phPc'.clocks = list /\ phPc'.at = "port"
      BY <3>3 DEF PhAtPort
    <3>5. PhData' \in PhDatas
      BY <1>5, <2>3 DEF PhData
    <3>6. (phChanged' <=> phChanged)
      BY <2>3
    <3>7. PhPending'
      BY <1>1, <1>4, <3>1, <3>4, <3>6 DEF PhInv, PhPending
    <3>8. ASSUME ~phMissed PROVE PhHeard(phPort', phChan', phReal) /\ PhAgrees(phPort', phClock')
      BY <1>7, <2>3, <3>1, <3>8
    <3>9. QED
      BY <3>3, <3>4, <3>5, <3>7, <3>8 DEF PhStands
  <2>4. QED
    BY <2>1, <2>2, <2>3 DEF PhRead
<1>9. PhTyped'
  BY <1>1, <1>2a, <1>5, <1>6, <1>8 DEF PhInv, PhTyped
<1>10. PhKnown'
  BY <1>1, <1>2a, <1>8 DEF PhKnown
<1>11. PhDefaulted' /\ PhNoFight'
  BY <1>8 DEF PhDefaulted, PhNoFight
<1>12. QED
  BY <1>8, <1>9, <1>10, <1>11 DEF PhInv

LEMMA PhTimeoutStep == ASSUME PhInv, PhTimeout PROVE PhInv'
<1>1. /\ phPc.at = "port" /\ PhPortDone(phPort, phClock)
      /\ UNCHANGED <<phReal, phChan, phRtState, phDst, phMaster>>
  BY DEF PhTimeout, phConfVars
<1>2. UNCHANGED <<phMissed, phSub, phDefault, phChanged>>
  BY DEF PhTimeout, phConfVars
<1>2a. phMissed' \in BOOLEAN /\ phSub' \in BOOLEAN /\ phDefault' \in BOOLEAN /\ (phMissed' <=> phMissed)
  BY <1>2 DEF PhInv, PhTyped
<1>3. PICK list, set : PhAtPort(list, set)
  BY <1>1 DEF PhInv, PhStands, PhAtClock
<1>4. phPort \in [PhPorts -> PhStates]
  BY DEF PhInv, PhTyped, PhData, PhDatas
<1>5. PICK q \in [PhPorts -> PhStates] : q = phPort
  BY <1>4
<1>6. PhPortDone(q, phClock)
  BY <1>1, <1>5
<1>7. /\ phAsked' \in Seq(PhPorts) /\ PhData' \in PhDatas /\ phPort' = q
      /\ PhStands' /\ PhPending' /\ phPc'.at # "sleep"
      /\ ~phMissed => PhAgrees(phPort', phClock')
  BY <1>1, <1>2, <1>3, <1>5, <1>6, PhPortDoneFacts
<1>8. PhTyped'
  BY <1>1, <1>2a, <1>7 DEF PhInv, PhTyped
<1>9. PhKnown'
  BY <1>1, <1>2a, <1>5, <1>7 DEF PhInv, PhKnown
<1>10. PhDefaulted' /\ PhNoFight'
  BY <1>7 DEF PhDefaulted, PhNoFight
<1>11. QED
  BY <1>7, <1>8, <1>9, <1>10 DEF PhInv

----------------------------------------------------------------------------
LEMMA PhIndices ==
  ASSUME NEW S, S \subseteq DOMAIN PhClocks, S # {}
  PROVE  Max(S) \in S
<1>1. DOMAIN PhClocks = 1..Len(PhClocks) /\ Len(PhClocks) \in Nat
  BY PhLastClock, LenProperties
<1>2. QED
  BY <1>1, MaxOf

LEMMA PhIndexed ==
  /\ \A i \in DOMAIN PhClocks : PhClocks[i] \in PhClockSet
  /\ \A c \in PhClockSet : \E i \in DOMAIN PhClocks : PhClocks[i] = c
BY PhLastClock, LenProperties DEF PhClockSet, ToSet

\* The one clock with a port that follows another clock is the source.
LEMMA PhNoFightChosen ==
  ASSUME UNCHANGED phClock,
         \/ phMaster' = "none"
         \/ PhSources = {}
         \/ (\A i, j \in PhSources : i = j) /\ PhSlaves # {} /\ phMaster' = PhClocks[Max(PhSlaves)]
  PROVE  PhNoFight'
<1> SUFFICES ASSUME NEW c \in PhUpdated' \ {"rt"}, NEW d \in ToSet(PhClocks), PhPhc[c] = PhPhc[d],
                    phClock[d].state \in {"UNCALIBRATED", "SLAVE"}
             PROVE  FALSE
  BY DEF PhNoFight
<1>1. phMaster' # "none" /\ (phMaster' # "rt" => PhPhc[c] # PhPhc[phMaster'])
  BY DEF PhUpdated
<1>2. PICK i \in DOMAIN PhClocks : PhClocks[i] = d
  BY PhIndexed DEF PhClockSet
<1>3. i \in PhSources
  BY <1>2 DEF PhSources, PhWith
<1>4. PhSlaves # {} /\ phMaster' = PhClocks[Max(PhSlaves)] /\ \A k, j \in PhSources : k = j
  BY <1>1, <1>3
<1>5. PhSlaves \subseteq DOMAIN PhClocks /\ PhSlaves \subseteq PhSources
  BY DEF PhSlaves, PhSources, PhWith
<1>6. Max(PhSlaves) \in PhSlaves
  <2> HIDE DEF PhSlaves
  <2>1. PICK S : S = PhSlaves
    OBVIOUS
  <2>2. QED
    BY <1>4, <1>5, <2>1, PhIndices
<1>7. phMaster' = d
  BY <1>2, <1>3, <1>4, <1>5, <1>6
<1>8. d # "rt"
  <2>1. \A k \in DOMAIN PhClocks : PhClocks[k] \in STRING \ {"none", "rt"}
    BY PhAssumption, ElementOfSeq
  <2>2. QED
    BY <1>2, <2>1
<1>9. QED
  BY <1>1, <1>7, <1>8

LEMMA PhReconfiguredStep == ASSUME PhInv, PhReconfigured PROVE PhInv'
<1> DEFINE c == Last(PhClocks)
<1>1. /\ phPc.at = "clock" /\ phPc.clocks = << >> /\ phPc' = [at |-> "sleep"]
      /\ UNCHANGED <<phReal, phChan, phAsked, phPort>>
  BY DEF PhReconfigured, phPtpVars
<1>2. UNCHANGED <<phMissed, phSub, phChanged>>
  BY DEF PhReconfigured, phPtpVars
<1>2a. /\ phMissed' \in BOOLEAN /\ phSub' \in BOOLEAN /\ (phMissed' <=> phMissed) /\ (phChanged' <=> phChanged)
       /\ phChanged' \in BOOLEAN
  BY <1>2 DEF PhInv, PhTyped, PhData, PhDatas
<1>3. PICK list : PhAtClock(list)
  BY <1>1 DEF PhInv, PhStands, PhAtPort
<1>4. phClock[c].new = "none"
  BY <1>1, <1>3 DEF PhAtClock
<1>5. c \in PhClockSet
  BY PhLastClock
<1> HIDE DEF c
<1>6. phClock \in [PhClockSet -> PhOne] /\ phPort \in [PhPorts -> PhStates]
  BY DEF PhInv, PhTyped, PhData, PhDatas
<1>7. ASSUME ~phChanged, NEW b \in PhClockSet PROVE phClock[b].new = "none"
  <2>1. ToSet(<< >>) = {}
    BY DEF ToSet
  <2>2. QED
    BY <1>1, <1>7, <2>1 DEF PhInv, PhPending
<1>8. PhDsts \subseteq PhClockSet
  BY PhIndexed DEF PhDsts, PhWith
<1>9. /\ PhData' \in PhDatas /\ phDst' \subseteq PhClockSet \cup {"rt"} /\ phDefault' \in BOOLEAN
      /\ PhPending' /\ PhDefaulted' /\ PhNoFight'
      /\ ~phMissed => PhAgrees(phPort, phClock')
  <2>1. CASE /\ phMaster' = c /\ phDst' = PhDsts /\ phDefault' = TRUE
             /\ phClock' = [phClock EXCEPT ![c] = [state |-> "SLAVE", new |-> phClock[c].state]]
    <3>1. [state |-> "SLAVE", new |-> phClock[c].state] \in PhOne
      BY <1>5, <1>6 DEF PhOne, PhStates
    <3>2. /\ phClock' \in [PhClockSet -> PhOne]
          /\ phClock'[c].new = phClock[c].state /\ phClock'[c].state = "SLAVE"
          /\ \A b \in PhClockSet : b # c => phClock'[b] = phClock[b]
      BY <1>5, <1>6, <2>1, <3>1
    <3>3. PhData' \in PhDatas
      BY <1>1, <1>2a, <1>6, <3>2 DEF PhData, PhDatas
    <3>4. phDefault' /\ phDefault' \in BOOLEAN
      BY <2>1
    <3>5. phMaster' = c /\ phDst' = PhDsts
      BY <2>1
    <3>6. PhPending'
      <4> SUFFICES ASSUME ~phChanged', NEW b \in PhClockSet, phClock'[b].new # "none" PROVE b = c
        BY <1>1, <3>4, <3>5 DEF PhPending
      <4>1. QED
        BY <1>2a, <1>7, <3>2
    <3>7. ASSUME ~phMissed PROVE phClock'[c].new # "none" /\ PhAgrees(phPort, phClock')
      <4>1. PhAgrees(phPort, phClock)
        BY <3>7 DEF PhInv, PhKnown
      <4>2. PhCompute(phPort, c) = phClock[c].state /\ PhCompute(phPort, c) \in PhStates
        BY <1>4, <1>5, <1>6, <4>1, PhComputeState DEF PhAgrees
      <4>3. phClock[c].state # "none"
        BY <4>2 DEF PhStates
      <4>4. PhAgrees(phPort, phClock')
        BY <3>2, <4>1, <4>2, <4>3 DEF PhAgrees
      <4>5. QED
        BY <3>2, <4>3, <4>4
    <3>8. PhDefaulted'
      BY <1>2a, <1>5, <3>5, <3>7 DEF PhDefaulted
    <3>9. PhNoFight'
      BY <3>4 DEF PhNoFight
    <3>10. QED
      BY <1>8, <3>3, <3>4, <3>5, <3>6, <3>7, <3>8, <3>9
  <2>2. CASE /\ phClock' = phClock /\ phDst' \subseteq PhDsts \cup {"rt"} /\ phDefault' = FALSE
             /\ \/ phMaster' = "none"
                \/ PhSources = {}
                \/ (\A i, j \in PhSources : i = j) /\ PhSlaves # {} /\ phMaster' = PhClocks[Max(PhSlaves)]
    <3>1. ~phDefault' /\ phDefault' \in BOOLEAN /\ phClock' = phClock
      BY <2>2
    <3>2. PhData' \in PhDatas
      BY <1>1, <1>2a, <1>6, <3>1 DEF PhData, PhDatas
    <3>3. PhPending' /\ PhDefaulted'
      BY <1>2a, <1>7, <3>1 DEF PhPending, PhDefaulted
    <3>4. PhNoFight'
      BY <2>2, PhNoFightChosen
    <3>5. phDst' \subseteq PhClockSet \cup {"rt"}
      BY <1>8, <2>2
    <3>6. ~phMissed => PhAgrees(phPort, phClock')
      BY <3>1 DEF PhInv, PhKnown
    <3>7. QED
      BY <3>1, <3>2, <3>3, <3>4, <3>5, <3>6
  <2>3. QED
    <3>1. CASE PhNoSource
      <4>1. /\ phMaster' = c /\ phDst' = PhDsts /\ phDefault' = TRUE
            /\ phClock' = [phClock EXCEPT ![c] = [state |-> "SLAVE", new |-> phClock[c].state]]
        BY <3>1 DEF PhReconfigured, c
      <4>2. QED
        BY <2>1, <4>1
    <3>2. CASE ~PhNoSource /\ PhAmbiguous
      <4>1. phClock' = phClock /\ phDst' \subseteq PhDsts \cup {"rt"} /\ phDefault' = FALSE /\ phMaster' = "none"
        BY <3>2 DEF PhReconfigured
      <4>2. QED
        BY <2>2, <4>1
    <3>3. CASE ~PhNoSource /\ ~PhAmbiguous /\ PhSources = {}
      <4>1. phClock' = phClock /\ phDst' \subseteq PhDsts \cup {"rt"} /\ phDefault' = FALSE
        BY <3>3 DEF PhReconfigured
      <4>2. QED
        BY <2>2, <3>3, <4>1
    <3>4. CASE ~PhNoSource /\ ~PhAmbiguous /\ PhSources # {}
      <4>1. /\ phClock' = phClock /\ phDst' \subseteq PhDsts \cup {"rt"} /\ phDefault' = FALSE
            /\ phMaster' = PhClocks[Max(PhSlaves)]
        BY <3>4 DEF PhReconfigured
      <4>2. (\A i, j \in PhSources : i = j) /\ PhSlaves # {}
        BY <3>4 DEF PhAmbiguous
      <4>3. QED
        BY <2>2, <4>1, <4>2
    <3>5. QED
      BY <3>1, <3>2, <3>3, <3>4
<1>10. PhTyped'
  BY <1>1, <1>2a, <1>9 DEF PhInv, PhTyped
<1>11. PhKnown'
  BY <1>1, <1>2a, <1>9 DEF PhInv, PhKnown
<1>12. PhStands'
  BY <1>1 DEF PhStands
<1>13. QED
  BY <1>9, <1>10, <1>11, <1>12 DEF PhInv

LEMMA PhInvNext == PhInv /\ [PhNext]_phVars => PhInv'
<1> SUFFICES ASSUME PhInv, [PhNext]_phVars PROVE PhInv'
  OBVIOUS
<1>1. CASE UNCHANGED phVars
  <2>1. PhRests /\ UNCHANGED <<phReal, phChan, phAsked, phMissed, phSub>>
    BY <1>1 DEF phVars, PhRests
  <2>2. phMissed' \in BOOLEAN /\ (phMissed => phMissed') /\ phSub' \in BOOLEAN
    BY <2>1 DEF PhInv, PhTyped
  <2>3. PhStands' /\ PhPending' /\ PhDefaulted' /\ PhNoFight' /\ PhData' \in PhDatas
    BY <2>1, <2>2, PhRestsKeep
  <2>4. PhTyped'
    BY <2>1, <2>2, <2>3 DEF PhInv, PhTyped, PhRests
  <2>5. PhKnown'
    BY <2>1 DEF PhInv, PhKnown, PhRests
  <2>6. QED
    BY <2>3, <2>4, <2>5 DEF PhInv
<1>2. ASSUME NEW p \in PhPorts, NEW s \in PhStates, PhPortChanges(p, s) PROVE PhInv'
  BY <1>2, PhPortChangesStep
<1>3. ASSUME NEW answered \in BOOLEAN, PhPass(answered) PROVE PhInv'
  BY <1>3, PhPassStep
<1>4. QED
  BY <1>1, <1>2, <1>3, PhAnswersStep, PhSubscriptionStep, PhClockTurnStep, PhReadStep, PhTimeoutStep,
     PhReconfiguredStep DEF PhNext

\* phc2sys works on the states ptp4l really has and never against it, for any number of ports and clocks, however
\* the interfaces share their PHCs and the messages of ptp4l fall into a reconfiguration.
THEOREM PhAlwaysSound == PhSpec => []PhSound
<1>1. PhInv /\ [PhNext]_phVars => PhInv'
  BY PhInvNext
<1>2. QED
  BY <1>1, PhInitInv, PhInvSound, PTL DEF PhSpec

----------------------------------------------------------------------------
(* Unicast negotiation.  What the service keeps for its clients             *)

UsIntervals(Tm) == [tmo : Tm, types : [UcClients -> SUBSET UcTypes], till : [UcClients -> Nat]]
UsQueues(Tm) == [UcPeriods -> {<< >>} \cup UsIntervals(Tm)]
UsTmos(iv) == {iv[p].tmo : p \in {q \in UcPeriods : iv[q] # << >>}}

\* The interval p serves a type of message to c, and until when c's Sync messages are served
UsServes(iv, p, c, type) == iv[p] # << >> /\ type \in iv[p].types[c]
UsKept(iv, t) == \E p \in UcPeriods : UsServes(iv, p, "c", "SYNC") /\ iv[p].till["c"] >= t
UsSingle(iv) ==
  \A c \in UcClients, type \in {"ANNOUNCE", "SYNC"} :
    \A p, q \in UcPeriods : UsServes(iv, p, c, type) /\ UsServes(iv, q, c, type) => p = q

LEMMA UcConsts ==
  /\ UcDuration \in Nat /\ UcDuration >= 2 /\ UcPeriods \subseteq Nat /\ UcPeriods # {} /\ Min(UcPeriods) \in UcPeriods
  /\ UcLosses \in Nat /\ (3 * UcDuration) \div 4 \in Nat /\ (3 * UcDuration) \div 4 >= 1
  /\ UcLosses <= UcDuration - ((3 * UcDuration) \div 4)
<1>1. /\ UcDuration \in Nat /\ UcDuration >= 2 /\ UcPeriods \subseteq Nat /\ UcPeriods # {}
      /\ UcLosses \in Nat /\ UcLosses <= UcDuration - ((3 * UcDuration) \div 4)
  BY UcAssumption
<1>2. \E x \in UcPeriods : \A y \in UcPeriods : x <= y
  BY <1>1, LeastOf
<1>3. Min(UcPeriods) \in UcPeriods
  BY <1>2 DEF Min
<1>4. (3 * UcDuration) \div 4 \in Nat /\ (3 * UcDuration) \div 4 >= 1
  <2>1. ASSUME NEW d \in Nat, d >= 2 PROVE (3 * d) \div 4 \in Nat /\ (3 * d) \div 4 >= 1
    BY <2>1
  <2>2. QED
    BY <1>1, <2>1
<1>5. QED
  BY <1>1, <1>3, <1>4

LEMMA UcMaxOf ==
  ASSUME NEW a \in Nat, NEW b \in Nat
  PROVE  Max({a, b}) \in Nat /\ Max({a, b}) >= a /\ Max({a, b}) >= b
<1>1. \E x \in {a, b} : \A y \in {a, b} : x >= y
  OBVIOUS
<1>2. Max({a, b}) \in {a, b} /\ \A y \in {a, b} : Max({a, b}) >= y
  BY <1>1 DEF Max
<1>3. QED
  BY <1>2

LEMMA UsIntervalIs == ASSUME NEW Tm, NEW i \in UsIntervals(Tm) PROVE i # << >>
<1>1. DOMAIN i = {"tmo", "types", "till"}
  BY DEF UsIntervals
<1>2. QED
  BY <1>1

LEMMA UsQueueIs ==
  ASSUME NEW Tm, NEW iv \in UsQueues(Tm)
  PROVE  iv \in UsQueues(UsTmos(iv))
<1>1. ASSUME NEW p \in UcPeriods PROVE iv[p] \in {<< >>} \cup UsIntervals(UsTmos(iv))
  <2>1. CASE iv[p] = << >>
    BY <2>1
  <2>2. CASE iv[p] # << >>
    <3>1. iv[p] \in UsIntervals(Tm)
      BY <2>2 DEF UsQueues
    <3>2. iv[p].tmo \in UsTmos(iv)
      BY <2>2 DEF UsTmos
    <3>3. QED
      BY <3>1, <3>2 DEF UsIntervals
  <2>3. QED
    BY <2>1, <2>2
<1>2. QED
  BY <1>1 DEF UsQueues

LEMMA UsQueueMore ==
  ASSUME NEW Tm, NEW iv \in UsQueues(Tm), NEW Tn, Tm \subseteq Tn
  PROVE  iv \in UsQueues(Tn)
<1>1. UsIntervals(Tm) \subseteq UsIntervals(Tn)
  BY DEF UsIntervals
<1>2. QED
  BY <1>1 DEF UsQueues

\* j is i with other types and another end of the grant for the client c.
UsSet(i, c, types, till) == [i EXCEPT !.types[c] = types, !.till[c] = till]
UsIsSet(Tm, i, c, types, till, j) ==
  /\ j \in UsIntervals(Tm) /\ j.types[c] = types /\ j.till[c] = till
  /\ \A x \in UcClients : x # c => j.types[x] = i.types[x] /\ j.till[x] = i.till[x]

LEMMA UsIntervalSet ==
  ASSUME NEW Tm, NEW i \in UsIntervals(Tm), NEW c \in UcClients, NEW types \in SUBSET UcTypes, NEW till \in Nat
  PROVE  UsIsSet(Tm, i, c, types, till, UsSet(i, c, types, till))
<1>1. /\ i.types \in [UcClients -> SUBSET UcTypes] /\ i.till \in [UcClients -> Nat]
      /\ i = [tmo |-> i.tmo, types |-> i.types, till |-> i.till] /\ i.tmo \in Tm
  BY DEF UsIntervals
<1>2. PICK a, b, j : a = [i.types EXCEPT ![c] = types] /\ b = [i.till EXCEPT ![c] = till] /\ j = UsSet(i, c, types, till)
  OBVIOUS
<1>3. /\ a \in [UcClients -> SUBSET UcTypes] /\ b \in [UcClients -> Nat] /\ a[c] = types /\ b[c] = till
      /\ \A x \in UcClients : x # c => a[x] = i.types[x] /\ b[x] = i.till[x]
  BY <1>1, <1>2
<1>4. j = [tmo |-> i.tmo, types |-> a, till |-> b]
  BY <1>1, <1>2 DEF UsSet
<1>5. UsIsSet(Tm, i, c, types, till, j)
  BY <1>1, <1>3, <1>4 DEF UsIntervals, UsIsSet
<1>6. QED
  BY <1>2, <1>5

\* Without the type
UsIsDrop(Tm, i, c, type, j) ==
  /\ j \in UsIntervals(Tm) /\ j.types[c] = i.types[c] \ {type}
  /\ i.types[c] \ {type} # {} => j.till[c] = i.till[c]
  /\ \A x \in UcClients : x # c => j.types[x] = i.types[x] /\ j.till[x] = i.till[x]

LEMMA UsDropIs ==
  ASSUME NEW Tm, NEW i \in UsIntervals(Tm), NEW c \in UcClients, NEW type
  PROVE  UsIsDrop(Tm, i, c, type, UsDrop(i, c, type))
<1> DEFINE left == i.types[c] \ {type}
           till == IF left = {} THEN 0 ELSE i.till[c]
<1>1. left \in SUBSET UcTypes /\ till \in Nat
  BY DEF UsIntervals
<1>2. UsDrop(i, c, type) = UsSet(i, c, left, till)
  BY DEF UsDrop, UsSet
<1>3. left # {} => till = i.till[c]
  OBVIOUS
<1> HIDE DEF till
<1>4. UsIsSet(Tm, i, c, left, till, UsDrop(i, c, type))
  <2> HIDE DEF left
  <2> QED BY <1>1, <1>2, UsIntervalSet
<1>5. QED
  BY <1>3, <1>4 DEF UsIsSet, UsIsDrop

\* With the type, for the duration of a grant
UsIsJoin(Tm, i, c, type, j) ==
  /\ j \in UsIntervals(Tm) /\ j.types[c] = i.types[c] \cup {type}
  /\ j.till[c] >= i.till[c] /\ j.till[c] >= ucNow + UcDuration
  /\ \A x \in UcClients : x # c => j.types[x] = i.types[x] /\ j.till[x] = i.till[x]

LEMMA UsJoinIs ==
  ASSUME NEW Tm, NEW i \in UsIntervals(Tm), NEW c \in UcClients, NEW type \in UcTypes, ucNow \in Nat
  PROVE  UsIsJoin(Tm, i, c, type, UsExtend([i EXCEPT !.types[c] = @ \cup {type}], c))
<1> DEFINE types == i.types[c] \cup {type}
           till == Max({i.till[c], ucNow + UcDuration})
           j == UsExtend([i EXCEPT !.types[c] = @ \cup {type}], c)
<1>1. types \in SUBSET UcTypes /\ i.till[c] \in Nat /\ ucNow + UcDuration \in Nat
  BY UcConsts DEF UsIntervals
<1>2. till \in Nat /\ till >= i.till[c] /\ till >= ucNow + UcDuration
  BY <1>1, UcMaxOf
<1>3. j = UsSet(i, c, types, till)
  <2>1. PICK k : k = [i EXCEPT !.types[c] = types]
    OBVIOUS
  <2>2. k.till = i.till
    BY <2>1 DEF UsIntervals
  <2>3. j = [k EXCEPT !.till[c] = till]
    BY <2>1, <2>2 DEF UsExtend
  <2>4. QED
    BY <2>1, <2>3 DEF UsSet
<1> HIDE DEF till, j
<1>4. UsIsSet(Tm, i, c, types, till, j)
  <2> HIDE DEF types
  <2> QED BY <1>1, <1>2, <1>3, UsIntervalSet
<1>5. UsIsJoin(Tm, i, c, type, j)
  BY <1>2, <1>4 DEF UsIsSet, UsIsJoin
<1>6. QED
  BY <1>5 DEF j

LEMMA UsExtendIs ==
  ASSUME NEW Tm, NEW i \in UsIntervals(Tm), NEW c \in UcClients, NEW type \in i.types[c], ucNow \in Nat
  PROVE  UsIsJoin(Tm, i, c, type, UsExtend(i, c))
<1>1. type \in UcTypes /\ i.types[c] \cup {type} = i.types[c]
  BY DEF UsIntervals
<1>2. i = [i EXCEPT !.types[c] = @ \cup {type}]
  <2>1. i.types = [i.types EXCEPT ![c] = @ \cup {type}]
    BY <1>1 DEF UsIntervals
  <2>2. QED
    BY <2>1 DEF UsIntervals
<1>3. UsExtend(i, c) = UsExtend([i EXCEPT !.types[c] = @ \cup {type}], c)
  BY <1>2
<1>4. QED
  BY <1>1, <1>3, UsJoinIs

\* m serves what iv does but for the client c's messages of this type, which only the interval "per" may.
UsMoved(iv, m, c, type, per) ==
  \A p \in UcPeriods \ {per}, x \in UcClients, ty \in UcTypes :
    /\ UsServes(m, p, x, ty) <=> UsServes(iv, p, x, ty) /\ ~(x = c /\ ty = type)
    /\ UsServes(m, p, x, ty) => m[p].till[x] = iv[p].till[x]

LEMMA UsMigrateIs ==
  ASSUME NEW Tm, NEW iv \in UsQueues(Tm), NEW c \in UcClients, NEW type \in UcTypes, NEW per \in UcPeriods
  PROVE  /\ UsMigrate(iv, c, type, per) \in UsQueues(Tm) /\ UsMigrate(iv, c, type, per)[per] = iv[per]
         /\ UsMoved(iv, UsMigrate(iv, c, type, per), c, type, per)
<1> DEFINE m == UsMigrate(iv, c, type, per)
<1>1. /\ m = [p \in UcPeriods |-> m[p]]
      /\ \A p \in UcPeriods : m[p] = IF p = per \/ iv[p] = << >> THEN iv[p] ELSE UsDrop(iv[p], c, type)
  BY DEF UsMigrate
<1> HIDE DEF m
<1>2. ASSUME NEW p \in UcPeriods, p # per, iv[p] # << >> PROVE iv[p] \in UsIntervals(Tm) /\ UsIsDrop(Tm, iv[p], c, type, m[p])
  <2>1. iv[p] \in UsIntervals(Tm)
    BY <1>2 DEF UsQueues
  <2>2. m[p] = UsDrop(iv[p], c, type)
    BY <1>1, <1>2
  <2>3. QED
    BY <2>1, <2>2, UsDropIs
<1>3. m \in UsQueues(Tm)
  <2>1. ASSUME NEW p \in UcPeriods PROVE m[p] \in {<< >>} \cup UsIntervals(Tm)
    <3>1. CASE p = per \/ iv[p] = << >>
      BY <1>1, <3>1 DEF UsQueues
    <3>2. CASE ~(p = per \/ iv[p] = << >>)
      BY <1>2, <3>2 DEF UsIsDrop
    <3>3. QED
      BY <3>1, <3>2
  <2>2. QED
    BY <1>1, <2>1 DEF UsQueues
<1>4. UsMoved(iv, m, c, type, per)
  <2> SUFFICES ASSUME NEW p \in UcPeriods \ {per}, NEW x \in UcClients, NEW ty \in UcTypes
               PROVE  /\ UsServes(m, p, x, ty) <=> UsServes(iv, p, x, ty) /\ ~(x = c /\ ty = type)
                      /\ UsServes(m, p, x, ty) => m[p].till[x] = iv[p].till[x]
    BY DEF UsMoved
  <2>1. CASE iv[p] = << >>
    BY <1>1, <2>1 DEF UsServes
  <2>2. CASE iv[p] # << >>
    <3>1. UsIsDrop(Tm, iv[p], c, type, m[p])
      BY <1>2, <2>2
    <3>2. m[p] # << >>
      BY <3>1, UsIntervalIs DEF UsIsDrop
    <3>3. CASE x = c
      BY <2>2, <3>1, <3>2, <3>3 DEF UsIsDrop, UsServes
    <3>4. CASE x # c
      BY <2>2, <3>1, <3>2, <3>4 DEF UsIsDrop, UsServes
    <3>5. QED
      BY <3>3, <3>4
  <2>3. QED
    BY <2>1, <2>2
<1>5. QED
  BY <1>1, <1>3, <1>4 DEF m

\* What a request makes of the intervals: it is served if it is granted, and disturbs nothing else.
UsAdded(iv, new, c, type, ok) ==
  /\ UsSingle(new)
  /\ type = "SYNC" /\ c = "c" /\ ok => UsKept(new, ucNow + UcDuration)
  /\ ~(type = "SYNC" /\ c = "c") => \A t \in Int : UsKept(iv, t) => UsKept(new, t)

LEMMA UsDenies ==
  ASSUME NEW Tm, NEW iv \in UsQueues(Tm), UsSingle(iv), NEW c \in UcClients, NEW type \in UcTypes, NEW per \in UcPeriods,
         NEW m, m[per] = iv[per], UsMoved(iv, m, c, type, per)
  PROVE  UsAdded(iv, m, c, type, FALSE)
<1>1. \A p \in UcPeriods, x \in UcClients, ty \in UcTypes : UsServes(m, p, x, ty) => UsServes(iv, p, x, ty)
  BY DEF UsMoved, UsServes
<1>2. {"ANNOUNCE", "SYNC"} \subseteq UcTypes /\ "c" \in UcClients
  BY DEF UcTypes, UcClients
<1>3. UsSingle(m)
  BY <1>1, <1>2 DEF UsSingle
<1>4. ASSUME ~(type = "SYNC" /\ c = "c"), NEW t \in Int, UsKept(iv, t) PROVE UsKept(m, t)
  <2>1. PICK p \in UcPeriods : UsServes(iv, p, "c", "SYNC") /\ iv[p].till["c"] >= t
    BY <1>4 DEF UsKept
  <2>2. UsServes(m, p, "c", "SYNC") /\ m[p].till["c"] = iv[p].till["c"]
    <3>1. CASE p = per
      BY <2>1, <3>1 DEF UsServes
    <3>2. CASE p # per
      BY <1>2, <1>4, <2>1, <3>2 DEF UsMoved
    <3>3. QED
      BY <3>1, <3>2
  <2>3. QED
    BY <2>1, <2>2 DEF UsKept
<1>5. QED
  BY <1>3, <1>4 DEF UsAdded

LEMMA UsPuts ==
  ASSUME NEW Tm, NEW iv \in UsQueues(Tm), UsSingle(iv), NEW c \in UcClients, NEW type \in UcTypes, NEW per \in UcPeriods,
         NEW m \in UsQueues(Tm), UsMoved(iv, m, c, type, per), ucNow \in Nat,
         NEW i \in UsIntervals(Tm), IF iv[per] = << >> THEN \A x \in UcClients : i.types[x] = {} ELSE i = iv[per],
         NEW j, UsIsJoin(Tm, i, c, type, j)
  PROVE  [m EXCEPT ![per] = j] \in UsQueues(Tm) /\ UsAdded(iv, [m EXCEPT ![per] = j], c, type, TRUE)
<1> DEFINE v == [m EXCEPT ![per] = j]
<1>1. /\ v \in UsQueues(Tm) /\ v[per] = j /\ \A p \in UcPeriods \ {per} : v[p] = m[p]
  BY DEF UsQueues, UsIsJoin
<1> HIDE DEF v
<1>2. j # << >> /\ i # << >>
  BY UsIntervalIs DEF UsIsJoin
<1>3. {"ANNOUNCE", "SYNC"} \subseteq UcTypes /\ "c" \in UcClients
  BY DEF UcTypes, UcClients
<1>4. ASSUME NEW x \in UcClients, NEW ty \in UcTypes, ~(x = c /\ ty = type), NEW p \in UcPeriods
      PROVE  UsServes(v, p, x, ty) <=> UsServes(iv, p, x, ty)
  <2>1. CASE p # per
    <3>1. v[p] = m[p]
      BY <1>1, <2>1
    <3>2. UsServes(m, p, x, ty) <=> UsServes(iv, p, x, ty)
      BY <1>4, <2>1 DEF UsMoved
    <3>3. QED
      BY <3>1, <3>2 DEF UsServes
  <2>2. CASE p = per
    <3>1. ty \in j.types[x] <=> ty \in i.types[x]
      BY <1>4 DEF UsIsJoin
    <3>2. UsServes(v, per, x, ty) <=> ty \in j.types[x]
      BY <1>1, <1>2 DEF UsServes
    <3>3. UsServes(iv, per, x, ty) <=> ty \in i.types[x]
      BY <1>2 DEF UsServes
    <3>4. QED
      BY <2>2, <3>1, <3>2, <3>3
  <2>3. QED
    BY <2>1, <2>2
<1>5. ASSUME NEW p \in UcPeriods, UsServes(v, p, c, type) PROVE p = per
  <2> SUFFICES ASSUME p # per PROVE FALSE
    OBVIOUS
  <2>1. UsServes(m, p, c, type)
    BY <1>1, <1>5 DEF UsServes
  <2>2. QED
    BY <2>1 DEF UsMoved
<1>6. UsSingle(v)
  <2> SUFFICES ASSUME NEW x \in UcClients, NEW ty \in {"ANNOUNCE", "SYNC"}, NEW p \in UcPeriods, NEW q \in UcPeriods,
                      UsServes(v, p, x, ty), UsServes(v, q, x, ty)
               PROVE  p = q
    BY DEF UsSingle
  <2>1. CASE x = c /\ ty = type
    BY <1>5, <2>1
  <2>2. CASE ~(x = c /\ ty = type)
    BY <1>3, <1>4, <2>2 DEF UsSingle
  <2>3. QED
    BY <2>1, <2>2
<1>7. ASSUME type = "SYNC", c = "c" PROVE UsKept(v, ucNow + UcDuration)
  <2>1. type \in j.types[c] /\ j.till[c] >= ucNow + UcDuration
    BY DEF UsIsJoin
  <2>2. UsServes(v, per, c, type) /\ v[per].till[c] >= ucNow + UcDuration
    BY <1>1, <1>2, <2>1 DEF UsServes
  <2>3. QED
    BY <1>7, <2>2 DEF UsKept
<1>8. ASSUME ~(type = "SYNC" /\ c = "c"), NEW t \in Int, UsKept(iv, t) PROVE UsKept(v, t)
  <2>1. PICK p \in UcPeriods : UsServes(iv, p, "c", "SYNC") /\ iv[p].till["c"] >= t
    BY <1>8 DEF UsKept
  <2>2. UsServes(v, p, "c", "SYNC")
    BY <1>3, <1>4, <1>8, <2>1
  <2>3. v[p].till["c"] >= t
    <3>1. CASE p = per
      <4>1. i = iv[per] /\ i.till["c"] >= t
        BY <2>1, <3>1 DEF UsServes
      <4>2. j.till["c"] >= i.till["c"] /\ i.till["c"] \in Nat /\ j.till["c"] \in Nat
        <5>1. i.till["c"] \in Nat /\ j.till["c"] \in Nat
          BY <1>3 DEF UsIsJoin, UsIntervals
        <5>2. CASE c = "c"
          BY <5>1, <5>2 DEF UsIsJoin
        <5>3. CASE c # "c"
          BY <1>3, <5>1, <5>3 DEF UsIsJoin
        <5>4. QED
          BY <5>1, <5>2, <5>3
      <4>3. v[p] = j
        BY <1>1, <3>1
      <4>4. QED
        BY <4>1, <4>2, <4>3
    <3>2. CASE p # per
      <4>1. UsServes(m, p, "c", "SYNC") /\ v[p] = m[p]
        BY <1>1, <2>2, <3>2 DEF UsServes
      <4>2. m[p].till["c"] = iv[p].till["c"]
        BY <1>3, <3>2, <4>1 DEF UsMoved
      <4>3. QED
        BY <2>1, <4>1, <4>2
    <3>3. QED
      BY <3>1, <3>2
  <2>4. QED
    BY <2>2, <2>3 DEF UsKept
<1>9. UsAdded(iv, v, c, type, TRUE)
  BY <1>6, <1>7, <1>8 DEF UsAdded
<1>10. QED
  BY <1>1, <1>9 DEF v

\* The service and its answers while it takes the requests of a message in turn
UcTlvs == [type : UcTypes, per : UcPeriods]
UcGrants == [k : {"grant"}, type : UcTypes, per : UcPeriods, dur : {0, UcDuration}]
UsAnswers(Tm, timers) ==
  {s \in [iv : UsQueues(Tm), timer : timers, ok : BOOLEAN, out : SUBSET UcGrants, denied : BOOLEAN] : UsSingle(s.iv)}
UsTimers(Tm) == {UsRearm(v) : v \in UsQueues(Tm)}
UsAddsTo(Tm, timers, s, c, type, n) ==
  /\ n \in UsAnswers(Tm, timers) /\ n.out = s.out /\ n.denied = s.denied
  /\ UsAdded(s.iv, n.iv, c, type, n.ok)

LEMMA UcEmptyIs ==
  ASSUME NEW Tm, ucNow \in Tm
  PROVE  UcEmpty \in UsIntervals(Tm) /\ \A x \in UcClients : UcEmpty.types[x] = {}
BY DEF UcEmpty, UsIntervals

LEMMA UsAnswersSet ==
  ASSUME NEW Tm, NEW timers, NEW s \in UsAnswers(Tm, timers), NEW c, NEW type, NEW iv \in UsQueues(Tm)
  PROVE  \A ok \in BOOLEAN : UsAdded(s.iv, iv, c, type, ok) =>
           UsAddsTo(Tm, timers, s, c, type, [s EXCEPT !.iv = iv, !.ok = ok])
<1>1. TAKE ok \in BOOLEAN
<1> DEFINE n == [s EXCEPT !.iv = iv, !.ok = ok]
<1>2. s \in [iv : UsQueues(Tm), timer : timers, ok : BOOLEAN, out : SUBSET UcGrants, denied : BOOLEAN]
  BY DEF UsAnswers
<1>3. n \in [iv : UsQueues(Tm), timer : timers, ok : BOOLEAN, out : SUBSET UcGrants, denied : BOOLEAN]
  BY <1>2
<1>4. n.iv = iv /\ n.out = s.out
  BY <1>2
<1>5. n.denied = s.denied
  BY <1>2
<1>6. n.ok = ok
  BY <1>2
<1> HIDE DEF n
<1>7. HAVE UsAdded(s.iv, iv, c, type, ok)
<1>8. UsSingle(n.iv)
  BY <1>4, <1>7 DEF UsAdded
<1>9. UsAdded(s.iv, n.iv, c, type, n.ok)
  BY <1>4, <1>6, <1>7
<1>10. UsAddsTo(Tm, timers, s, c, type, n)
  BY <1>3, <1>4, <1>5, <1>8, <1>9 DEF UsAddsTo, UsAnswers
<1>11. QED
  BY <1>10 DEF n

LEMMA UsAnswersTimer ==
  ASSUME NEW Tm, NEW timers, NEW s, NEW c, NEW type, NEW n, UsAddsTo(Tm, timers, s, c, type, n), NEW timer \in timers
  PROVE  UsAddsTo(Tm, timers, s, c, type, [n EXCEPT !.timer = timer])
<1> DEFINE m == [n EXCEPT !.timer = timer]
<1>1. n \in [iv : UsQueues(Tm), timer : timers, ok : BOOLEAN, out : SUBSET UcGrants, denied : BOOLEAN] /\ UsSingle(n.iv)
  BY DEF UsAddsTo, UsAnswers
<1>2. m \in [iv : UsQueues(Tm), timer : timers, ok : BOOLEAN, out : SUBSET UcGrants, denied : BOOLEAN]
  BY <1>1
<1>3. m.iv = n.iv /\ m.out = n.out
  BY <1>1
<1>4. m.denied = n.denied
  BY <1>1
<1>5. m.ok = n.ok
  BY <1>1
<1> HIDE DEF m
<1>6. UsSingle(m.iv)
  BY <1>1, <1>3
<1>7. UsAdded(s.iv, m.iv, c, type, m.ok)
  BY <1>3, <1>5 DEF UsAddsTo
<1>8. m.out = s.out /\ m.denied = s.denied
  BY <1>3, <1>4 DEF UsAddsTo
<1>9. UsAddsTo(Tm, timers, s, c, type, m)
  BY <1>2, <1>6, <1>7, <1>8 DEF UsAddsTo, UsAnswers
<1>10. QED
  BY <1>9 DEF m

\* unicast_service_add
LEMMA UsAddIs ==
  ASSUME NEW Tm, ucNow \in Tm, ucNow \in Nat, NEW timers, UsTimers(Tm) \subseteq timers, NEW s \in UsAnswers(Tm, timers),
         NEW c \in UcClients, NEW type \in UcTypes, NEW per \in UcPeriods, NEW fail
  PROVE  UsAddsTo(Tm, timers, s, c, type, UsAdd(s, c, type, per, fail))
<1> DEFINE old == s.iv[per]
           others == UsMigrate(s.iv, c, type, per)
           joined(i) == UsExtend([i EXCEPT !.types[c] = @ \cup {type}], c)
           put(i) == [others EXCEPT ![per] = joined(i)]
           granted(iv) == [s EXCEPT !.iv = iv, !.ok = TRUE]
           denied == [s EXCEPT !.iv = others, !.ok = FALSE]
           n == UsAdd(s, c, type, per, fail)
           Ok(x) == UsAddsTo(Tm, timers, s, c, type, x)
<1>1. /\ s.iv \in UsQueues(Tm) /\ UsSingle(s.iv) /\ s.timer \in timers
  BY DEF UsAnswers
<1>2. old \in {<< >>} \cup UsIntervals(Tm)
  BY <1>1 DEF UsQueues
<1>3. others \in UsQueues(Tm) /\ others[per] = old /\ UsMoved(s.iv, others, c, type, per)
  BY <1>1, UsMigrateIs
<1>4. ASSUME NEW iv \in UsQueues(Tm), UsAdded(s.iv, iv, c, type, TRUE) PROVE Ok(granted(iv))
  BY <1>4, UsAnswersSet
<1>5. Ok(denied)
  <2>1. UsAdded(s.iv, others, c, type, FALSE)
    BY <1>1, <1>3, UsDenies
  <2> HIDE DEF others
  <2>2. QED
    BY <1>3, <2>1, UsAnswersSet
<1>6. ASSUME NEW i \in UsIntervals(Tm), IF old = << >> THEN \A x \in UcClients : i.types[x] = {} ELSE i = old
      PROVE  put(i) \in UsQueues(Tm) /\ UsAdded(s.iv, put(i), c, type, TRUE)
  <2>1. UsIsJoin(Tm, i, c, type, joined(i))
    BY <1>6, UsJoinIs
  <2> HIDE DEF joined, others
  <2>2. QED
    BY <1>1, <1>3, <1>6, <2>1, UsPuts
<1>7. CASE type \in {"DELAY_RESP", "PDELAY_RESP"}
  <2>1. n = [s EXCEPT !.ok = TRUE]
    BY <1>7 DEF UsAdd
  <2>2. n = granted(s.iv)
    <3>1. s \in [iv : UsQueues(Tm), timer : timers, ok : BOOLEAN, out : SUBSET UcGrants, denied : BOOLEAN]
      BY DEF UsAnswers
    <3>2. QED
      BY <2>1, <3>1
  <2>3. UsAdded(s.iv, s.iv, c, type, TRUE)
    BY <1>1, <1>7 DEF UsAdded
  <2> HIDE DEF n, granted, Ok
  <2>4. QED
    <3>1. Ok(n)
      BY <1>1, <1>4, <2>2, <2>3
    <3>2. QED
      BY <3>1 DEF Ok, n
<1>8. CASE type \notin {"DELAY_RESP", "PDELAY_RESP"} /\ old # << >> /\ type \in old.types[c]
  <2> DEFINE v == [s.iv EXCEPT ![per] = UsExtend(old, c)]
  <2>1. n = granted(v)
    BY <1>8 DEF UsAdd
  <2>2. UsMoved(s.iv, s.iv, c, type, per)
    <3>1. type \in {"ANNOUNCE", "SYNC"}
      BY <1>8 DEF UcTypes
    <3>2. UsServes(s.iv, per, c, type)
      BY <1>8 DEF UsServes
    <3>3. \A p \in UcPeriods \ {per} : ~UsServes(s.iv, p, c, type)
      BY <1>1, <3>1, <3>2 DEF UsSingle
    <3>4. QED
      BY <3>3 DEF UsMoved
  <2>3. old \in UsIntervals(Tm)
    BY <1>2, <1>8
  <2>4. UsIsJoin(Tm, old, c, type, UsExtend(old, c))
    BY <1>8, <2>3, UsExtendIs
  <2>5. v \in UsQueues(Tm) /\ UsAdded(s.iv, v, c, type, TRUE)
    BY <1>1, <1>8, <2>2, <2>3, <2>4, UsPuts
  <2> HIDE DEF n, granted, Ok, v
  <2>6. Ok(n)
    BY <1>4, <2>1, <2>5
  <2>7. QED
    BY <2>6 DEF Ok, n
<1>9. CASE type \notin {"DELAY_RESP", "PDELAY_RESP"} /\ old # << >> /\ type \notin old.types[c]
  <2>1. n = denied \/ n = granted(put(old))
    BY <1>9 DEF UsAdd
  <2>2. put(old) \in UsQueues(Tm) /\ UsAdded(s.iv, put(old), c, type, TRUE)
    BY <1>2, <1>6, <1>9
  <2> HIDE DEF n, granted, denied, Ok, put
  <2>3. Ok(n)
    BY <1>4, <1>5, <2>1, <2>2
  <2>4. QED
    BY <2>3 DEF Ok, n
<1>10. CASE type \notin {"DELAY_RESP", "PDELAY_RESP"} /\ old = << >>
  <2> DEFINE v == put(UcEmpty)
  <2>1. n = denied \/ n = [granted(v) EXCEPT !.timer = UsRearm(v)]
    BY <1>10 DEF UsAdd
  <2>2. v \in UsQueues(Tm) /\ UsAdded(s.iv, v, c, type, TRUE)
    BY <1>6, <1>10, UcEmptyIs
  <2>3. UsRearm(v) \in timers
    BY <2>2 DEF UsTimers
  <2> HIDE DEF v
  <2>4. Ok(granted(v))
    BY <1>4, <2>2
  <2> HIDE DEF granted, denied, n
  <2>5. Ok([granted(v) EXCEPT !.timer = UsRearm(v)])
    BY <2>3, <2>4, UsAnswersTimer
  <2> HIDE DEF Ok
  <2>6. Ok(n)
    BY <1>5, <2>1, <2>5
  <2>7. QED
    BY <2>6 DEF Ok, n
<1>11. QED
  BY <1>7, <1>8, <1>9, <1>10

\* One request of a message, and what it does to the service and to the answers
UsStepped(s, n, c, tlv) ==
  /\ \A g \in n.out : g \in s.out \/ (c = "c" /\ g.type = tlv.type)
  /\ ~n.denied => ~s.denied
  /\ tlv.type = "SYNC" /\ c = "c" /\ ~n.denied => UsKept(n.iv, ucNow + UcDuration)
  /\ ~(tlv.type = "SYNC" /\ c = "c") => \A t \in Int : UsKept(s.iv, t) => UsKept(n.iv, t)

LEMMA UsReplyIs ==
  ASSUME NEW c, NEW tlv \in UcTlvs, NEW ok
  PROVE  UsReply(c, tlv, ok) \subseteq UcGrants /\ \A g \in UsReply(c, tlv, ok) : c = "c" /\ g.type = tlv.type
BY DEF UsReply, UcTlvs, UcGrants

LEMMA UsStepIs ==
  ASSUME NEW Tm, ucNow \in Tm, ucNow \in Nat, NEW timers, UsTimers(Tm) \subseteq timers, NEW s \in UsAnswers(Tm, timers),
         NEW c \in UcClients, NEW tlv \in UcTlvs, NEW fail
  PROVE  UsStep(c, fail, s, tlv) \in UsAnswers(Tm, timers) /\ UsStepped(s, UsStep(c, fail, s, tlv), c, tlv)
<1>1. PICK n : n = UsAdd(s, c, tlv.type, tlv.per, fail)
  OBVIOUS
<1>2. PICK out : out = n.out \cup UsReply(c, tlv, n.ok)
  OBVIOUS
<1> DEFINE m == [n EXCEPT !.out = out, !.denied = n.denied \/ ~n.ok]
<1>3. tlv.type \in UcTypes /\ tlv.per \in UcPeriods
  BY DEF UcTlvs
<1>4. UsAddsTo(Tm, timers, s, c, tlv.type, n)
  BY <1>1, <1>3, UsAddIs
<1>5. UsStep(c, fail, s, tlv) = m
  BY <1>1, <1>2 DEF UsStep
<1>6. n \in [iv : UsQueues(Tm), timer : timers, ok : BOOLEAN, out : SUBSET UcGrants, denied : BOOLEAN] /\ UsSingle(n.iv)
  BY <1>4 DEF UsAddsTo, UsAnswers
<1>7. out \in SUBSET UcGrants
  BY <1>2, <1>6, UsReplyIs
<1>8. m \in [iv : UsQueues(Tm), timer : timers, ok : BOOLEAN, out : SUBSET UcGrants, denied : BOOLEAN]
  BY <1>6, <1>7
<1>9. m.iv = n.iv /\ m.out = out
  BY <1>6
<1>10. m.denied <=> (n.denied \/ ~n.ok)
  BY <1>6
<1> HIDE DEF m
<1>11. m \in UsAnswers(Tm, timers)
  BY <1>6, <1>8, <1>9 DEF UsAnswers
<1>12. UsAdded(s.iv, n.iv, c, tlv.type, n.ok) /\ n.out = s.out
  BY <1>4 DEF UsAddsTo
<1>13. \A g \in m.out : g \in s.out \/ (c = "c" /\ g.type = tlv.type)
  BY <1>2, <1>9, <1>12, UsReplyIs
<1>14. ~m.denied => ~s.denied /\ n.ok
  <2>1. n.denied = s.denied
    BY <1>4 DEF UsAddsTo
  <2>2. QED
    BY <1>10, <2>1
<1>15. ASSUME tlv.type = "SYNC", c = "c", ~m.denied PROVE UsKept(m.iv, ucNow + UcDuration)
  BY <1>9, <1>12, <1>14, <1>15 DEF UsAdded
<1>16. ASSUME ~(tlv.type = "SYNC" /\ c = "c"), NEW t \in Int, UsKept(s.iv, t) PROVE UsKept(m.iv, t)
  BY <1>9, <1>12, <1>16 DEF UsAdded
<1>17. UsStepped(s, m, c, tlv)
  BY <1>13, <1>14, <1>15, <1>16 DEF UsStepped
<1>18. QED
  BY <1>5, <1>11, <1>17

\* process_signaling takes one request after the other.
UsIdle == [iv |-> usIval, timer |-> usTimer, ok |-> TRUE, out |-> {}, denied |-> FALSE]
UsTakes(c, tlvs, fail, g) == g[0] = UsIdle /\ \A i \in 1..Len(tlvs) : g[i] = UsStep(c, fail, g[i - 1], tlvs[i])

LEMMA UsServedRun ==
  ASSUME NEW Tm, ucNow \in Tm, ucNow \in Nat, NEW timers, UsTimers(Tm) \subseteq timers, UsIdle \in UsAnswers(Tm, timers),
         NEW c \in UcClients, NEW tlvs \in Seq(UcTlvs), NEW fail
  PROVE  \E g : UsTakes(c, tlvs, fail, g) /\ UsServed(c, tlvs, fail) = g[Len(tlvs)]
<1> DEFINE X == UsAnswers(Tm, timers)
           n == Len(tlvs)
           base == UsIdle
           Step(t, z) == IF z = {} THEN base ELSE UsStep(c, fail, t[z \ {Max(z)}], tlvs[Max(z)])
           G == [k \in X \X (1..n) |-> UsStep(c, fail, k[1], tlvs[k[2]])]
           T == CHOOSE t : t = [z \in SUBSET (1..n) |-> Step(t, z)]
<1>1. n \in Nat /\ DOMAIN tlvs = 1..n /\ \A i \in 1..n : tlvs[i] \in UcTlvs
  BY ElementOfSeq
<1>2. UsServed(c, tlvs, fail) = T[1..n]
  <2>1. UsServed(c, tlvs, fail) = (CHOOSE t : t = [z \in SUBSET DOMAIN tlvs |-> Step(t, z)])[DOMAIN tlvs]
    BY Zenon DEF UsServed, UsIdle, FoldLeft, MapThenFoldSet
  <2> HIDE DEF Step
  <2>2. QED
    BY <1>1, <2>1
<1>3. G \in [X \X (1..n) -> X] /\ base \in X
  <2>1. ASSUME NEW d \in X, NEW i \in 1..n PROVE UsStep(c, fail, d, tlvs[i]) \in X
    BY <1>1, UsStepIs
  <2> HIDE DEF X, base
  <2>2. base \in X
    BY DEF X, base
  <2>3. QED
    BY <2>1, <2>2
<1>4. PICK t \in [SUBSET (1..n) -> X] : FoldTable(G, base, n, t)
  <2> HIDE DEF G, n, base, X
  <2> QED BY <1>1, <1>3, FoldTableExists
<1> HIDE DEF base, X
<1>5. \A z \in SUBSET (1..n) : t[z] = Step(t, z)
  <2> SUFFICES ASSUME NEW z \in SUBSET (1..n) PROVE t[z] = Step(t, z)
    OBVIOUS
  <2>1. CASE z = {}
    BY <1>4, <2>1 DEF FoldTable
  <2>2. CASE z # {}
    <3>1. Max(z) \in z /\ z \ {Max(z)} \in SUBSET (1..n)
      <4> HIDE DEF n
      <4> QED BY <1>1, <2>2, MaxOf
    <3>2. <<t[z \ {Max(z)}], Max(z)>> \in X \X (1..n)
      BY <3>1
    <3>3. t[z] = G[<<t[z \ {Max(z)}], Max(z)>>]
      BY <1>4, <2>2 DEF FoldTable
    <3>4. QED
      BY <2>2, <3>2, <3>3
  <2>3. QED
    BY <2>1, <2>2
<1>6. t = [z \in SUBSET (1..n) |-> Step(t, z)]
  <2> HIDE DEF Step
  <2> QED BY <1>5
<1>7. T = [z \in SUBSET (1..n) |-> Step(T, z)]
  <2> HIDE DEF Step
  <2> QED BY <1>6, Zenon
<1>8. \A z \in SUBSET (1..n) : T[z] = Step(T, z)
  <2> HIDE DEF T, Step
  <2> QED BY <1>7
<1> HIDE DEF T
<1> DEFINE g == [i \in 0..n |-> T[1..i]]
<1>9. g[0] = base
  <2>1. (1..0) = {} /\ {} \in SUBSET (1..n) /\ g[0] = T[1..0]
    BY <1>1
  <2>2. T[{}] = base
    BY <1>8, <2>1
  <2>3. QED
    BY <2>1, <2>2
<1>10. ASSUME NEW i \in 1..n PROVE g[i] = UsStep(c, fail, g[i - 1], tlvs[i])
  <2>1. (1..i) \in SUBSET (1..n) /\ (1..i) # {} /\ (1..i) \ {i} = 1..(i - 1) /\ i \in 1..i
    <3> HIDE DEF n
    <3>1. n \in Nat
      BY <1>1
    <3>2. i \in 1..n
      OBVIOUS
    <3>3. (1..i) \subseteq (1..n) /\ i \in 1..i
      BY ONLY <3>1, <3>2
    <3>4. (1..i) \ {i} = 1..(i - 1)
      BY ONLY <3>1, <3>2
    <3>5. QED
      BY <3>3, <3>4
  <2>2. Max(1..i) = i
    <3>1. Max(1..i) \in 1..i /\ i <= Max(1..i)
      <4> HIDE DEF n
      <4> QED BY <1>1, <2>1, MaxOf
    <3>2. QED
      BY <3>1
  <2>3. T[1..i] = UsStep(c, fail, T[1..(i - 1)], tlvs[i])
    BY <1>8, <2>1, <2>2
  <2>4. g[i] = T[1..i] /\ g[i - 1] = T[1..(i - 1)]
    BY <1>1
  <2>5. QED
    BY <2>3, <2>4
<1>11. g[n] = T[1..n]
  BY <1>1
<1> HIDE DEF g
<1>12. UsTakes(c, tlvs, fail, g)
  BY <1>9, <1>10 DEF base, n, UsTakes
<1>13. QED
  BY <1>2, <1>11, <1>12 DEF n

\* What i requests of a message leave
UsAsked(tlvs, i) == \E j \in 1..i : tlvs[j].type = "SYNC"
UsTaken(c, tlvs, i, r) ==
  /\ \A g \in r.out : c = "c" /\ \E j \in 1..i : g.type = tlvs[j].type
  /\ ~r.denied /\ c = "c" /\ UsAsked(tlvs, i) => UsKept(r.iv, ucNow + UcDuration)
  /\ ~(c = "c" /\ UsAsked(tlvs, i)) => \A t \in Int : UsKept(usIval, t) => UsKept(r.iv, t)

LEMMA UsTakenOn ==
  ASSUME ucNow \in Nat, NEW c, NEW tlvs, NEW n \in Nat, NEW i \in 1..n, NEW s, NEW r, UsTaken(c, tlvs, i - 1, s), UsStepped(s, r, c, tlvs[i])
  PROVE  UsTaken(c, tlvs, i, r)
<1>1. i \in 1..i /\ 1..(i - 1) \subseteq 1..i /\ \A j \in 1..i : j = i \/ j \in 1..(i - 1)
  OBVIOUS
<1>2. UsAsked(tlvs, i) <=> UsAsked(tlvs, i - 1) \/ tlvs[i].type = "SYNC"
  BY <1>1 DEF UsAsked
<1>3. ASSUME NEW g \in r.out PROVE c = "c" /\ \E j \in 1..i : g.type = tlvs[j].type
  BY <1>1 DEF UsTaken, UsStepped
<1>4. ASSUME ~r.denied, c = "c", UsAsked(tlvs, i) PROVE UsKept(r.iv, ucNow + UcDuration)
  <2>1. CASE tlvs[i].type = "SYNC"
    BY <1>4, <2>1 DEF UsStepped
  <2>2. CASE tlvs[i].type # "SYNC"
    <3>1. ~s.denied /\ UsAsked(tlvs, i - 1)
      BY <1>2, <1>4, <2>2 DEF UsStepped
    <3>2. UsKept(s.iv, ucNow + UcDuration)
      BY <1>4, <3>1 DEF UsTaken
    <3>3. ucNow + UcDuration \in Int
      BY UcConsts
    <3>4. QED
      BY <2>2, <3>2, <3>3 DEF UsStepped
  <2>3. QED
    BY <2>1, <2>2
<1>5. ASSUME ~(c = "c" /\ UsAsked(tlvs, i)), NEW t \in Int, UsKept(usIval, t) PROVE UsKept(r.iv, t)
  <2>1. UsKept(s.iv, t)
    BY <1>2, <1>5 DEF UsTaken
  <2>2. QED
    BY <1>2, <1>5, <2>1 DEF UsStepped
<1>6. QED
  BY <1>3, <1>4, <1>5 DEF UsTaken

LEMMA UsServedIs ==
  ASSUME NEW Tm, ucNow \in Tm, ucNow \in Nat, NEW timers, UsTimers(Tm) \subseteq timers, UsIdle \in UsAnswers(Tm, timers),
         NEW c \in UcClients, NEW tlvs \in Seq(UcTlvs), NEW fail
  PROVE  UsServed(c, tlvs, fail) \in UsAnswers(Tm, timers) /\ UsTaken(c, tlvs, Len(tlvs), UsServed(c, tlvs, fail))
<1> DEFINE n == Len(tlvs)
           X == [i \in 0..n |-> {r \in UsAnswers(Tm, timers) : UsTaken(c, tlvs, i, r)}]
<1>1. PICK g : UsTakes(c, tlvs, fail, g) /\ UsServed(c, tlvs, fail) = g[n]
  BY UsServedRun
<1>2. n \in Nat /\ \A i \in 1..n : tlvs[i] \in UcTlvs
  BY ElementOfSeq, LenProperties
<1>3. g[0] = UsIdle /\ \A i \in 1..n : g[i] = UsStep(c, fail, g[i - 1], tlvs[i])
  BY <1>1 DEF UsTakes
<1> HIDE DEF n
<1>4. g[0] \in X[0]
  <2>1. UsIdle.out = {} /\ UsIdle.iv = usIval /\ 1..0 = {}
    BY DEF UsIdle
  <2>2. ~UsAsked(tlvs, 0)
    BY <2>1 DEF UsAsked
  <2>3. UsTaken(c, tlvs, 0, g[0])
    BY <1>3, <2>1, <2>2 DEF UsTaken
  <2>4. QED
    BY <1>2, <1>3, <2>3
<1>5. ASSUME NEW i \in 1..n, g[i - 1] \in X[i - 1] PROVE g[i] \in X[i]
  <2>1. i - 1 \in 0..n /\ i \in 0..n
    BY <1>2
  <2>2. g[i - 1] \in UsAnswers(Tm, timers) /\ UsTaken(c, tlvs, i - 1, g[i - 1])
    BY <1>5, <2>1
  <2>3. g[i] = UsStep(c, fail, g[i - 1], tlvs[i]) /\ tlvs[i] \in UcTlvs
    BY <1>2, <1>3
  <2>4. g[i] \in UsAnswers(Tm, timers) /\ UsStepped(g[i - 1], g[i], c, tlvs[i])
    BY <2>2, <2>3, UsStepIs
  <2>5. UsTaken(c, tlvs, i, g[i])
    BY <1>2, <2>2, <2>4, UsTakenOn
  <2>6. QED
    BY <2>1, <2>4, <2>5
<1>6. g[n] \in X[n]
  <2> HIDE DEF X
  <2> QED BY <1>2, <1>4, <1>5, RunStays
<1>7. QED
  BY <1>1, <1>2, <1>6 DEF n

\* Messages under way: what a request asks for, what an answer is about
UcAsks(m, type) == m.k = "req" /\ \E i \in DOMAIN m.tlvs : m.tlvs[i].type = type
UcGives(m, types) == m.k = "grant" /\ m.type \in types
UcRequests == {m \in [k : {"req"}, tlvs : Seq(UcTlvs)] : UcAsks(m, "DELAY_RESP") => UcAsks(m, "SYNC")}
UcMessages == UcRequests \cup UcGrants

LEMMA UcRequestIs ==
  ASSUME NEW n \in Nat, NEW types \in [1..n -> UcTypes], ucSync \in UcPeriods
  PROVE  /\ UcRequest(types) \in [k : {"req"}, tlvs : Seq(UcTlvs)]
         /\ \A type : UcAsks(UcRequest(types), type) <=> \E i \in 1..n : types[i] = type
<1> DEFINE tlvs == [i \in DOMAIN types |-> UcTlv(types[i])]
<1>1. \A i \in 1..n : UcTlv(types[i]) \in UcTlvs /\ UcTlv(types[i]).type = types[i]
  BY UcConsts DEF UcTlv, UcTlvs
<1>2. DOMAIN tlvs = 1..n /\ \A i \in 1..n : tlvs[i] = UcTlv(types[i])
  OBVIOUS
<1>3. tlvs \in [1..n -> UcTlvs]
  BY <1>1
<1>4. tlvs \in Seq(UcTlvs)
  BY <1>3, SeqDef
<1>5. UcRequest(types) = [k |-> "req", tlvs |-> tlvs]
  BY DEF UcRequest
<1> HIDE DEF tlvs
<1>6. ASSUME NEW type PROVE UcAsks(UcRequest(types), type) <=> \E i \in 1..n : types[i] = type
  BY <1>1, <1>2, <1>5 DEF UcAsks
<1>7. QED
  BY <1>4, <1>5, <1>6

LEMMA UcPairs ==
  ASSUME NEW S, NEW a \in S, NEW b \in S, NEW c \in S
  PROVE  <<a>> \o << >> = <<a>> /\ <<a>> \o <<b>> = <<a, b>> /\ <<a>> \o <<b, c>> = <<a, b, c>>
<1>1. <<a>> \in Seq(S) /\ <<b>> \in Seq(S) /\ <<b, c>> \in Seq(S) /\ <<a, b>> \in Seq(S) /\ <<a, b, c>> \in Seq(S)
  OBVIOUS
<1>2. /\ Len(<<a>>) = 1 /\ Len(<<b>>) = 1 /\ Len(<<b, c>>) = 2 /\ Len(<<a, b>>) = 2 /\ Len(<<a, b, c>>) = 3
      /\ <<a>>[1] = a /\ <<b>>[1] = b /\ <<b, c>>[1] = b /\ <<b, c>>[2] = c
  OBVIOUS
<1>3. <<a>> \o << >> = <<a>>
  BY <1>1, ConcatEmptySeq
<1>4. <<a>> \o <<b>> = <<a, b>>
  <2>1. PICK s : s = <<a>> \o <<b>>
    OBVIOUS
  <2>2. s \in Seq(S) /\ Len(s) = 1 + 1 /\ \A i \in 1..(1 + 1) : s[i] = IF i <= 1 THEN <<a>>[i] ELSE <<b>>[i - 1]
    BY <1>1, <1>2, <2>1, ConcatProperties
  <2>3. s = <<s[1], s[2]>>
    BY <2>2
  <2>4. s[1] = a /\ s[2] = b
    BY <1>2, <2>2
  <2>5. QED
    BY <2>1, <2>3, <2>4
<1>5. <<a>> \o <<b, c>> = <<a, b, c>>
  <2>1. PICK s : s = <<a>> \o <<b, c>>
    OBVIOUS
  <2>2. s \in Seq(S) /\ Len(s) = 1 + 2 /\ \A i \in 1..(1 + 2) : s[i] = IF i <= 1 THEN <<a>>[i] ELSE <<b, c>>[i - 1]
    BY <1>1, <1>2, <2>1, ConcatProperties
  <2>3. s = <<s[1], s[2], s[3]>>
    BY <2>2
  <2>4. s[1] = a /\ s[2] = b /\ s[3] = c
    BY <1>2, <2>2
  <2>5. QED
    BY <2>1, <2>3, <2>4
<1>6. QED
  BY <1>3, <1>4, <1>5

\* What the client asks for
LEMMA UcAsksFor ==
  ASSUME ucSync \in UcPeriods, NEW m
  PROVE  /\ \A r \in UcPeerRenew : r \in UcRequests /\ ~UcAsks(r, "SYNC") /\ ~UcAsks(r, "ANNOUNCE")
         /\ \A r \in UcAnnounce : r \in UcRequests /\ ~UcAsks(r, "SYNC")
         /\ \A r \in UcSydy : r \in UcRequests /\ ~UcAsks(r, "ANNOUNCE")
         /\ \A r \in UcRenew(m) : r \in UcRequests /\ (UcAsks(r, "SYNC") <=> m.state = "HAVE_SYDY")
<1> DEFINE Is(r, asked) == r \in UcRequests /\ \A type : UcAsks(r, type) <=> type \in asked
<1>1. ASSUME NEW n \in Nat, NEW types \in [1..n -> UcTypes], "DELAY_RESP" \in {types[i] : i \in 1..n} => "SYNC" \in {types[i] : i \in 1..n}
      PROVE  Is(UcRequest(types), {types[i] : i \in 1..n})
  <2>1. /\ UcRequest(types) \in [k : {"req"}, tlvs : Seq(UcTlvs)]
        /\ \A type : UcAsks(UcRequest(types), type) <=> \E i \in 1..n : types[i] = type
    BY UcRequestIs
  <2>2. \A type : UcAsks(UcRequest(types), type) <=> type \in {types[i] : i \in 1..n}
    BY <2>1
  <2>3. QED
    BY <1>1, <2>1, <2>2 DEF UcRequests
<1>2. {"ANNOUNCE", "SYNC", "DELAY_RESP", "PDELAY_RESP"} \subseteq UcTypes
  BY DEF UcTypes
<1>3. ASSUME NEW a \in UcTypes, a # "DELAY_RESP" PROVE Is(UcRequest(<<a>>), {a})
  <2>1. <<a>> \in [1..1 -> UcTypes] /\ {<<a>>[i] : i \in 1..1} = {a}
    OBVIOUS
  <2> HIDE DEF Is
  <2>2. QED
    BY <1>1, <1>3, <2>1
<1>4. ASSUME NEW a \in UcTypes, NEW b \in UcTypes, "DELAY_RESP" \in {a, b} => "SYNC" \in {a, b} PROVE Is(UcRequest(<<a, b>>), {a, b})
  <2>1. <<a, b>> \in [1..2 -> UcTypes] /\ {<<a, b>>[i] : i \in 1..2} = {a, b}
    OBVIOUS
  <2> HIDE DEF Is
  <2>2. QED
    BY <1>1, <1>4, <2>1
<1>5. ASSUME NEW a \in UcTypes, NEW b \in UcTypes, NEW c \in UcTypes, "DELAY_RESP" \in {a, b, c} => "SYNC" \in {a, b, c}
      PROVE  Is(UcRequest(<<a, b, c>>), {a, b, c})
  <2>1. <<a, b, c>> \in [1..3 -> UcTypes] /\ {<<a, b, c>>[i] : i \in 1..3} = {a, b, c}
    OBVIOUS
  <2> HIDE DEF Is
  <2>2. QED
    BY <1>1, <1>5, <2>1
<1>6. \A r \in UcPeerRenew : r \in UcRequests /\ ~UcAsks(r, "SYNC") /\ ~UcAsks(r, "ANNOUNCE")
  BY <1>2, <1>3 DEF UcPeerRenew
<1>7. \A r \in UcAnnounce : r \in UcRequests /\ ~UcAsks(r, "SYNC")
  BY <1>2, <1>3 DEF UcAnnounce
<1>8. <<"SYNC">> \o UcDelayTypes \in {<<"SYNC">>, <<"SYNC", "DELAY_RESP">>}
  <2>1. <<"SYNC">> \o << >> = <<"SYNC">> /\ <<"SYNC">> \o <<"DELAY_RESP">> = <<"SYNC", "DELAY_RESP">>
    BY <1>2, UcPairs
  <2>2. UcDelayTypes = << >> \/ UcDelayTypes = <<"DELAY_RESP">>
    BY DEF UcDelayTypes
  <2>3. QED
    BY <2>1, <2>2, Zenon
<1>9. \A r \in UcSydy : r \in UcRequests /\ ~UcAsks(r, "ANNOUNCE")
  <2>1. UcSydy \subseteq {UcRequest(<<"SYNC">>), UcRequest(<<"SYNC", "DELAY_RESP">>)}
    BY <1>8 DEF UcSydy
  <2>2. Is(UcRequest(<<"SYNC">>), {"SYNC"}) /\ Is(UcRequest(<<"SYNC", "DELAY_RESP">>), {"SYNC", "DELAY_RESP"})
    <3> HIDE DEF Is
    <3> QED BY <1>2, <1>3, <1>4
  <2>3. QED
    BY <2>1, <2>2
<1>10. \A r \in UcRenew(m) : r \in UcRequests /\ (UcAsks(r, "SYNC") <=> m.state = "HAVE_SYDY")
  <2>1. CASE m.state = "HAVE_SYDY"
    <3>1. PICK d : d = <<"SYNC">> \o UcDelayTypes
      OBVIOUS
    <3>2. UcRenew(m) \subseteq {UcRequest(<<"ANNOUNCE">> \o d)}
      BY <2>1, <3>1 DEF UcRenew
    <3>3. <<"ANNOUNCE">> \o <<"SYNC">> = <<"ANNOUNCE", "SYNC">>
      BY <1>2, UcPairs
    <3>4. <<"ANNOUNCE">> \o <<"SYNC", "DELAY_RESP">> = <<"ANNOUNCE", "SYNC", "DELAY_RESP">>
      BY <1>2, UcPairs
    <3>5. UcRenew(m) \subseteq {UcRequest(<<"ANNOUNCE", "SYNC">>), UcRequest(<<"ANNOUNCE", "SYNC", "DELAY_RESP">>)}
      <4>1. d = <<"SYNC">> \/ d = <<"SYNC", "DELAY_RESP">>
        BY <1>8, <3>1
      <4>2. QED
        BY <3>2, <3>3, <3>4, <4>1, Zenon
    <3>6. /\ Is(UcRequest(<<"ANNOUNCE", "SYNC">>), {"ANNOUNCE", "SYNC"})
          /\ Is(UcRequest(<<"ANNOUNCE", "SYNC", "DELAY_RESP">>), {"ANNOUNCE", "SYNC", "DELAY_RESP"})
      <4> HIDE DEF Is
      <4> QED BY <1>2, <1>4, <1>5
    <3>7. QED
      BY <2>1, <3>5, <3>6
  <2>2. CASE m.state # "HAVE_SYDY"
    <3>1. <<"ANNOUNCE">> \o << >> = <<"ANNOUNCE">>
      OBVIOUS
    <3>2. UcRenew(m) \subseteq {UcRequest(<<"ANNOUNCE">>)}
      BY <2>2, <3>1 DEF UcRenew
    <3>3. Is(UcRequest(<<"ANNOUNCE">>), {"ANNOUNCE"})
      <4> HIDE DEF Is
      <4> QED BY <1>2, <1>3
    <3>4. QED
      BY <2>2, <3>2, <3>3
  <2>3. QED
    BY <2>1, <2>2
<1>11. QED
  BY <1>6, <1>7, <1>9, <1>10

UcHold == (3 * UcDuration) \div 4
UcStates == {"WAIT", "HAVE_ANN", "NEED_SYDY", "HAVE_SYDY"}
UcTyped ==
  /\ ucNow \in Nat /\ ucLost \in 0..UcLosses /\ ucSync \in UcPeriods
  /\ ucMaster \in [state : UcStates, granted : SUBSET UcTypes, tmo : Nat] /\ ucMaster.tmo <= ucNow + UcHold
  /\ ucNet \subseteq UcMessages /\ (ucDue => ucNet = {})
UsTyped == usIval \in UsQueues(UsTmos(usIval)) /\ UsSingle(usIval)

LEMMA UcHoldIs == /\ UcDuration \in Nat /\ UcHold \in Nat /\ UcHold >= 1
                  /\ UcLosses \in Nat /\ UcLosses <= UcDuration - UcHold
BY UcConsts DEF UcHold

\* What the requests of a message do: those of the other client and those that do not ask for Sync messages
\* leave the client's Sync messages alone.
UsProcessed(c, tlvs, i) ==
  /\ UsTyped'
  /\ ~usDenied' => ~usDenied
  /\ ~usDenied' /\ c = "c" /\ UsAsked(tlvs, Len(tlvs)) => UsKept(i, ucNow + UcDuration)
  /\ ~(c = "c" /\ UsAsked(tlvs, Len(tlvs))) => \A t \in Int : UsKept(usIval, t) => UsKept(i, t)
UcAnswered(c, tlvs, net) ==
  /\ net \subseteq UcMessages
  /\ \A m \in net : \/ m \in ucNet /\ ~(c = "c" /\ m.k = "req" /\ m.tlvs = tlvs)
                    \/ c = "c" /\ m \in UcGrants /\ \E j \in 1..Len(tlvs) : m.type = tlvs[j].type
  /\ \A m \in ucNet : m \in net \/ (c = "c" /\ m.k = "req" /\ m.tlvs = tlvs)

LEMMA UsProcessIs ==
  ASSUME UcTyped, UsTyped, NEW c \in UcClients, NEW tlvs \in Seq(UcTlvs), NEW fail, UsProcess(c, tlvs, fail)
  PROVE  UsProcessed(c, tlvs, usIval') /\ UcAnswered(c, tlvs, ucNet')
<1> DEFINE Tm == UsTmos(usIval) \cup {ucNow}
           timers == UsTimers(Tm) \cup {usTimer}
<1>1. PICK s : s = UsServed(c, tlvs, fail)
  OBVIOUS
<1>2. /\ usIval' = s.iv /\ (usDenied' <=> usDenied \/ (c = "c" /\ s.denied))
      /\ ucNet' = s.out \cup {m \in ucNet : m.k # "req" \/ c # "c" \/ m.tlvs # tlvs}
  BY <1>1 DEF UsProcess
<1>3. ucNow \in Tm /\ ucNow \in Nat /\ UsTimers(Tm) \subseteq timers
  BY DEF UcTyped
<1>4. usIval \in UsQueues(Tm) /\ UsSingle(usIval) /\ usTimer \in timers
  <2>1. usIval \in UsQueues(UsTmos(usIval)) /\ UsTmos(usIval) \subseteq Tm
    BY DEF UsTyped
  <2> HIDE DEF Tm
  <2>2. usIval \in UsQueues(Tm)
    BY <2>1, UsQueueMore
  <2>3. QED
    BY <2>2 DEF UsTyped
<1> HIDE DEF Tm, timers
<1>5. UsIdle \in UsAnswers(Tm, timers)
  BY <1>4 DEF UsIdle, UsAnswers
<1>6. s \in UsAnswers(Tm, timers) /\ UsTaken(c, tlvs, Len(tlvs), s)
  BY <1>1, <1>3, <1>5, UsServedIs
<1>7. s.iv \in UsQueues(Tm) /\ UsSingle(s.iv) /\ s.out \subseteq UcGrants
  BY <1>6 DEF UsAnswers
<1>8. UsTyped'
  <2>1. s.iv \in UsQueues(UsTmos(s.iv))
    BY <1>7, UsQueueIs
  <2>2. QED
    BY <1>2, <1>7, <2>1 DEF UsTyped
<1>9. UsProcessed(c, tlvs, usIval')
  BY <1>2, <1>6, <1>8 DEF UsTaken, UsProcessed
<1>10. UcAnswered(c, tlvs, ucNet')
  <2>1. s.out \subseteq UcMessages /\ ucNet \subseteq UcMessages
    BY <1>7 DEF UcTyped, UcMessages
  <2>2. \A g \in s.out : c = "c" /\ g \in UcGrants /\ \E j \in 1..Len(tlvs) : g.type = tlvs[j].type
    BY <1>6, <1>7 DEF UsTaken
  <2>3. QED
    BY <1>2, <2>1, <2>2 DEF UcAnswered
<1>11. QED
  BY <1>9, <1>10

\* The other client's cancellation and the timer end only what has run out.
UsEnds(iv, new) ==
  /\ \A p \in UcPeriods, x \in UcClients, type \in UcTypes : UsServes(new, p, x, type) => UsServes(iv, p, x, type)
  /\ \A t \in Int : ucNow <= t /\ UsKept(iv, t) => UsKept(new, t)

LEMMA UsEndsSingle ==
  ASSUME NEW iv, NEW new, UsSingle(iv), UsEnds(iv, new)
  PROVE  UsSingle(new)
<1>1. {"ANNOUNCE", "SYNC"} \subseteq UcTypes
  BY DEF UcTypes
<1>2. QED
  BY <1>1 DEF UsSingle, UsEnds

LEMMA UsRemoveIs ==
  ASSUME UcTyped, UsTyped, NEW type, UsRemove(type)
  PROVE  UsTyped' /\ UsEnds(usIval, usIval')
<1> DEFINE Tm == UsTmos(usIval)
<1>1. PICK p \in UcPeriods : usIval[p] # << >> /\ usIval' = [usIval EXCEPT ![p] = UsDrop(usIval[p], "d", type)]
  BY DEF UsRemove
<1>2. usIval \in UsQueues(Tm) /\ UsSingle(usIval) /\ "d" \in UcClients
  BY DEF UsTyped, UcClients
<1> HIDE DEF Tm
<1>3. PICK j : j = UsDrop(usIval[p], "d", type)
  OBVIOUS
<1>4. usIval[p] \in UsIntervals(Tm)
  BY <1>1, <1>2 DEF UsQueues
<1>5. UsIsDrop(Tm, usIval[p], "d", type, j)
  BY <1>2, <1>3, <1>4, UsDropIs
<1>6. j \in UsIntervals(Tm) /\ j # << >>
  BY <1>5, UsIntervalIs DEF UsIsDrop
<1>7. PICK v : v = [usIval EXCEPT ![p] = j]
  OBVIOUS
<1>8. usIval' = v /\ v \in UsQueues(Tm) /\ v[p] = j /\ \A q \in UcPeriods : q # p => v[q] = usIval[q]
  BY <1>1, <1>2, <1>3, <1>6, <1>7 DEF UsQueues
<1>9. ASSUME NEW q \in UcPeriods, NEW x \in UcClients, NEW ty \in UcTypes, UsServes(v, q, x, ty) PROVE UsServes(usIval, q, x, ty)
  <2>1. CASE q # p
    BY <1>8, <1>9, <2>1 DEF UsServes
  <2>2. CASE q = p
    BY <1>1, <1>5, <1>8, <1>9, <2>2 DEF UsServes, UsIsDrop
  <2>3. QED
    BY <2>1, <2>2
<1>10. ASSUME NEW t \in Int, UsKept(usIval, t) PROVE UsKept(v, t)
  <2>1. PICK q \in UcPeriods : UsServes(usIval, q, "c", "SYNC") /\ usIval[q].till["c"] >= t
    BY <1>10 DEF UsKept
  <2>2. UsServes(v, q, "c", "SYNC") /\ v[q].till["c"] = usIval[q].till["c"]
    <3>1. CASE q # p
      BY <1>8, <2>1, <3>1 DEF UsServes
    <3>2. CASE q = p
      <4>1. j.types["c"] = usIval[p].types["c"] /\ j.till["c"] = usIval[p].till["c"]
        BY <1>5 DEF UsIsDrop, UcClients
      <4>2. QED
        BY <1>6, <1>8, <2>1, <3>2, <4>1 DEF UsServes
    <3>3. QED
      BY <3>1, <3>2
  <2>3. QED
    BY <2>1, <2>2 DEF UsKept
<1>11. UsEnds(usIval, v)
  BY <1>9, <1>10 DEF UsEnds
<1>12. UsSingle(v) /\ v \in UsQueues(UsTmos(v))
  BY <1>2, <1>8, <1>11, UsEndsSingle, UsQueueIs
<1>13. QED
  BY <1>8, <1>11, <1>12 DEF UsTyped

\* unicast_service_clients and one turn of the timer's loop
UsIsTurn(i, n) ==
  /\ n # << >> => i # << >> /\ \A x \in UcClients : n.types[x] \subseteq i.types[x]
  /\ \A x \in UcClients, type \in UcTypes :
       i # << >> /\ type \in i.types[x] /\ ucNow <= i.till[x] => n # << >> /\ type \in n.types[x] /\ n.till[x] = i.till[x]

LEMMA UsClientsIs ==
  ASSUME ucNow \in Nat, NEW Tm, NEW i \in UsIntervals(Tm)
  PROVE  UsClients(i) \in UsIntervals(Tm) /\ UsIsTurn(i, UsClients(i))
<1> DEFINE types == [c \in UcClients |-> IF ucNow > i.till[c] THEN {} ELSE i.types[c]]
           till == [c \in UcClients |-> IF ucNow > i.till[c] THEN 0 ELSE i.till[c]]
<1>1. /\ i.tmo \in Tm /\ i.types \in [UcClients -> SUBSET UcTypes] /\ i.till \in [UcClients -> Nat]
      /\ i = [tmo |-> i.tmo, types |-> i.types, till |-> i.till]
  BY DEF UsIntervals
<1>2. types \in [UcClients -> SUBSET UcTypes] /\ till \in [UcClients -> Nat]
  BY <1>1
<1>3. \A x \in UcClients : /\ types[x] \subseteq i.types[x]
                           /\ ucNow <= i.till[x] => types[x] = i.types[x] /\ till[x] = i.till[x]
  BY <1>1
<1>4. PICK n : n = [i EXCEPT !.types = types, !.till = till]
  OBVIOUS
<1>5. UsClients(i) = n
  BY <1>4 DEF UsClients
<1> HIDE DEF types, till
<1>6. n = [tmo |-> i.tmo, types |-> types, till |-> till]
  BY <1>1, <1>4
<1>7. n \in UsIntervals(Tm) /\ n.types = types /\ n.till = till
  BY <1>1, <1>2, <1>6 DEF UsIntervals
<1>8. n # << >> /\ i # << >>
  BY <1>7, UsIntervalIs
<1>9. UsIsTurn(i, n)
  BY <1>3, <1>7, <1>8 DEF UsIsTurn
<1>10. QED
  BY <1>5, <1>7, <1>9

LEMMA UsTurnIs ==
  ASSUME ucNow \in Nat, NEW Tm, NEW i \in {<< >>} \cup UsIntervals(Tm), NEW per, NEW Tn, Tm \subseteq Tn, UsNext(i.tmo, per) \in Tn
  PROVE  UsTurn(i, per) \in {<< >>} \cup UsIntervals(Tn) /\ UsIsTurn(i, UsTurn(i, per))
<1>1. UsIntervals(Tm) \subseteq UsIntervals(Tn)
  BY DEF UsIntervals
<1>2. CASE i = << >> \/ i.tmo > ucNow
  <2>1. UsTurn(i, per) = i
    BY <1>2 DEF UsTurn
  <2>2. UsIsTurn(i, i)
    BY DEF UsIsTurn
  <2>3. QED
    BY <1>1, <2>1, <2>2
<1>3. CASE ~(i = << >> \/ i.tmo > ucNow)
  <2>1. PICK j : j = IF usMaster THEN UsClients(i) ELSE i
    OBVIOUS
  <2>2. i \in UsIntervals(Tm)
    BY <1>3
  <2>3. UsIsTurn(i, i)
    BY DEF UsIsTurn
  <2>4. j \in UsIntervals(Tm) /\ UsIsTurn(i, j)
    BY <2>1, <2>2, <2>3, UsClientsIs
  <2>5. UsClients(i).tmo = i.tmo
    BY <2>2 DEF UsClients, UsIntervals
  <2>6. UsTurn(i, per) = IF \A c \in UcClients : j.types[c] = {} THEN << >> ELSE [j EXCEPT !.tmo = UsNext(j.tmo, per)]
    BY <1>3, <2>1 DEF UsTurn
  <2>7. j.tmo = i.tmo /\ j # << >>
    BY <2>1, <2>4, <2>5, UsIntervalIs
  <2>8. CASE \A c \in UcClients : j.types[c] = {}
    <3>1. UsTurn(i, per) = << >>
      BY <2>6, <2>8
    <3>2. UsIsTurn(i, << >>)
      BY <2>4, <2>8 DEF UsIsTurn
    <3>3. QED
      BY <3>1, <3>2
  <2>9. CASE ~\A c \in UcClients : j.types[c] = {}
    <3>1. PICK tmo : tmo = UsNext(i.tmo, per)
      OBVIOUS
    <3>2. PICK n : n = [j EXCEPT !.tmo = tmo]
      OBVIOUS
    <3>3. UsTurn(i, per) = n
      BY <2>6, <2>7, <2>9, <3>1, <3>2
    <3>4. n \in UsIntervals(Tn) /\ n.types = j.types /\ n.till = j.till
      BY <2>4, <3>1, <3>2 DEF UsIntervals
    <3>5. n # << >>
      BY <3>4, UsIntervalIs
    <3>6. UsIsTurn(i, n)
      BY <2>4, <2>7, <3>4, <3>5 DEF UsIsTurn
    <3>7. QED
      BY <3>3, <3>4, <3>6
  <2>10. QED
    BY <2>8, <2>9
<1>4. QED
  BY <1>2, <1>3

LEMMA UsTimerIs ==
  ASSUME UcTyped, UsTyped, UsTimer
  PROVE  UsTyped' /\ UsEnds(usIval, usIval')
<1> DEFINE Tm == UsTmos(usIval)
           Tn == Tm \cup {UsNext(usIval[p].tmo, p) : p \in UcPeriods}
<1>1. PICK v : v = [p \in UcPeriods |-> UsTurn(usIval[p], p)]
  OBVIOUS
<1>2. usIval' = v
  BY <1>1 DEF UsTimer
<1>3. usIval \in UsQueues(Tm) /\ UsSingle(usIval) /\ ucNow \in Nat
  BY DEF UsTyped, UcTyped
<1>4. Tm \subseteq Tn /\ \A p \in UcPeriods : UsNext(usIval[p].tmo, p) \in Tn
  OBVIOUS
<1> HIDE DEF Tm, Tn
<1>5. ASSUME NEW p \in UcPeriods PROVE v[p] \in {<< >>} \cup UsIntervals(Tn) /\ UsIsTurn(usIval[p], v[p])
  <2>1. PICK i : i = usIval[p]
    OBVIOUS
  <2>2. i \in {<< >>} \cup UsIntervals(Tm)
    BY <1>3, <2>1 DEF UsQueues
  <2>3. UsNext(i.tmo, p) \in Tn
    BY <1>4, <2>1
  <2>4. UsTurn(i, p) \in {<< >>} \cup UsIntervals(Tn) /\ UsIsTurn(i, UsTurn(i, p))
    BY <1>3, <1>4, <2>2, <2>3, UsTurnIs
  <2>5. v[p] = UsTurn(i, p)
    BY <1>1, <2>1
  <2>6. QED
    BY <2>1, <2>4, <2>5
<1>6. v \in UsQueues(Tn)
  BY <1>1, <1>5 DEF UsQueues
<1>7. ASSUME NEW q \in UcPeriods, NEW x \in UcClients, NEW ty \in UcTypes, UsServes(v, q, x, ty) PROVE UsServes(usIval, q, x, ty)
  BY <1>5, <1>7 DEF UsServes, UsIsTurn
<1>8. ASSUME NEW t \in Int, ucNow <= t, UsKept(usIval, t) PROVE UsKept(v, t)
  <2>1. PICK q \in UcPeriods : UsServes(usIval, q, "c", "SYNC") /\ usIval[q].till["c"] >= t
    BY <1>8 DEF UsKept
  <2>2. "c" \in UcClients /\ "SYNC" \in UcTypes
    BY DEF UcClients, UcTypes
  <2>3. usIval[q] \in UsIntervals(Tm)
    BY <1>3, <2>1 DEF UsQueues, UsServes
  <2>4. usIval[q].till["c"] \in Nat
    BY <2>2, <2>3 DEF UsIntervals
  <2>5. ucNow <= usIval[q].till["c"]
    BY <1>3, <1>8, <2>1, <2>4
  <2>6. v[q] # << >> /\ "SYNC" \in v[q].types["c"] /\ v[q].till["c"] = usIval[q].till["c"]
    BY <1>5, <2>1, <2>2, <2>5 DEF UsServes, UsIsTurn
  <2>7. QED
    BY <2>1, <2>6 DEF UsKept, UsServes
<1>9. UsEnds(usIval, v)
  BY <1>7, <1>8 DEF UsEnds
<1>10. UsSingle(v) /\ v \in UsQueues(UsTmos(v))
  BY <1>3, <1>6, <1>9, UsEndsSingle, UsQueueIs
<1>11. QED
  BY <1>2, <1>9, <1>10 DEF UsTyped

\* A request for Announce messages only is from a client that has no Sync messages.
UcPure ==
  (\E m \in ucNet : UcAsks(m, "ANNOUNCE") /\ ~UcAsks(m, "SYNC")) =>
    /\ ucMaster.state # "HAVE_SYDY"
    /\ \A n \in ucNet : ~UcAsks(n, "SYNC") /\ ~UcGives(n, {"SYNC", "DELAY_RESP"})
\* What an answer says is so: the grants of this second last for the whole duration.
UcFresh ==
  (\E g \in ucNet : UcGives(g, {"SYNC", "DELAY_RESP"}) \/ (ucMaster.state = "HAVE_SYDY" /\ UcGives(g, {"ANNOUNCE"}))) =>
    UsKept(usIval, ucNow + UcDuration)
\* r is the time of the renewal.  Each second since then has cost a message, or a request is under way.
UcHeld(r) ==
  /\ UsKept(usIval, r + (UcDuration - UcHold)) /\ ucMaster.tmo <= r /\ ucNow <= r + ucLost
  /\ ~ucDue /\ ucNow >= r /\ (\A m \in ucNet : ~UcAsks(m, "SYNC")) => ucNow + 1 <= r + ucLost
UcCovered == ucMaster.state = "HAVE_SYDY" => \E r \in Int : UcHeld(r)
UcInv == UcTyped /\ UsTyped /\ UcPure /\ (~usDenied => UcFresh /\ UcCovered)

LEMMA UcInvSound == UcInv => UcSound
<1> SUFFICES ASSUME UcInv PROVE UcSound
  OBVIOUS
<1>1. UcNoGap
  <2> SUFFICES ASSUME ucMaster.state = "HAVE_SYDY", ~usDenied
               PROVE  \E p \in UcPeriods : usIval[p] # << >> /\ "SYNC" \in usIval[p].types["c"] /\ ucNow <= usIval[p].till["c"]
    BY DEF UcNoGap
  <2>1. PICK r \in Int : UcHeld(r)
    BY DEF UcInv, UcCovered
  <2>2. PICK p \in UcPeriods : UsServes(usIval, p, "c", "SYNC") /\ usIval[p].till["c"] >= r + (UcDuration - UcHold)
    BY <2>1 DEF UcHeld, UsKept
  <2>3. usIval[p].till["c"] \in Nat
    <3>1. usIval[p] \in UsIntervals(UsTmos(usIval)) /\ "c" \in UcClients
      BY <2>2 DEF UcInv, UsTyped, UsQueues, UsServes, UcClients
    <3>2. QED
      BY <3>1 DEF UsIntervals
  <2>4. ucNow \in Nat /\ ucLost \in 0..UcLosses /\ ucNow <= r + ucLost
    BY <2>1 DEF UcInv, UcTyped, UcHeld
  <2>5. ucNow <= r + (UcDuration - UcHold)
    BY <2>4, UcHoldIs
  <2>6. ucNow <= usIval[p].till["c"]
    BY <2>2, <2>3, <2>4, <2>5, UcHoldIs
  <2>7. QED
    BY <2>2, <2>6 DEF UsServes
<1>2. UsOnce
  <2> SUFFICES ASSUME NEW c \in UcClients, NEW type \in {"ANNOUNCE", "SYNC"}
               PROVE  Cardinality({p \in UcPeriods : usIval[p] # << >> /\ type \in usIval[p].types[c]}) <= 1
    BY DEF UsOnce
  <2> DEFINE S == {p \in UcPeriods : usIval[p] # << >> /\ type \in usIval[p].types[c]}
  <2>1. \A p, q \in S : p = q
    BY DEF UcInv, UsTyped, UsSingle, UsServes
  <2>2. S = {} \/ \E p \in S : S = {p}
    BY <2>1
  <2> HIDE DEF S
  <2>3. Cardinality(S) <= 1
    <3>1. CASE S = {}
      BY <3>1, FS_EmptySet
    <3>2. CASE \E p \in S : S = {p}
      BY <3>2, FS_Singleton
    <3>3. QED
      BY <2>2, <3>1, <3>2
  <2>4. QED
    BY <2>3 DEF S
<1>3. QED
  BY <1>1, <1>2 DEF UcSound

LEMMA UcInitInv == UcInit => UcInv
<1> SUFFICES ASSUME UcInit PROVE UcInv
  OBVIOUS
<1>1. UcTyped
  <2>1. 0 \in 0..UcLosses /\ 1 + UcHold \in Nat /\ 0 <= 1 + UcHold
    BY UcHoldIs
  <2>2. QED
    BY <2>1, UcConsts DEF UcInit, UcTyped, UcStates
<1>2. UsTyped
  BY DEF UcInit, UsTyped, UsQueues, UsSingle, UsServes
<1>3. ucNet = {} /\ ucMaster.state # "HAVE_SYDY"
  BY DEF UcInit
<1>4. QED
  BY <1>1, <1>2, <1>3 DEF UcInv, UcPure, UcFresh, UcCovered

\* A step that takes nothing from the client's Sync messages, sends nothing and sets no time
UcCalm ==
  /\ UNCHANGED <<ucNow, ucDue, ucLost>> /\ ucSync' \in UcPeriods /\ (~usDenied' => ~usDenied) /\ UsTyped'
  /\ \A t \in Int : ucNow <= t /\ UsKept(usIval, t) => UsKept(usIval', t)
  /\ ucMaster' \in [state : UcStates, granted : SUBSET UcTypes, tmo : Nat] /\ ucMaster'.tmo = ucMaster.tmo
  /\ ucMaster'.state = "HAVE_SYDY" => ucMaster.state = "HAVE_SYDY"
  /\ ucNet' \subseteq ucNet /\ \A m \in ucNet : m \in ucNet' \/ m.k = "grant"

LEMMA UcCalmStep == UcInv /\ UcCalm => UcInv'
<1> SUFFICES ASSUME UcInv, UcCalm PROVE UcInv'
  OBVIOUS
<1>1. UcTyped'
  BY DEF UcInv, UcTyped, UcCalm
<1>2. UcPure'
  BY DEF UcInv, UcPure, UcCalm
<1>3. ucNow \in Nat /\ ucLost \in 0..UcLosses
  BY DEF UcInv, UcTyped
<1>4. ASSUME ~usDenied' PROVE UcFresh'
  <2>1. UcFresh /\ ucNow + UcDuration \in Int /\ ucNow <= ucNow + UcDuration
    BY <1>3, <1>4, UcHoldIs DEF UcInv, UcCalm
  <2>2. UsKept(usIval, ucNow + UcDuration) => UsKept(usIval', ucNow + UcDuration)
    BY <2>1 DEF UcCalm
  <2>3. QED
    BY <2>1, <2>2 DEF UcFresh, UcCalm
<1>5. ASSUME ~usDenied' PROVE UcCovered'
  <2> SUFFICES ASSUME ucMaster'.state = "HAVE_SYDY" PROVE \E r \in Int : UcHeld(r)'
    BY DEF UcCovered
  <2>1. ucMaster.state = "HAVE_SYDY" /\ ~usDenied
    BY <1>5 DEF UcCalm
  <2>2. PICK r \in Int : UcHeld(r)
    BY <2>1 DEF UcInv, UcCovered
  <2>3. UsKept(usIval', r + (UcDuration - UcHold))
    <3>1. r + (UcDuration - UcHold) \in Int /\ ucNow <= r + (UcDuration - UcHold)
      BY <1>3, <2>2, UcHoldIs DEF UcHeld
    <3>2. QED
      BY <2>2, <3>1 DEF UcCalm, UcHeld
  <2>4. (\A m \in ucNet' : ~UcAsks(m, "SYNC")) => \A m \in ucNet : ~UcAsks(m, "SYNC")
    BY DEF UcCalm, UcAsks
  <2>5. UcHeld(r)'
    BY <2>2, <2>3, <2>4 DEF UcHeld, UcCalm
  <2>6. QED
    BY <2>5
<1>6. QED
  BY <1>1, <1>2, <1>4, <1>5 DEF UcInv, UcCalm

LEMMA UcSameMaster ==
  ASSUME UcTyped
  PROVE  ucMaster \in [state : UcStates, granted : SUBSET UcTypes, tmo : Nat]
BY DEF UcTyped

\* The steps of the service that do not concern the client, and changes of states and rates
LEMMA UcServiceStep ==
  ASSUME UcInv, UsTimer \/ UsPortState \/ (\E type \in UcTypes : UsRemove(type))
                \/ (\E type \in {"ANNOUNCE", "SYNC"}, per \in UcPeriods : UsOtherAsks(type, per))
  PROVE  UcInv'
<1>1. UcTyped /\ UsTyped
  BY DEF UcInv
<1>2. UNCHANGED <<ucNow, ucDue, ucLost, ucSync, ucMaster>>
  BY DEF UsTimer, UsPortState, UsRemove, UsOtherAsks, ucClientVars
<1>3. ASSUME UsTyped', usDenied' = usDenied, ucNet' = ucNet, UsEnds(usIval, usIval') PROVE UcCalm
  BY <1>1, <1>2, <1>3 DEF UcCalm, UcTyped, UsEnds
<1>4. CASE UsTimer
  BY <1>1, <1>3, <1>4, UsTimerIs, UcCalmStep DEF UsTimer
<1>5. CASE \E type \in UcTypes : UsRemove(type)
  <2>1. PICK type \in UcTypes : UsRemove(type)
    BY <1>5
  <2>2. UsTyped' /\ UsEnds(usIval, usIval')
    BY <1>1, <2>1, UsRemoveIs
  <2>3. QED
    BY <1>3, <2>1, <2>2, UcCalmStep DEF UsRemove
<1>6. CASE UsPortState
  <2>1. UNCHANGED <<usIval, usDenied, ucNet>>
    BY <1>6 DEF UsPortState
  <2>2. UsTyped' /\ UsEnds(usIval, usIval')
    BY <1>1, <2>1 DEF UsTyped, UsEnds
  <2>3. QED
    BY <1>3, <2>1, <2>2, UcCalmStep
<1>7. CASE \E type \in {"ANNOUNCE", "SYNC"}, per \in UcPeriods : UsOtherAsks(type, per)
  <2>1. PICK type \in {"ANNOUNCE", "SYNC"}, per \in UcPeriods : UsOtherAsks(type, per)
    BY <1>7
  <2>2. PICK tlvs : tlvs = <<[type |-> type, per |-> per]>>
    OBVIOUS
  <2>3. tlvs \in Seq(UcTlvs) /\ "d" \in UcClients /\ UsProcess("d", tlvs, "none")
    BY <2>1, <2>2 DEF UcTlvs, UcTypes, UcClients, UsOtherAsks
  <2>4. UsProcessed("d", tlvs, usIval') /\ UcAnswered("d", tlvs, ucNet')
    BY <1>1, <2>3, UsProcessIs
  <2>5. ucNet' = ucNet
    BY <2>4 DEF UcAnswered
  <2>6. UcCalm
    BY <1>1, <1>2, <2>4, <2>5 DEF UcCalm, UcTyped, UsProcessed
  <2>7. QED
    BY <2>6, UcCalmStep
<1>8. QED
  BY <1>4, <1>5, <1>6, <1>7

LEMMA UcStateStep ==
  ASSUME UcInv, (\E type \in UcTypes : UcCancel(type)) \/ (\E selected \in BOOLEAN : UcStateChanged(selected))
                \/ (\E per \in UcPeriods : UcInterval(per))
  PROVE  UcInv'
<1>1. /\ ucMaster \in [state : UcStates, granted : SUBSET UcTypes, tmo : Nat] /\ ucSync \in UcPeriods
      /\ usIval \in UsQueues(UsTmos(usIval)) /\ UsSingle(usIval)
  BY DEF UcInv, UcTyped, UsTyped
<1>2. UNCHANGED <<ucNow, ucDue, ucLost, ucNet, usIval, usDenied>>
  BY DEF UcCancel, UcStateChanged, UcInterval, usVars
<1>3. ASSUME ucSync' \in UcPeriods, ucMaster' \in [state : UcStates, granted : SUBSET UcTypes, tmo : Nat],
             ucMaster'.tmo = ucMaster.tmo, ucMaster'.state = "HAVE_SYDY" => ucMaster.state = "HAVE_SYDY"
      PROVE  UcCalm
  <2>1. UsTyped'
    BY <1>1, <1>2 DEF UsTyped
  <2>2. QED
    BY <1>2, <1>3, <2>1 DEF UcCalm
<1>4. CASE \E type \in UcTypes : UcCancel(type)
  <2>1. PICK type \in UcTypes : UcCancel(type)
    BY <1>4
  <2>2. PICK s, gr : s = UcFsm(ucMaster.state, "CANCEL") /\ gr = ucMaster.granted \ {type}
    OBVIOUS
  <2>3. s = "WAIT"
    BY <2>2 DEF UcFsm
  <2>4. ucMaster' = [ucMaster EXCEPT !.state = s, !.granted = gr] /\ ucSync' = ucSync
    BY <2>1, <2>2 DEF UcCancel
  <2>5. /\ ucMaster' \in [state : UcStates, granted : SUBSET UcTypes, tmo : Nat]
        /\ ucMaster'.tmo = ucMaster.tmo /\ ucMaster'.state = "WAIT"
    BY <1>1, <2>2, <2>3, <2>4 DEF UcStates
  <2>6. QED
    BY <1>1, <1>3, <2>4, <2>5, UcCalmStep
<1>5. CASE \E selected \in BOOLEAN : UcStateChanged(selected)
  <2>1. PICK selected \in BOOLEAN : UcStateChanged(selected)
    BY <1>5
  <2>2. PICK s : s = UcFsm(ucMaster.state, IF selected THEN "SELECTED" ELSE "UNSELECTED")
    OBVIOUS
  <2>3. s \in UcStates /\ (s = "HAVE_SYDY" => ucMaster.state = "HAVE_SYDY")
    <3>1. ucMaster.state \in UcStates
      BY <1>1
    <3>2. CASE selected
      BY <2>2, <3>1, <3>2 DEF UcFsm, UcStates
    <3>3. CASE ~selected
      BY <2>2, <3>1, <3>3 DEF UcFsm, UcStates
    <3>4. QED
      BY <3>2, <3>3
  <2>4. ucMaster' = [ucMaster EXCEPT !.state = s] /\ ucSync' = ucSync
    BY <2>1, <2>2 DEF UcStateChanged
  <2>5. /\ ucMaster' \in [state : UcStates, granted : SUBSET UcTypes, tmo : Nat]
        /\ ucMaster'.tmo = ucMaster.tmo /\ ucMaster'.state = s
    BY <1>1, <2>3, <2>4
  <2>6. QED
    BY <1>1, <1>3, <2>3, <2>4, <2>5, UcCalmStep
<1>6. CASE \E per \in UcPeriods : UcInterval(per)
  BY <1>1, <1>3, <1>6, UcCalmStep DEF UcInterval
<1>7. QED
  BY <1>4, <1>5, <1>6

\* unicast_client_grant
UcIsGranted(n, type) ==
  /\ n \in [state : UcStates, granted : SUBSET UcTypes, tmo : Nat] /\ n.tmo <= ucNow + UcHold
  /\ n.state = "HAVE_SYDY" => ucMaster.state = "HAVE_SYDY" \/ type \in {"SYNC", "DELAY_RESP"}
  /\ type = "PDELAY_RESP" => n.tmo = ucMaster.tmo

LEMMA UcGrantedIs ==
  ASSUME UcTyped, NEW type \in UcTypes
  PROVE  UcIsGranted(UcGranted(ucMaster, type, UcDuration), type)
<1> DEFINE M == [state : UcStates, granted : SUBSET UcTypes, tmo : Nat]
           full == UcMask \subseteq ucMaster.granted \cup {type}
           up == IF full THEN UcFsm(ucMaster.state, "GRANT_SYDY") ELSE ucMaster.state
<1>1. PICK tmo : tmo = UcSetRenewal(ucMaster.tmo, UcDuration)
  OBVIOUS
<1>2. ucMaster \in M /\ ucMaster.tmo <= ucNow + UcHold /\ ucNow \in Nat
  BY DEF UcTyped
<1>3. tmo = IF ucMaster.tmo = 0 \/ ucNow + UcHold < ucMaster.tmo THEN ucNow + UcHold ELSE ucMaster.tmo
  BY <1>1 DEF UcSetRenewal, UcHold
<1>4. tmo \in Nat /\ tmo <= ucNow + UcHold
  BY <1>2, <1>3, UcHoldIs
<1>5. PICK gr : gr = ucMaster.granted \cup {type}
  OBVIOUS
<1>6. gr \in SUBSET UcTypes
  BY <1>2, <1>5
<1>7. PICK g : g = [ucMaster EXCEPT !.granted = gr]
  OBVIOUS
<1>8. g \in M /\ g.state = ucMaster.state /\ g.tmo = ucMaster.tmo /\ g.granted = gr
  BY <1>2, <1>6, <1>7
<1> DEFINE n == UcGranted(ucMaster, type, UcDuration)
<1>9. CASE ucMaster.state = "WAIT" /\ type = "ANNOUNCE"
  <2>1. UcFsm("WAIT", "GRANT_ANN") = "HAVE_ANN"
    BY DEF UcFsm
  <2>2. n = [g EXCEPT !.state = "HAVE_ANN", !.tmo = tmo]
    BY <1>1, <1>5, <1>7, <1>8, <1>9, <2>1 DEF UcGranted
  <2> HIDE DEF n
  <2>3. n \in M /\ n.state = "HAVE_ANN" /\ n.tmo = tmo
    BY <1>4, <1>8, <2>2 DEF UcStates
  <2>4. UcIsGranted(n, type)
    BY <1>4, <1>9, <2>3 DEF UcIsGranted
  <2>5. QED
    BY <2>4 DEF n
<1>10. CASE ucMaster.state = "NEED_SYDY" /\ type \in {"DELAY_RESP", "SYNC"}
  <2>1. PICK s : s = up
    OBVIOUS
  <2>2. s \in UcStates
    BY <1>10, <2>1 DEF UcFsm, UcStates
  <2>3. n = [g EXCEPT !.state = s, !.tmo = tmo]
    BY <1>1, <1>5, <1>7, <1>8, <1>10, <2>1 DEF UcGranted
  <2> HIDE DEF n
  <2>4. n \in M /\ n.tmo = tmo
    BY <1>4, <1>8, <2>2, <2>3
  <2>5. UcIsGranted(n, type)
    BY <1>4, <1>10, <2>4 DEF UcIsGranted
  <2>6. QED
    BY <2>5 DEF n
<1>11. CASE ucMaster.state = "HAVE_SYDY" /\ type \in {"ANNOUNCE", "DELAY_RESP", "SYNC"}
  <2>1. n = [g EXCEPT !.tmo = tmo]
    BY <1>1, <1>5, <1>7, <1>8, <1>11 DEF UcGranted
  <2> HIDE DEF n
  <2>2. n \in M /\ n.tmo = tmo
    BY <1>4, <1>8, <2>1
  <2>3. UcIsGranted(n, type)
    BY <1>4, <1>11, <2>2 DEF UcIsGranted
  <2>4. QED
    BY <2>3 DEF n
<1>12. CASE /\ ~(ucMaster.state = "WAIT" /\ type = "ANNOUNCE")
            /\ ~(ucMaster.state = "NEED_SYDY" /\ type \in {"DELAY_RESP", "SYNC"})
            /\ ~(ucMaster.state = "HAVE_SYDY" /\ type \in {"ANNOUNCE", "DELAY_RESP", "SYNC"})
  <2>1. n = g
    BY <1>5, <1>7, <1>12 DEF UcGranted
  <2> HIDE DEF n
  <2>2. UcIsGranted(n, type)
    BY <1>2, <1>8, <2>1 DEF UcIsGranted
  <2>3. QED
    BY <2>2 DEF n
<1>13. QED
  BY <1>9, <1>10, <1>11, <1>12

LEMMA UcRenewedStep ==
  ASSUME UcInv, NEW g \in ucNet, g \in UcGrants, g.dur > 0, g.type # "PDELAY_RESP", ucNet' = ucNet \ {g},
         UcIsGranted(ucMaster', g.type), ucSync' \in UcPeriods, UNCHANGED <<ucNow, ucDue, ucLost, usIval, usDenied>>
  PROVE  UcInv'
<1>1. UcTyped' /\ UsTyped'
  BY DEF UcInv, UcTyped, UsTyped, UcIsGranted
<1>2. g.k = "grant" /\ g.type \in {"ANNOUNCE", "SYNC", "DELAY_RESP"}
  BY DEF UcGrants, UcTypes
<1>3. ucMaster'.state = "HAVE_SYDY" => ucMaster.state = "HAVE_SYDY" \/ UcGives(g, {"SYNC", "DELAY_RESP"})
  BY <1>2 DEF UcIsGranted, UcGives
<1>4. UcPure'
  BY <1>3 DEF UcInv, UcPure
<1>5. ASSUME ~usDenied', ucMaster'.state = "HAVE_SYDY" PROVE UsKept(usIval, ucNow + UcDuration)
  <2>1. UcGives(g, {"SYNC", "DELAY_RESP"}) \/ (ucMaster.state = "HAVE_SYDY" /\ UcGives(g, {"ANNOUNCE"}))
    BY <1>2, <1>3, <1>5 DEF UcGives
  <2>2. UcFresh
    BY <1>5 DEF UcInv
  <2>3. QED
    BY <2>1, <2>2 DEF UcFresh
<1>6. ASSUME ~usDenied' PROVE UcFresh'
  <2>1. UcFresh
    BY <1>6 DEF UcInv
  <2>2. QED
    BY <1>5, <1>6, <2>1 DEF UcFresh
<1>7. ASSUME ~usDenied' PROVE UcCovered'
  <2> SUFFICES ASSUME ucMaster'.state = "HAVE_SYDY" PROVE \E r \in Int : UcHeld(r)'
    BY DEF UcCovered
  <2>1. ucNow \in Nat /\ ucLost \in 0..UcLosses
    BY DEF UcInv, UcTyped
  <2>2. PICK r \in Int : r = ucNow + UcHold
    BY <2>1, UcHoldIs
  <2>3. r + (UcDuration - UcHold) = ucNow + UcDuration /\ ~(ucNow >= r) /\ ucNow <= r + ucLost
    BY <2>1, <2>2, UcHoldIs
  <2>4. ucMaster'.tmo <= r
    BY <2>2 DEF UcIsGranted
  <2>5. UcHeld(r)'
    BY <1>5, <1>7, <2>3, <2>4 DEF UcHeld
  <2>6. QED
    BY <2>5
<1>8. QED
  BY <1>1, <1>4, <1>6, <1>7 DEF UcInv

LEMMA UcGrantStep ==
  ASSUME UcInv, NEW g \in ucNet, UcGrant(g)
  PROVE  UcInv'
<1>1. UcTyped /\ UsTyped /\ g.k = "grant"
  BY DEF UcInv, UcGrant
<1>2. g \in UcGrants /\ g.type \in UcTypes /\ g.per \in UcPeriods /\ (g.dur = 0 \/ g.dur = UcDuration)
  <2>1. g \in UcMessages
    BY <1>1 DEF UcTyped
  <2>2. g \in UcGrants
    BY <1>1, <2>1 DEF UcMessages, UcRequests
  <2>3. QED
    BY <2>2 DEF UcGrants
<1>3. UNCHANGED <<ucNow, ucDue, ucLost, usIval, usDenied>> /\ ucNet' = ucNet \ {g}
  BY DEF UcGrant, usVars
<1>4. ucMaster \in [state : UcStates, granted : SUBSET UcTypes, tmo : Nat] /\ ucSync \in UcPeriods
  BY <1>1 DEF UcTyped
<1>5. UsTyped'
  BY <1>1, <1>3 DEF UsTyped
<1>6. ASSUME ucSync' \in UcPeriods, ucMaster' \in [state : UcStates, granted : SUBSET UcTypes, tmo : Nat],
             ucMaster'.tmo = ucMaster.tmo, ucMaster'.state = "HAVE_SYDY" => ucMaster.state = "HAVE_SYDY"
      PROVE  UcInv'
  <2>1. ucNet' \subseteq ucNet /\ \A m \in ucNet : m \in ucNet' \/ m.k = "grant"
    BY <1>1, <1>3
  <2>2. UcCalm
    BY <1>3, <1>5, <1>6, <2>1 DEF UcCalm
  <2>3. QED
    BY <2>2, UcCalmStep
<1>7. CASE g.dur = 0
  <2>1. PICK s : s = IF g.type = "PDELAY_RESP" THEN ucMaster.state ELSE "WAIT"
    OBVIOUS
  <2>2. ucMaster' = [ucMaster EXCEPT !.state = s] /\ ucSync' = ucSync
    BY <1>7, <2>1 DEF UcGrant
  <2>3. /\ ucMaster' \in [state : UcStates, granted : SUBSET UcTypes, tmo : Nat]
        /\ ucMaster'.tmo = ucMaster.tmo /\ ucMaster'.state = s
    BY <1>4, <2>1, <2>2 DEF UcStates
  <2>4. s = "HAVE_SYDY" => ucMaster.state = "HAVE_SYDY"
    BY <2>1
  <2>5. QED
    BY <1>4, <1>6, <2>2, <2>3, <2>4
<1>8. CASE g.dur > 0 /\ ucP2p /\ g.type \in {"DELAY_RESP", "PDELAY_RESP"}
  <2>1. ucMaster' = ucMaster /\ ucSync' = ucSync
    BY <1>8 DEF UcGrant
  <2>2. QED
    BY <1>4, <1>6, <2>1
<1>9. CASE g.dur > 0 /\ ~(ucP2p /\ g.type \in {"DELAY_RESP", "PDELAY_RESP"})
  <2>1. g.dur = UcDuration
    BY <1>2, <1>9
  <2>2. ucMaster' = UcGranted(ucMaster, g.type, g.dur) /\ (ucSync' = g.per \/ ucSync' = ucSync)
    BY <1>9 DEF UcGrant
  <2>3. UcIsGranted(ucMaster', g.type)
    BY <1>1, <1>2, <2>1, <2>2, UcGrantedIs
  <2>4. CASE g.type = "PDELAY_RESP"
    BY <1>2, <1>4, <1>6, <2>2, <2>3, <2>4 DEF UcIsGranted
  <2>5. CASE g.type # "PDELAY_RESP"
    BY <1>2, <1>3, <1>4, <1>9, <2>2, <2>3, <2>5, UcRenewedStep
  <2>6. QED
    BY <2>4, <2>5
<1>10. g.dur > 0 \/ g.dur = 0
  BY <1>2, UcHoldIs, UcConsts
<1>11. QED
  BY <1>7, <1>8, <1>9, <1>10

\* The next second: no request for the Sync messages is under way, so the seconds since the renewal are
\* fewer than the messages that were lost.
LEMMA UcTickStep == UcInv /\ UcTick => UcInv'
<1> SUFFICES ASSUME UcInv, UcTick PROVE UcInv'
  OBVIOUS
<1>1. /\ ucNow \in Nat /\ ucNow' = ucNow + 1 /\ ucNet = {} /\ ucNet' = ucNet /\ ~ucDue /\ ucDue'
      /\ UNCHANGED <<ucMaster, ucSync, ucLost, usIval, usDenied>>
  BY DEF UcTick, UcInv, UcTyped, ucClientVars, usVars
<1>2. UcTyped'
  <2>1. ucMaster \in [state : UcStates, granted : SUBSET UcTypes, tmo : Nat] /\ ucMaster.tmo <= ucNow + UcHold
    BY DEF UcInv, UcTyped
  <2>2. ucMaster.tmo <= (ucNow + 1) + UcHold
    BY <1>1, <2>1, UcHoldIs
  <2>3. ucNow + 1 \in Nat
    BY <1>1
  <2>4. QED
    BY <1>1, <2>2, <2>3 DEF UcInv, UcTyped
<1>3. UsTyped' /\ UcPure' /\ UcFresh'
  BY <1>1 DEF UcInv, UsTyped, UcPure, UcFresh
<1>4. ASSUME ~usDenied' PROVE UcCovered'
  <2> SUFFICES ASSUME ucMaster'.state = "HAVE_SYDY" PROVE \E r \in Int : UcHeld(r)'
    BY DEF UcCovered
  <2>1. PICK r \in Int : UcHeld(r)
    BY <1>1, <1>4 DEF UcInv, UcCovered
  <2>2. ucLost \in Nat
    BY UcHoldIs DEF UcInv, UcTyped
  <2>3. ucNow >= r => ucNow + 1 <= r + ucLost
    BY <1>1, <2>1 DEF UcHeld
  <2>4. ucNow + 1 <= r + ucLost
    BY <1>1, <2>2, <2>3
  <2>5. UcHeld(r)'
    BY <1>1, <2>1, <2>4 DEF UcHeld
  <2>6. QED
    BY <2>5
<1>5. QED
  BY <1>2, <1>3, <1>4 DEF UcInv

LEMMA UcLoseStep ==
  ASSUME UcInv, NEW m \in ucNet, UcLose(m)
  PROVE  UcInv'
<1>1. /\ ucLost < UcLosses /\ ucLost' = ucLost + 1 /\ ucNet' = ucNet \ {m}
      /\ UNCHANGED <<ucNow, ucDue, ucMaster, ucSync, usIval, usDenied>>
  BY DEF UcLose, ucClientVars, usVars
<1>2. ucNow \in Nat /\ ucLost \in 0..UcLosses
  BY DEF UcInv, UcTyped
<1>3. ucLost' \in 0..UcLosses
  BY <1>1, <1>2, UcHoldIs
<1>4. UcTyped' /\ UsTyped'
  BY <1>1, <1>3 DEF UcInv, UcTyped, UsTyped
<1>5. UcPure'
  BY <1>1 DEF UcInv, UcPure
<1>6. ASSUME ~usDenied' PROVE UcFresh'
  BY <1>1, <1>6 DEF UcInv, UcFresh
<1>7. ASSUME ~usDenied' PROVE UcCovered'
  <2> SUFFICES ASSUME ucMaster'.state = "HAVE_SYDY" PROVE \E r \in Int : UcHeld(r)'
    BY DEF UcCovered
  <2>1. PICK r \in Int : UcHeld(r)
    BY <1>1, <1>7 DEF UcInv, UcCovered
  <2>2. ucNow <= r + ucLost' /\ ucNow + 1 <= r + ucLost'
    BY <1>1, <1>2, <2>1 DEF UcHeld
  <2>3. UcHeld(r)'
    BY <1>1, <2>1, <2>2 DEF UcHeld
  <2>4. QED
    BY <2>3
<1>8. QED
  BY <1>4, <1>5, <1>6, <1>7 DEF UcInv

\* unicast_client_timer
LEMMA UcTimerStep == UcInv /\ UcTimer => UcInv'
<1> SUFFICES ASSUME UcInv, UcTimer PROVE UcInv'
  OBVIOUS
<1> DEFINE sent == CASE ucMaster.state = "WAIT" -> UcAnnounce
                     [] ucMaster.state = "NEED_SYDY" -> UcSydy
                     [] OTHER -> UcRenew(ucMaster)
<1>1. /\ ucDue /\ ~ucDue' /\ ucNet = {} /\ ucNet' = UcPeerRenew \cup sent
      /\ UNCHANGED <<ucNow, ucSync, ucLost, usIval, usDenied>>
  BY DEF UcTimer, UcInv, UcTyped, usVars
<1>2. ucMaster \in [state : UcStates, granted : SUBSET UcTypes, tmo : Nat] /\ ucMaster.tmo <= ucNow + UcHold /\ ucNow \in Nat
      /\ ucSync \in UcPeriods
  BY DEF UcInv, UcTyped
<1>3. PICK tmo : tmo = IF ucMaster.state \in {"HAVE_ANN", "HAVE_SYDY"} /\ UcRenewDue(ucMaster.tmo) THEN 0 ELSE ucMaster.tmo
  OBVIOUS
<1>4. tmo \in Nat /\ tmo <= ucMaster.tmo
  BY <1>2, <1>3
<1>5. ucMaster' = [ucMaster EXCEPT !.tmo = tmo]
  BY <1>3 DEF UcTimer
<1>6. /\ ucMaster' \in [state : UcStates, granted : SUBSET UcTypes, tmo : Nat]
      /\ ucMaster'.tmo = tmo /\ ucMaster'.state = ucMaster.state
  BY <1>2, <1>4, <1>5
<1>7. \A m \in UcPeerRenew : m \in UcRequests /\ ~UcAsks(m, "SYNC") /\ ~UcAsks(m, "ANNOUNCE")
  BY <1>2, UcAsksFor
<1>8. /\ \A m \in sent : m \in UcRequests
      /\ ucMaster.state # "HAVE_SYDY" => (\A m \in sent : ~UcAsks(m, "SYNC")) \/ (\A m \in sent : ~UcAsks(m, "ANNOUNCE"))
      /\ ucMaster.state = "HAVE_SYDY" => sent = UcRenew(ucMaster) /\ \A m \in sent : UcAsks(m, "SYNC")
  <2>1. CASE ucMaster.state = "WAIT"
    <3>1. sent = UcAnnounce
      BY <2>1
    <3> HIDE DEF sent
    <3>2. QED
      BY <1>2, <2>1, <3>1, UcAsksFor
  <2>2. CASE ucMaster.state = "NEED_SYDY"
    <3>1. sent = UcSydy
      BY <2>2
    <3> HIDE DEF sent
    <3>2. QED
      BY <1>2, <2>2, <3>1, UcAsksFor
  <2>3. CASE ucMaster.state # "WAIT" /\ ucMaster.state # "NEED_SYDY"
    <3>1. sent = UcRenew(ucMaster)
      BY <2>3
    <3> HIDE DEF sent
    <3>2. QED
      BY <1>2, <2>3, <3>1, UcAsksFor
  <2>4. QED
    BY <2>1, <2>2, <2>3
<1> HIDE DEF sent
<1>9. UcRequests \subseteq UcMessages /\ \A m \in UcRequests : m.k = "req"
  BY DEF UcMessages, UcRequests
<1>10. UcTyped'
  <2>1. ucMaster'.tmo <= ucNow + UcHold
    BY <1>2, <1>4, <1>6, UcHoldIs
  <2>2. ucNet' \subseteq UcMessages
    BY <1>1, <1>7, <1>8, <1>9
  <2>3. QED
    BY <1>1, <1>6, <2>1, <2>2 DEF UcInv, UcTyped
<1>11. UsTyped'
  BY <1>1 DEF UcInv, UsTyped
<1>12. \A m \in ucNet' : m.k = "req"
  BY <1>1, <1>7, <1>8, <1>9
<1>13. UcFresh'
  BY <1>12 DEF UcFresh, UcGives
<1>14. UcPure'
  <2> SUFFICES ASSUME NEW m \in ucNet', UcAsks(m, "ANNOUNCE"), ~UcAsks(m, "SYNC")
               PROVE  ucMaster'.state # "HAVE_SYDY" /\ \A n \in ucNet' : ~UcAsks(n, "SYNC") /\ ~UcGives(n, {"SYNC", "DELAY_RESP"})
    BY DEF UcPure
  <2>1. m \in sent /\ ucMaster.state # "HAVE_SYDY"
    BY <1>1, <1>7, <1>8
  <2>2. \A n \in sent : ~UcAsks(n, "SYNC")
    BY <1>8, <2>1
  <2>3. \A n \in ucNet' : ~UcGives(n, {"SYNC", "DELAY_RESP"})
    BY <1>12 DEF UcGives
  <2>4. QED
    BY <1>1, <1>6, <1>7, <2>1, <2>2, <2>3
<1>15. ASSUME ~usDenied' PROVE UcCovered'
  <2> SUFFICES ASSUME ucMaster'.state = "HAVE_SYDY" PROVE \E r \in Int : UcHeld(r)'
    BY DEF UcCovered
  <2>1. ucMaster.state = "HAVE_SYDY"
    BY <1>6
  <2>2. PICK r \in Int : UcHeld(r)
    BY <1>1, <1>15, <2>1 DEF UcInv, UcCovered
  <2>3. ucMaster.tmo <= r /\ tmo <= r
    BY <1>2, <1>4, <2>2 DEF UcHeld
  <2>4. ASSUME \A m \in ucNet' : ~UcAsks(m, "SYNC") PROVE ~(ucNow >= r)
    <3>1. UcRenew(ucMaster) = {}
      BY <1>1, <1>8, <2>1, <2>4
    <3>2. ~UcRenewDue(ucMaster.tmo)
      BY <3>1 DEF UcRenew
    <3>3. ~(ucNow >= ucMaster.tmo)
      BY <3>2 DEF UcRenewDue
    <3>4. QED
      BY <1>2, <2>3, <3>3
  <2>5. UcHeld(r)'
    BY <1>1, <1>6, <2>2, <2>3, <2>4 DEF UcHeld
  <2>6. QED
    BY <2>5
<1>16. QED
  BY <1>10, <1>11, <1>13, <1>14, <1>15 DEF UcInv

\* process_signaling
LEMMA UsSignalStep ==
  ASSUME UcInv, NEW m \in ucNet, NEW fail, UsSignal(m, fail)
  PROVE  UcInv'
<1>1. UcTyped /\ UsTyped /\ m.k = "req" /\ UsProcess("c", m.tlvs, fail)
  BY DEF UcInv, UsSignal
<1>2. UNCHANGED <<ucNow, ucDue, ucLost, ucMaster, ucSync>>
  BY DEF UsSignal, ucClientVars
<1>3. m \in UcRequests /\ m.tlvs \in Seq(UcTlvs) /\ "c" \in UcClients
  <2>1. m \in UcMessages
    BY <1>1 DEF UcTyped
  <2>2. m \in UcRequests
    BY <1>1, <2>1 DEF UcMessages, UcGrants
  <2>3. QED
    BY <2>2 DEF UcRequests, UcClients
<1>4. UsProcessed("c", m.tlvs, usIval') /\ UcAnswered("c", m.tlvs, ucNet')
  BY <1>1, <1>3, UsProcessIs
<1>5. DOMAIN m.tlvs = 1..Len(m.tlvs)
  BY <1>3, LenProperties
<1>6. UsAsked(m.tlvs, Len(m.tlvs)) <=> UcAsks(m, "SYNC")
  BY <1>1, <1>5 DEF UsAsked, UcAsks
<1>7. \A n \in ucNet' : n \in ucNet \/ (n \in UcGrants /\ n.k = "grant" /\ UcAsks(m, n.type))
  BY <1>1, <1>4, <1>5 DEF UcAnswered, UcAsks, UcGrants
<1>8. \A n \in ucNet, type \in UcTypes : UcAsks(n, type) => n \in ucNet' \/ UcAsks(m, type)
  BY <1>1, <1>4 DEF UcAnswered, UcAsks
<1>9. \A n \in ucNet', type \in UcTypes : UcAsks(n, type) => n \in ucNet /\ ~UcGives(n, UcTypes)
  BY <1>7 DEF UcAsks, UcGives
<1>10. UcTyped' /\ UsTyped' /\ (~usDenied' => ~usDenied)
  <2>1. ~ucDue
    BY <1>1 DEF UcTyped
  <2>2. QED
    BY <1>1, <1>2, <1>4, <2>1 DEF UcTyped, UsProcessed, UcAnswered
<1>11. {"ANNOUNCE", "SYNC", "DELAY_RESP"} \subseteq UcTypes
  BY DEF UcTypes
<1>12. UcAsks(m, "DELAY_RESP") => UcAsks(m, "SYNC")
  BY <1>3 DEF UcRequests
<1>13. UcPure'
  <2> SUFFICES ASSUME NEW p \in ucNet', UcAsks(p, "ANNOUNCE"), ~UcAsks(p, "SYNC")
               PROVE  ucMaster'.state # "HAVE_SYDY" /\ \A n \in ucNet' : ~UcAsks(n, "SYNC") /\ ~UcGives(n, {"SYNC", "DELAY_RESP"})
    BY DEF UcPure
  <2>1. p \in ucNet
    BY <1>9, <1>11
  <2>2. ucMaster.state # "HAVE_SYDY" /\ \A n \in ucNet : ~UcAsks(n, "SYNC") /\ ~UcGives(n, {"SYNC", "DELAY_RESP"})
    BY <2>1 DEF UcInv, UcPure
  <2>3. ~UcAsks(m, "SYNC") /\ ~UcAsks(m, "DELAY_RESP")
    BY <1>12, <2>2
  <2>4. ASSUME NEW n \in ucNet' PROVE ~UcAsks(n, "SYNC") /\ ~UcGives(n, {"SYNC", "DELAY_RESP"})
    BY <1>7, <2>2, <2>3 DEF UcAsks, UcGives
  <2>5. QED
    BY <1>2, <2>2, <2>4
<1>14. ucNow \in Nat /\ ucLost \in 0..UcLosses /\ ucMaster.tmo <= ucNow + UcHold
  BY <1>1 DEF UcTyped
<1>15. ASSUME ~usDenied', UcAsks(m, "SYNC") PROVE UsKept(usIval', ucNow + UcDuration)
  BY <1>4, <1>6, <1>15 DEF UsProcessed
<1>16. ASSUME ~UcAsks(m, "SYNC"), NEW t \in Int, UsKept(usIval, t) PROVE UsKept(usIval', t)
  BY <1>4, <1>6, <1>16 DEF UsProcessed
<1>17. ASSUME ~usDenied' PROVE UcFresh'
  <2>1. CASE UcAsks(m, "SYNC")
    BY <1>2, <1>15, <1>17, <2>1 DEF UcFresh
  <2>2. CASE ~UcAsks(m, "SYNC")
    <3>1. UcFresh /\ ucNow + UcDuration \in Int
      BY <1>10, <1>14, <1>17, UcHoldIs DEF UcInv
    <3>2. ASSUME NEW g \in ucNet', UcGives(g, {"SYNC", "DELAY_RESP"}) \/ (ucMaster'.state = "HAVE_SYDY" /\ UcGives(g, {"ANNOUNCE"}))
          PROVE  UsKept(usIval, ucNow + UcDuration)
      <4>1. CASE g \in ucNet
        BY <1>2, <3>1, <3>2, <4>1 DEF UcFresh
      <4>2. CASE g \notin ucNet
        <5>1. UcAsks(m, g.type)
          BY <1>7, <4>2
        <5>2. g.type = "ANNOUNCE" /\ ucMaster.state = "HAVE_SYDY"
          BY <1>2, <1>12, <2>2, <3>2, <5>1 DEF UcGives
        <5>3. ucMaster.state # "HAVE_SYDY"
          BY <2>2, <5>1, <5>2 DEF UcInv, UcPure
        <5>4. QED
          BY <5>2, <5>3
      <4>3. QED
        BY <4>1, <4>2
    <3>3. QED
      BY <1>2, <1>16, <2>2, <3>1, <3>2 DEF UcFresh
  <2>3. QED
    BY <2>1, <2>2
<1>18. ASSUME ~usDenied' PROVE UcCovered'
  <2> SUFFICES ASSUME ucMaster'.state = "HAVE_SYDY" PROVE \E r \in Int : UcHeld(r)'
    BY DEF UcCovered
  <2>1. CASE UcAsks(m, "SYNC")
    <3>1. PICK r \in Int : r = ucNow + UcHold
      BY <1>14, UcHoldIs
    <3>2. r + (UcDuration - UcHold) = ucNow + UcDuration /\ ~(ucNow >= r) /\ ucNow <= r + ucLost
      BY <1>14, <3>1, UcHoldIs
    <3>3. UsKept(usIval', r + (UcDuration - UcHold))
      BY <1>15, <1>18, <2>1, <3>2
    <3>4. ucMaster.tmo <= r
      BY <1>14, <3>1
    <3>5. UcHeld(r)'
      BY <1>2, <3>2, <3>3, <3>4 DEF UcHeld
    <3>6. QED
      BY <3>5
  <2>2. CASE ~UcAsks(m, "SYNC")
    <3>1. PICK r \in Int : UcHeld(r)
      BY <1>2, <1>10, <1>18 DEF UcInv, UcCovered
    <3>2. UsKept(usIval', r + (UcDuration - UcHold))
      <4>1. r + (UcDuration - UcHold) \in Int
        BY UcHoldIs
      <4>2. QED
        BY <1>16, <2>2, <3>1, <4>1 DEF UcHeld
    <3>3. (\A n \in ucNet' : ~UcAsks(n, "SYNC")) => \A n \in ucNet : ~UcAsks(n, "SYNC")
      BY <1>8, <1>11, <2>2
    <3>4. UcHeld(r)'
      BY <1>2, <3>1, <3>2, <3>3 DEF UcHeld
    <3>5. QED
      BY <3>4
  <2>3. QED
    BY <2>1, <2>2
<1>19. QED
  BY <1>10, <1>13, <1>17, <1>18 DEF UcInv

LEMMA UcNextInv == UcInv /\ [UcNext]_ucVars => UcInv'
<1> SUFFICES ASSUME UcInv, [UcNext]_ucVars PROVE UcInv'
  OBVIOUS
<1>1. CASE UNCHANGED ucVars
  BY <1>1 DEF ucVars, UcInv, UcTyped, UsTyped, UcPure, UcFresh, UcCovered, UcHeld
<1>2. CASE UcTimer
  BY <1>2, UcTimerStep
<1>3. CASE UcTick
  BY <1>3, UcTickStep
<1>4. CASE UsTimer \/ UsPortState \/ (\E type \in UcTypes : UsRemove(type))
           \/ (\E type \in {"ANNOUNCE", "SYNC"}, per \in UcPeriods : UsOtherAsks(type, per))
  BY <1>4, UcServiceStep
<1>5. CASE (\E type \in UcTypes : UcCancel(type)) \/ (\E selected \in BOOLEAN : UcStateChanged(selected))
           \/ (\E per \in UcPeriods : UcInterval(per))
  BY <1>5, UcStateStep
<1>6. CASE \E g \in ucNet : UcGrant(g) \/ UcLose(g)
  BY <1>6, UcGrantStep, UcLoseStep
<1>7. CASE \E m \in ucNet, fail \in {"none", "client", "interval"} : UsSignal(m, fail)
  BY <1>7, UsSignalStep
<1>8. QED
  <2>1. CASE UcNext
    BY <2>1, <1>2, <1>3, <1>4, <1>5, <1>6, <1>7 DEF UcNext
  <2>2. QED
    BY <1>1, <2>1

\* Whatever the duration and the intervals, and whichever messages are lost or late: as long as no more
\* are lost than there are seconds from the renewal to the end of a grant (UcAssumption), the service of
\* linuxptp serves the Sync messages that its client counts on until a request of it is denied, and no client
\* is ever served one type of message from two intervals (unicast_client_set_renewal, unicast_client_timer,
\* unicast_service_add).
THEOREM UcAlwaysSound == UcSpec => []UcSound
<1>1. UcSpec => []UcInv
  BY UcInitInv, UcNextInv, PTL DEF UcSpec
<1>2. QED
  BY <1>1, UcInvSound, PTL
=============================================================================
