-------------------------- MODULE TrdpServicesProof --------------------------
(***************************************************************************)
(* Proofs about services of the TRDP library:                              *)
(*  - train topology information (TauTti), for every sequence of trains,   *)
(*    any number of telegrams and calls and every size of the cache: the   *)
(*    types, and that the session's counts follow the train, the           *)
(*    application misses no change of them, and the cache forgets an       *)
(*    earlier train;                                                       *)
(*  - the operating system abstraction (Vos): the message queues, for      *)
(*    every size of the ring and any number of threads, the memory pool,   *)
(*    for all classes of blocks and any number of threads, and the cyclic  *)
(*    threads and times, for every length of a second and every factor the *)
(*    code's width of a word allows;                                       *)
(*  - sessions (TrdpSession), for any number of sessions, groups and       *)
(*    elements and for every size of the pool: the usage counter of every  *)
(*    socket is exact, and every element hears the group it asked for;     *)
(*  - message data (TrdpMd), for any number of calls, retries and packets  *)
(*    lost and repeated: one session of a request at its replier, and one  *)
(*    end its caller learns of;                                            *)
(*  - message data over TCP (TrdpTcp), for any number of sessions and      *)
(*    connections, messages of any length sent and read in any pieces: the *)
(*    messages of sessions that share a connection stay apart, and the     *)
(*    socket's usage counter is the number of its sessions.                *)
(***************************************************************************)
EXTENDS TauTti, Vos, TrdpSession, TrdpMd, TrdpTcp, FiniteSetTheorems, SequenceTheorems, WellFoundedInduction, TLAPS

----------------------------------------------------------------------------
(* What the properties need: how far the callback is, and that no slot of  *)
(* the cache behind the second is ever used.                               *)
\* The callback for process data sets the counts one after the other: what it has not set yet it still holds,
\* and it tells of a change only after it has made one (ttiPDCallback).
TtHalfway ==
  /\ ttPd.at \in {"idle", "etb"} => ~ttPd.changed
  /\ ttPd.at = "etb" => ttPd.etb = ttHeard.etb
  /\ ttPd.at \in {"etb", "op"} => ttPd.op = ttHeard.op
  /\ ttPd.at \in {"op", "give", "idle"} => ttTopo.etb = ttHeard.etb
  /\ ttPd.at = "give" => ttTopo.op = ttHeard.op
\* Infos go to the slot of the own consist, to the next one or to one that holds the same consist.
TtTwoSlots == \A i \in 2 .. TtMax - 1 : ttCache[i] = TtNoInfo
TtInv == TtTypeOK /\ TtHalfway /\ TtCountsRight /\ TtNoneMissed /\ TtCacheNew /\ TtTwoSlots

LEMMA TtTrainTypes ==
  /\ Len(TtTrains) \in Nat /\ Len(TtTrains) > 0
  /\ \A k \in 1 .. Len(TtTrains) :
       /\ TtTrains[k].etb \in Nat /\ TtTrains[k].op \in Nat /\ TtTrains[k].trn \in Nat
       /\ TtTrains[k].cst \in Seq(TtConsists)
<1> DEFINE Train == [etb : Nat, op : Nat, trn : Nat, cst : Seq(TtConsists)]
<1>1. TtTrains \in Seq(Train) /\ Len(TtTrains) > 0
  BY TtAssumption
<1>2. \A t \in Train : t.etb \in Nat /\ t.op \in Nat /\ t.trn \in Nat /\ t.cst \in Seq(TtConsists)
  OBVIOUS
<1> HIDE DEF Train
<1>3. \A k \in 1 .. Len(TtTrains) : TtTrains[k] \in Train
  BY <1>1
<1> QED
  BY <1>1, <1>2, <1>3

LEMMA TtStartsRight == TtInit => TtInv
<1> SUFFICES ASSUME TtInit PROVE TtInv
  OBVIOUS
<1> USE DEF TtInit, TtZero, TtQuiet
<1>1. TtTypeOK
  <2>1. TtNoDir \in [cnt : 0 .. TtMax, topo : Nat, list : [1 .. TtMax -> TtConsists \cup {TtNone}]]
    BY TtAssumption DEF TtNoDir
  <2>2. TtNoCache \in [0 .. TtMax - 1 -> [cst : TtConsists \cup {TtNone}, gen : Nat]]
    BY DEF TtNoCache, TtNoInfo
  <2>3. TtQuiet \in [at : {"idle", "etb", "op", "give"}, etb : Nat, op : Nat, changed : BOOLEAN]
    OBVIOUS
  <2>4. TtZero \in TtCounts /\ 1 \in 1 .. Len(TtTrains)
    BY TtTrainTypes DEF TtCounts
  <2>5. ttOver \in BOOLEAN
    BY Zenon
  <2> HIDE DEF TtZero, TtQuiet
  <2> QED
    BY <2>1, <2>2, <2>3, <2>4, <2>5 DEF TtTypeOK
<1>2. TtHalfway /\ TtCountsRight /\ TtNoneMissed
  BY DEF TtHalfway, TtCountsRight, TtNoneMissed
<1>3. TtCacheNew /\ TtTwoSlots
  BY TtAssumption DEF TtCacheNew, TtTwoSlots, TtNoCache
<1> QED
  BY <1>1, <1>2, <1>3 DEF TtInv

----------------------------------------------------------------------------
(* The counts and the semaphore                                            *)
TtCountsInv == TtHalfway /\ TtCountsRight /\ TtNoneMissed

LEMMA TtCountsStep ==
  ASSUME TtTypeOK, TtCountsInv, [TtNext]_ttVars
  PROVE  TtCountsInv'
<1> DEFINE Same == UNCHANGED <<ttPd, ttTopo, ttHeard, ttTold, ttSema, ttApp>>
<1> USE DEF TtCountsInv
<1>t. /\ ttTopo \in TtCounts /\ ttTold \in TtCounts /\ ttHeard \in TtCounts /\ ttSema \in Nat
      /\ ttPd \in [at : {"idle", "etb", "op", "give"}, etb : Nat, op : Nat, changed : BOOLEAN]
      /\ ttApp \in {"idle", "took", "etb"}
  BY DEF TtTypeOK
<1>0. CASE Same
  BY <1>0 DEF TtHalfway, TtCountsRight, TtNoneMissed
<1>1. ASSUME NEW k \in 1 .. ttTrain, TtStatus(k) PROVE TtCountsInv'
  BY <1>t, <1>1 DEF TtStatus, TtBegin, TtHalfway, TtCountsRight, TtNoneMissed, ttUser, TtCounts
<1>2. CASE TtStatusCrc
  BY <1>t, <1>2 DEF TtStatusCrc, TtHalfway, TtCountsRight, TtNoneMissed, ttUser, TtCounts
<1>3. CASE TtTimeOut
  BY <1>t, <1>3 DEF TtTimeOut, TtTimedOut, TtZero, TtBegin, TtHalfway, TtCountsRight, TtNoneMissed, ttUser, TtCounts
<1>4. CASE TtSetEtb
  BY <1>t, <1>4 DEF TtSetEtb, TtHalfway, TtCountsRight, TtNoneMissed, ttUser, TtCounts
<1>5. CASE TtSetOp
  BY <1>t, <1>5 DEF TtSetOp, TtHalfway, TtCountsRight, TtNoneMissed, ttUser, TtCounts
<1>6. CASE TtGive
  BY <1>t, <1>6 DEF TtGive, TtQuiet, TtHalfway, TtCountsRight, TtNoneMissed, ttUser, TtCounts
<1>7. ASSUME NEW m \in ttNet, TtReceive(m) PROVE TtCountsInv'
  <2>1. ttPd.at = "idle" /\ UNCHANGED <<ttPd, ttSema, ttApp, ttTold, ttHeard>>
    BY <1>7 DEF TtReceive, ttUser
  <2>2. UNCHANGED ttTopo \/ ttTopo' = [ttTopo EXCEPT !.op = 0]
    BY <1>7 DEF TtReceive, TtOpDirReply, TtStoreOpTrnDir, TtOpDirTopo, TtTrnDirReply, TtCstInfoReply
  <2> QED
    BY <1>t, <2>1, <2>2 DEF TtHalfway, TtCountsRight, TtNoneMissed, TtCounts
<1>8. CASE TtTake
  BY <1>t, <1>8 DEF TtTake, TtHalfway, TtCountsRight, TtNoneMissed, TtCounts
<1>9. CASE TtReadEtb
  BY <1>t, <1>9 DEF TtReadEtb, TtHalfway, TtCountsRight, TtNoneMissed, TtCounts
<1>10. CASE TtReadOp
  BY <1>t, <1>10 DEF TtReadOp, TtHalfway, TtCountsRight, TtNoneMissed, TtCounts
<1>11. ASSUME NEW ok \in BOOLEAN, TtInitTTIaccess(ok) PROVE Same
  BY <1>11 DEF TtInitTTIaccess, ttUser
<1>12. CASE TtDeInitTTI
  BY <1>0, <1>12 DEF TtDeInitTTI, ttUser
<1>13. ASSUME NEW m \in ttNet, TtLateReply(m) \/ TtServe(m) PROVE Same
  BY <1>13 DEF TtLateReply, TtServe, ttUser
<1>14. CASE TtNotify \/ TtCouple
  BY <1>0, <1>14 DEF TtNotify, TtCouple, ttUser
<1>15. CASE TtGetOpTrDirectory \/ TtGetTrDirectory \/ TtGetTrnCstCnt
  BY <1>0, <1>15 DEF TtGetOpTrDirectory, TtGetTrDirectory, TtGetTrnCstCnt, TtAnswerOr
<1>16. ASSUME NEW c, TtGetStaticCstInfo(c) \/ TtGetByLabel(c) \/ TtFault(c) PROVE Same
  BY <1>16 DEF TtGetStaticCstInfo, TtGetByLabel, TtFault, TtAnswerOr
<1>17. CASE UNCHANGED ttVars
  BY <1>0, <1>17 DEF ttVars
<1> HIDE DEF TtCountsInv, Same
<1> QED
  BY <1>0, <1>1, <1>2, <1>3, <1>4, <1>5, <1>6, <1>7, <1>8, <1>9, <1>10, <1>11, <1>12, <1>13, <1>14, <1>15,
     <1>16, <1>17 DEF TtNext

----------------------------------------------------------------------------
(* The cache                                                               *)
TtCacheInv == TtCacheNew /\ TtTwoSlots

LEMMA TtCacheStep ==
  ASSUME TtTypeOK, TtCacheInv, [TtNext]_ttVars
  PROVE  TtCacheInv'
<1> DEFINE Same == UNCHANGED <<ttCache, ttGen>>
<1> USE DEF TtCacheInv
<1>t. /\ ttCache \in [0 .. TtMax - 1 -> [cst : TtConsists \cup {TtNone}, gen : Nat]] /\ ttGen \in Nat
      /\ TtMax \in Nat /\ TtCached \in 2 .. TtMax
  BY TtAssumption DEF TtTypeOK
<1>0. CASE Same
  BY <1>0 DEF TtCacheNew, TtTwoSlots
<1>1. ASSUME NEW m \in ttNet, TtReceive(m) PROVE TtCacheInv'
  <2>1. CASE TtOpDirReply(m)
    BY <1>0, <2>1 DEF TtOpDirReply
  <2>2. CASE TtTrnDirReply(m)
    <3>1. ttCache' = TtInvalidated
      BY <2>2 DEF TtTrnDirReply
    <3>2. \A i \in 0 .. TtMax - 1 : ttCache'[i] = TtNoInfo
      BY <1>t, <3>1 DEF TtInvalidated, TtTwoSlots
    <3> QED
      BY <1>t, <3>2 DEF TtCacheNew, TtTwoSlots
  <2>3. CASE TtCstInfoReply(m)
    <3>1. m.cst # TtNone
      BY <1>1, <2>3 DEF TtReceive, TtCstInfoReply, TtTypeOK
    <3>2. PICK i \in TtSlots(m.cst), mem \in BOOLEAN : TtStoreCstInfo(m.cst, i, mem)
      BY <2>3 DEF TtCstInfoReply
    <3>3. i \in {0, 1}
      BY <1>t, <3>1, <3>2 DEF TtSlots, TtTwoSlots, TtNoInfo
    <3>4. UNCHANGED ttGen
      BY <2>3 DEF TtCstInfoReply
    <3> DEFINE new == IF mem THEN [cst |-> m.cst, gen |-> ttGen] ELSE TtNoInfo
    <3>5. new # TtNoInfo => new.gen = ttGen
      OBVIOUS
    <3>6. ttCache' = [ttCache EXCEPT ![i] = new]
      BY <3>2 DEF TtStoreCstInfo
    <3> HIDE DEF new
    <3> QED
      BY <1>t, <3>3, <3>4, <3>5, <3>6 DEF TtCacheNew, TtTwoSlots
  <2> QED
    BY <1>1, <2>1, <2>2, <2>3 DEF TtReceive
<1>2. CASE TtDeInitTTI
  BY <1>t, <1>2 DEF TtDeInitTTI, TtNoCache, TtCacheNew, TtTwoSlots
<1>3. ASSUME NEW k, TtStatus(k) PROVE Same
  BY <1>3 DEF TtStatus
<1>4. CASE TtStatusCrc \/ TtTimeOut \/ TtSetEtb \/ TtSetOp \/ TtGive
  BY <1>0, <1>4 DEF TtStatusCrc, TtTimeOut, TtSetEtb, TtSetOp, TtGive, ttLib
<1>5. ASSUME NEW ok \in BOOLEAN, TtInitTTIaccess(ok) PROVE Same
  BY <1>5 DEF TtInitTTIaccess, ttLib
<1>6. ASSUME NEW m \in ttNet, TtLateReply(m) \/ TtServe(m) PROVE Same
  BY <1>6 DEF TtLateReply, TtServe, ttLib
<1>7. CASE TtNotify \/ TtCouple
  BY <1>0, <1>7 DEF TtNotify, TtCouple, ttLib
<1>8. CASE TtGetOpTrDirectory \/ TtGetTrDirectory \/ TtGetTrnCstCnt
  BY <1>0, <1>8 DEF TtGetOpTrDirectory, TtGetTrDirectory, TtGetTrnCstCnt, TtAnswerOr, ttLib
<1>9. ASSUME NEW c, TtGetStaticCstInfo(c) \/ TtGetByLabel(c) \/ TtFault(c) PROVE Same
  BY <1>9 DEF TtGetStaticCstInfo, TtGetByLabel, TtFault, TtAnswerOr, ttLib
<1>10. CASE TtTake \/ TtReadEtb \/ TtReadOp
  BY <1>0, <1>10 DEF TtTake, TtReadEtb, TtReadOp, ttLib
<1>11. CASE UNCHANGED ttVars
  BY <1>0, <1>11 DEF ttVars
<1> HIDE DEF TtCacheInv, Same
<1> QED
  BY <1>0, <1>1, <1>2, <1>3, <1>4, <1>5, <1>6, <1>7, <1>8, <1>9, <1>10, <1>11 DEF TtNext

----------------------------------------------------------------------------
(* The types                                                               *)
TtMessages == [kind : {"op", "note", "dir", "cst"}, cst : TtConsists \cup {TtNone}, train : 0 .. Len(TtTrains)]
TtNetOK(net) == net \subseteq TtMessages /\ \A m \in net : m.kind = "cst" /\ m.train # 0 => m.cst # TtNone

LEMMA TtRequestOK ==
  ASSUME NEW kind \in {"op", "note", "dir", "cst"}, NEW c \in TtConsists \cup {TtNone}
  PROVE  TtRequest(kind, c) \in TtMessages /\ TtRequest(kind, c).train = 0
BY TtTrainTypes DEF TtRequest, TtMessages

LEMMA TtDirTypes ==
  ASSUME TtTypeOK, NEW k \in 1 .. Len(TtTrains)
  PROVE  TtStoreTrnDir(k) \in [cnt : 0 .. TtMax, topo : Nat, list : [1 .. TtMax -> TtConsists \cup {TtNone}]]
<1>1. CASE Len(TtTrains[k].cst) > TtMax
  BY <1>1 DEF TtStoreTrnDir, TtTypeOK
<1>2. CASE ~(Len(TtTrains[k].cst) > TtMax)
  <2> DEFINE cst == TtTrains[k].cst
             list == [i \in 1 .. TtMax |-> IF i <= Len(cst) THEN cst[i] ELSE ttDir.list[i]]
  <2>1. cst \in Seq(TtConsists) /\ TtTrains[k].trn \in Nat
    BY TtTrainTypes
  <2>2. ttDir.list \in [1 .. TtMax -> TtConsists \cup {TtNone}]
    BY DEF TtTypeOK
  <2>3. TtMax \in Nat
    BY TtAssumption
  <2> HIDE DEF cst
  <2>4. list \in [1 .. TtMax -> TtConsists \cup {TtNone}]
    BY <2>1, <2>2, <2>3
  <2>5. Len(cst) \in 0 .. TtMax
    BY <1>2, <2>1, <2>3 DEF cst
  <2>6. TtStoreTrnDir(k) = [cnt |-> Len(cst), topo |-> TtTrains[k].trn, list |-> list]
    BY <1>2 DEF TtStoreTrnDir, cst
  <2> HIDE DEF list
  <2> QED
    BY <2>1, <2>4, <2>5, <2>6
<1> QED
  BY <1>1, <1>2

LEMMA TtCountTypes ==
  ASSUME NEW c \in TtCounts, NEW n \in Nat
  PROVE  /\ [c EXCEPT !.etb = n] \in TtCounts /\ [c EXCEPT !.op = n] \in TtCounts
         /\ c.etb \in Nat /\ c.op \in Nat
BY DEF TtCounts

LEMMA TtTypeStep ==
  ASSUME TtTypeOK, [TtNext]_ttVars
  PROVE  TtTypeOK'
<1> DEFINE Pd == [at : {"idle", "etb", "op", "give"}, etb : Nat, op : Nat, changed : BOOLEAN]
           Cache == [0 .. TtMax - 1 -> [cst : TtConsists \cup {TtNone}, gen : Nat]]
           Dir == [cnt : 0 .. TtMax, topo : Nat, list : [1 .. TtMax -> TtConsists \cup {TtNone}]]
           Rest == /\ ttDb \in {"null", "up", "freed", "fault"} /\ ttOver \in BOOLEAN
                   /\ ttApp \in {"idle", "took", "etb"} /\ ttTrain \in 1 .. Len(TtTrains)
                   /\ ttSema \in Nat /\ ttEv \in Nat /\ ttCalled \in Nat
           Topo == ttTopo \in TtCounts /\ ttState \in TtCounts /\ ttTold \in TtCounts /\ ttHeard \in TtCounts
           Data == ttDir \in Dir /\ ttCache \in Cache /\ ttGen \in Nat
           PdOK == ttPd \in Pd
           Net == TtNetOK(ttNet)
<1>t. TtTypeOK <=> Rest /\ Topo /\ Data /\ PdOK /\ Net
  BY DEF TtTypeOK, TtNetOK, TtMessages
<1>tt. TtTypeOK' <=> Rest' /\ Topo' /\ Data' /\ PdOK' /\ Net'
  BY DEF TtTypeOK, TtNetOK, TtMessages
<1>n. TtZero \in TtCounts /\ TtQuiet \in Pd /\ TtNoDir \in Dir /\ TtNoCache \in Cache
  BY TtAssumption DEF TtZero, TtCounts, TtQuiet, TtNoDir, TtNoCache, TtNoInfo
<1>1. ASSUME NEW k \in 1 .. ttTrain, TtStatus(k) PROVE TtTypeOK'
  <2> DEFINE c == [etb |-> TtTrains[k].etb, op |-> TtTrains[k].op]
  <2>1. c \in TtCounts
    <3>1. k \in 1 .. Len(TtTrains)
      BY <1>t, TtTrainTypes
    <3> QED
      BY <3>1, TtTrainTypes DEF TtCounts
  <2>2. TtBegin(c) \in Pd
    BY <2>1 DEF TtBegin, TtCounts
  <2>3. ttState' = c /\ ttHeard' = c /\ ttPd' = TtBegin(c) /\ ttEv' = ttEv + 1
    BY <1>1 DEF TtStatus, TtEvent
  <2> HIDE DEF c
  <2> QED
    BY <1>1, <1>t, <1>tt, <2>1, <2>2, <2>3 DEF TtStatus, ttUser
<1>2. CASE TtStatusCrc
  <2>1. ttTopo' \in TtCounts
    BY <1>2, <1>t, TtCountTypes DEF TtStatusCrc
  <2> QED
    BY <1>2, <1>t, <1>tt, <2>1 DEF TtStatusCrc, TtEvent, ttUser, ttLib
<1>3. CASE TtTimeOut
  <2>1. TtBegin(TtZero) \in Pd
    BY DEF TtBegin, TtZero
  <2>2. ttPd' = TtBegin(TtZero)
    BY <1>3 DEF TtTimeOut, TtTimedOut
  <2> HIDE DEF Pd
  <2> QED
    BY <1>3, <1>t, <1>tt, <1>n, <2>1, <2>2 DEF TtTimeOut, TtEvent, ttUser, ttLib
<1>4. CASE TtSetEtb \/ TtSetOp
  <2>1. Topo'
    <3>1. ttPd.etb \in Nat /\ ttPd.op \in Nat
      BY <1>t
    <3>2. ttTopo' \in TtCounts
      <4>1. ttTopo \in TtCounts
        BY <1>t
      <4>2. ttTopo' = [ttTopo EXCEPT !.etb = ttPd.etb] \/ ttTopo' = [ttTopo EXCEPT !.op = ttPd.op]
        BY <1>4 DEF TtSetEtb, TtSetOp
      <4> QED
        BY <3>1, <4>1, <4>2, TtCountTypes
    <3> QED
      BY <1>4, <1>t, <3>2 DEF TtSetEtb, TtSetOp, ttUser, ttLib
  <2>2. PdOK'
    BY <1>4, <1>t DEF TtSetEtb, TtSetOp
  <2> HIDE DEF Pd, Topo, PdOK
  <2> QED
    BY <1>4, <1>t, <1>tt, <2>1, <2>2 DEF TtSetEtb, TtSetOp, ttUser, ttLib
<1>5. CASE TtGive
  BY <1>5, <1>t, <1>tt, <1>n DEF TtGive, ttUser, ttLib
<1>6. ASSUME NEW m \in ttNet, TtReceive(m) PROVE TtTypeOK'
  <2>m. m.train \in 1 .. Len(TtTrains) /\ m.cst \in TtConsists \cup {TtNone}
    BY <1>6, <1>t, TtTrainTypes DEF TtReceive, TtNetOK, TtMessages
  <2>u. UNCHANGED <<ttDb, ttState, ttPd, ttSema, ttApp, ttTold, ttCalled, ttHeard, ttTrain, ttEv>>
    BY <1>6 DEF TtReceive, ttUser
  <2>n. TtNetOK(ttNet \ {m})
    BY <1>t DEF TtNetOK
  <2>1. CASE TtOpDirReply(m)
    <3>1. UNCHANGED ttTopo \/ ttTopo' = [ttTopo EXCEPT !.op = 0]
      BY <2>1 DEF TtOpDirReply, TtStoreOpTrnDir, TtOpDirTopo
    <3>2. ttTopo' \in TtCounts
      <4>1. ttTopo \in TtCounts /\ 0 \in Nat
        BY <1>t
      <4> QED
        BY <3>1, <4>1, TtCountTypes
    <3>3. ttOver' \in BOOLEAN
      BY <2>1, <1>t, Zenon DEF TtOpDirReply, TtStoreOpTrnDir
    <3> QED
      BY <2>1, <2>u, <2>n, <3>2, <3>3, <1>t, <1>tt DEF TtOpDirReply
  <2>2. CASE TtTrnDirReply(m)
    <3> DEFINE dir == TtStoreTrnDir(m.train)
    <3>1. dir \in Dir
      BY <2>m, TtDirTypes
    <3>2. TtInvalidated \in Cache
      BY <1>t DEF TtInvalidated, TtNoInfo
    <3>3. \A r \in TtInfoRequests(dir) : r \in TtMessages /\ r.train = 0
      BY <3>1, TtRequestOK, TtAssumption DEF TtInfoRequests
    <3>4. TtNetOK((ttNet \ {m}) \cup TtInfoRequests(dir))
      BY <2>n, <3>3 DEF TtNetOK
    <3>5. ttDir' = dir /\ ttCache' = TtInvalidated /\ ttGen' = ttGen + 1 /\ UNCHANGED <<ttTopo, ttOver>>
          /\ ttNet' = (ttNet \ {m}) \cup TtInfoRequests(dir)
      BY <2>2 DEF TtTrnDirReply
    <3> HIDE DEF dir
    <3> QED
      BY <2>u, <3>1, <3>2, <3>4, <3>5, <1>t, <1>tt
  <2>3. CASE TtCstInfoReply(m)
    <3>1. PICK i \in TtSlots(m.cst), mem \in BOOLEAN : TtStoreCstInfo(m.cst, i, mem)
      BY <2>3 DEF TtCstInfoReply
    <3>2. (IF mem THEN [cst |-> m.cst, gen |-> ttGen] ELSE TtNoInfo) \in [cst : TtConsists \cup {TtNone}, gen : Nat]
      BY <2>m, <1>t DEF TtNoInfo
    <3>3. ttCache' \in Cache
      BY <3>1, <3>2, <1>t DEF TtStoreCstInfo
    <3> QED
      BY <2>3, <2>u, <2>n, <3>3, <1>t, <1>tt DEF TtCstInfoReply
  <2> QED
    BY <1>6, <2>1, <2>2, <2>3 DEF TtReceive
<1>7. CASE TtTake \/ TtReadEtb \/ TtReadOp
  <2>1. ttTold' \in TtCounts
    <3>1. ttTold \in TtCounts /\ ttTopo.etb \in Nat /\ ttTopo.op \in Nat
      BY <1>t, TtCountTypes
    <3>2. \/ UNCHANGED ttTold
          \/ ttTold' = [ttTold EXCEPT !.etb = ttTopo.etb] \/ ttTold' = [ttTold EXCEPT !.op = ttTopo.op]
      BY <1>7 DEF TtTake, TtReadEtb, TtReadOp
    <3> QED
      BY <3>1, <3>2, TtCountTypes
  <2> QED
    BY <1>7, <1>t, <1>tt, <2>1 DEF TtTake, TtReadEtb, TtReadOp, ttLib
<1>8. ASSUME NEW ok \in BOOLEAN, TtInitTTIaccess(ok) PROVE TtTypeOK'
  BY <1>8, <1>t, <1>tt DEF TtInitTTIaccess, ttUser, ttLib
<1>9. CASE TtDeInitTTI
  BY <1>9, <1>t, <1>tt, <1>n DEF TtDeInitTTI, ttUser
<1>10. ASSUME NEW m \in ttNet, TtLateReply(m) PROVE TtTypeOK'
  BY <1>10, <1>t, <1>tt DEF TtLateReply, ttUser, ttLib
<1>11. ASSUME NEW m \in ttNet, TtServe(m) PROVE TtTypeOK'
  <2> DEFINE r == [m EXCEPT !.train = ttTrain]
  <2>1. r \in TtMessages /\ (r.kind = "cst" => r.cst # TtNone)
    BY <1>11, <1>t, TtTrainTypes DEF TtServe, TtNetOK, TtMessages
  <2>2. ttNet' = (ttNet \ {m}) \cup {r}
    BY <1>11 DEF TtServe
  <2> HIDE DEF r
  <2>3. Net'
    BY <2>1, <2>2, <1>t DEF TtNetOK
  <2> HIDE DEF Net
  <2> QED
    BY <1>11, <1>t, <1>tt, <2>3 DEF TtServe, ttUser, ttLib
<1>12. CASE TtNotify
  <2> DEFINE r == [TtRequest("note", TtNone) EXCEPT !.train = ttTrain]
  <2>1. r \in TtMessages /\ r.kind # "cst"
    BY <1>t, TtTrainTypes DEF TtRequest, TtMessages
  <2>2. ttNet' = ttNet \cup {r} /\ ttEv' = ttEv + 1
    BY <1>12 DEF TtNotify, TtEvent
  <2> HIDE DEF r
  <2>3. Net'
    BY <2>1, <2>2, <1>t DEF TtNetOK
  <2> HIDE DEF Net
  <2> QED
    BY <1>12, <1>t, <1>tt, <2>2, <2>3 DEF TtNotify, ttUser, ttLib
<1>13. CASE TtCouple
  BY <1>13, <1>t, <1>tt, TtTrainTypes DEF TtCouple, ttUser, ttLib
<1>14. ASSUME NEW ask, NEW kind \in {"op", "dir", "cst"}, NEW c \in TtConsists \cup {TtNone},
              TtCalling, TtAnswerOr(ask, kind, c)
       PROVE  TtTypeOK'
  <2>1. ttNet' = ttNet \/ ttNet' = ttNet \cup {TtRequest(kind, c)}
    BY <1>14 DEF TtAnswerOr, TtAsk
  <2>2. Net'
    BY <2>1, <1>t, TtRequestOK DEF TtNetOK
  <2> HIDE DEF Net
  <2> QED
    BY <1>14, <1>t, <1>tt, <2>2 DEF TtCalling, TtAnswerOr, ttLib
<1>15. CASE TtGetOpTrDirectory
  BY <1>14, <1>15 DEF TtGetOpTrDirectory
<1>16. CASE TtGetTrDirectory \/ TtGetTrnCstCnt
  BY <1>14, <1>16 DEF TtGetTrDirectory, TtGetTrnCstCnt
<1>17. ASSUME NEW c \in TtConsists \cup {TtNone}, TtGetStaticCstInfo(c) \/ TtGetByLabel(c) PROVE TtTypeOK'
  BY <1>14, <1>17 DEF TtGetStaticCstInfo, TtGetByLabel, TtUuid
<1>18. ASSUME NEW c, TtFault(c) PROVE TtTypeOK'
  BY <1>18, <1>t, <1>tt DEF TtFault, TtCalling, ttLib
<1>19. CASE UNCHANGED ttVars
  BY <1>19, <1>t, <1>tt DEF ttVars
<1> QED
  BY <1>1, <1>2, <1>3, <1>4, <1>5, <1>6, <1>7, <1>8, <1>9, <1>10, <1>11, <1>12, <1>13, <1>15, <1>16, <1>17,
     <1>18, <1>19 DEF TtNext

----------------------------------------------------------------------------
LEMMA TtInductive == TtSpec => []TtInv
<1>1. TtInv /\ [TtNext]_ttVars => TtInv'
  BY TtTypeStep, TtCountsStep, TtCacheStep DEF TtInv, TtCountsInv, TtCacheInv
<1> QED
  BY <1>1, TtStartsRight, PTL DEF TtSpec

\* The types hold (tau_tti.c), whatever trains, telegrams, replies and calls come.
THEOREM TtTypes == TtSpec => []TtTypeOK
<1>1. TtInv => TtTypeOK
  BY DEF TtInv
<1> QED
  BY <1>1, TtInductive, PTL

\* The session's counts are those of the last status or zero, the application is told of every change of
\* them that is no clearing of the second one, and the cache holds nothing from before the last train
\* directory (ttiPDCallback, ttiMDCallback, ttiStoreCstInfo), for every sequence of trains and any number of
\* telegrams, lost or late, and of calls.
THEOREM TtAlwaysSound == TtSpec => []TtSound
<1>1. TtInv => TtSound
  BY DEF TtInv, TtSound
<1> QED
  BY <1>1, TtInductive, PTL

----------------------------------------------------------------------------
(* The message queue (Vos).                                                *)

\* How far slot x lies behind firstElem = f.
VqOff(x, f) == IF x >= f THEN x - f ELSE x - f + VqMax

\* The messages in a ring from f to l.
VqCount(ring, f, l) == IF ring[f] = 0 THEN 0 ELSE VqOff(l, f) + 1

\* The ring is filled from f to l and empty elsewhere; an empty one has f = l.
VqWindow(ring, f, l) ==
  /\ ring \in [VqSlots -> Nat] /\ f \in VqSlots /\ l \in VqSlots
  /\ \A x \in VqSlots : ring[x] # 0 <=> VqOff(x, f) < VqCount(ring, f, l)
  /\ ring[f] = 0 => l = f

LEMMA VqStepFacts ==
  ASSUME NEW i \in VqSlots
  PROVE  /\ VqForth(i) = IF i = VqMax - 1 THEN 0 ELSE i + 1
         /\ VqBack(i) = IF i = 0 THEN VqMax - 1 ELSE i - 1
<1>1. i \in 0 .. VqMax - 1 /\ VqMax \in Nat \ {0}
  BY VqAssumption DEF VqSlots
<1>2. VqForth(i) = IF i = VqMax - 1 THEN 0 ELSE i + 1
  <2>1. CASE i = VqMax - 1
    BY <1>1, <2>1 DEF VqForth
  <2>2. CASE i < VqMax - 1
    <3>1. i + 1 \in 0 .. VqMax - 1
      BY <1>1, <2>2
    <3>2. QED
      BY <1>1, <2>2, <3>1 DEF VqForth
  <2>3. QED
    BY <1>1, <2>1, <2>2
<1>3. VqBack(i) = IF i = 0 THEN VqMax - 1 ELSE i - 1
  <2>1. CASE i = 0
    BY <1>1, <2>1 DEF VqBack
  <2>2. CASE i > 0
    <3>1. (i + VqMax - 1) = (i - 1) + VqMax /\ i - 1 \in 0 .. VqMax - 1
      BY <1>1, <2>2
    <3>2. (i + VqMax - 1) % VqMax = i - 1
      BY <1>1, <3>1
    <3>3. QED
      BY <1>1, <2>2, <3>2 DEF VqBack
  <2>3. QED
    BY <1>1, <2>1, <2>2
<1>4. QED
  BY <1>2, <1>3

LEMMA VqOffFacts ==
  ASSUME NEW f \in VqSlots, NEW x \in VqSlots
  PROVE  /\ VqOff(x, f) \in 0 .. VqMax - 1 /\ VqOff(f, f) = 0
         /\ \A y \in VqSlots : VqOff(x, f) = VqOff(y, f) => x = y
         /\ VqForth(x) \in VqSlots /\ VqBack(x) \in VqSlots
         /\ VqOff(x, f) < VqMax - 1 => VqOff(VqForth(x), f) = VqOff(x, f) + 1
         /\ VqOff(x, f) < VqMax - 1 => VqOff(x, VqBack(f)) = VqOff(x, f) + 1
         /\ VqOff(x, VqForth(f)) = IF x = f THEN VqMax - 1 ELSE VqOff(x, f) - 1
         /\ VqOff(VqBack(f), f) = VqMax - 1
         /\ VqOff(x, f) = VqMax - 1 <=> x + 1 = f \/ (x = VqMax - 1 /\ f = 0)
<1>1. f \in 0 .. VqMax - 1 /\ x \in 0 .. VqMax - 1 /\ VqMax \in Nat \ {0}
  BY VqAssumption DEF VqSlots
<1>2. /\ VqForth(x) = IF x = VqMax - 1 THEN 0 ELSE x + 1
      /\ VqForth(f) = IF f = VqMax - 1 THEN 0 ELSE f + 1
      /\ VqBack(x) = IF x = 0 THEN VqMax - 1 ELSE x - 1
      /\ VqBack(f) = IF f = 0 THEN VqMax - 1 ELSE f - 1
  BY VqStepFacts
<1>3. VqOff(x, f) \in 0 .. VqMax - 1 /\ VqOff(f, f) = 0
  BY <1>1 DEF VqOff
<1>4. ASSUME NEW y \in VqSlots, VqOff(x, f) = VqOff(y, f) PROVE x = y
  <2>1. y \in 0 .. VqMax - 1
    BY DEF VqSlots
  <2>2. QED
    BY <1>1, <1>4, <2>1 DEF VqOff
<1>5. VqForth(x) \in VqSlots /\ VqBack(x) \in VqSlots
  BY <1>1, <1>2 DEF VqSlots
<1>6. VqOff(x, f) < VqMax - 1 => VqOff(VqForth(x), f) = VqOff(x, f) + 1
  BY <1>1, <1>2 DEF VqOff
<1>7. VqOff(x, f) < VqMax - 1 => VqOff(x, VqBack(f)) = VqOff(x, f) + 1
  BY <1>1, <1>2 DEF VqOff
<1>8. VqOff(x, VqForth(f)) = IF x = f THEN VqMax - 1 ELSE VqOff(x, f) - 1
  BY <1>1, <1>2 DEF VqOff
<1>9. VqOff(VqBack(f), f) = VqMax - 1
  BY <1>1, <1>2 DEF VqOff
<1>10. VqOff(x, f) = VqMax - 1 <=> x + 1 = f \/ (x = VqMax - 1 /\ f = 0)
  BY <1>1 DEF VqOff
<1>11. QED
  BY <1>3, <1>4, <1>5, <1>6, <1>7, <1>8, <1>9, <1>10

LEMMA VqOffNat ==
  ASSUME NEW f \in VqSlots, NEW x \in VqSlots
  PROVE  VqOff(x, f) \in Nat /\ (VqOff(x, f) = 0 <=> x = f)
<1>1. VqOff(x, f) \in 0 .. VqMax - 1 /\ VqOff(f, f) = 0
  BY VqOffFacts
<1>2. VqOff(x, f) = VqOff(f, f) => x = f
  BY VqOffFacts
<1>3. QED
  BY <1>1, <1>2, VqAssumption

\* The slot a message is put into, when the ring is not full.
VqPlace(ring, f, l, policy) ==
  IF ring[f] = 0 THEN f ELSE IF policy = "fifo" THEN VqForth(l) ELSE VqBack(f)

\* Putting a message into the ring: the slot was empty, the window grows by one, and first in first
\* out leaves the beginning where it is.
LEMMA VqPutFacts ==
  ASSUME NEW ring, NEW f, NEW l, VqWindow(ring, f, l), ~(l + 1 = f \/ (l = VqMax - 1 /\ f = 0)),
         NEW policy \in {"fifo", "lifo"}, NEW v \in Nat \ {0}
  PROVE  LET at == VqPlace(ring, f, l, policy)
             r2 == [ring EXCEPT ![at] = v]
             l2 == IF ring[f] # 0 /\ policy = "fifo" THEN at ELSE l
             f2 == IF ring[f] # 0 /\ policy = "lifo" THEN at ELSE f
         IN  /\ at \in VqSlots /\ ring[at] = 0
             /\ VqWindow(r2, f2, l2) /\ VqCount(r2, f2, l2) = VqCount(ring, f, l) + 1
             /\ policy = "fifo" => f2 = f /\ VqOff(at, f) = VqCount(ring, f, l)
<1> DEFINE at == VqPlace(ring, f, l, policy)
           r2 == [ring EXCEPT ![at] = v]
           k == VqCount(ring, f, l)
           GOAL(f2, l2) == /\ at \in VqSlots /\ ring[at] = 0
                           /\ VqWindow(r2, f2, l2) /\ VqCount(r2, f2, l2) = k + 1
                           /\ policy = "fifo" => f2 = f /\ VqOff(at, f) = k
<1>1. /\ ring \in [VqSlots -> Nat] /\ f \in VqSlots /\ l \in VqSlots
      /\ \A x \in VqSlots : ring[x] # 0 <=> VqOff(x, f) < k
      /\ ring[f] = 0 => l = f
  BY DEF VqWindow
<1>2. VqMax \in Nat \ {0} /\ VqSlots = 0 .. VqMax - 1
  BY VqAssumption DEF VqSlots
<1>3. VqOff(l, f) \in 0 .. VqMax - 1 /\ VqOff(l, f) # VqMax - 1 /\ VqOff(f, f) = 0
  BY <1>1, VqOffFacts
<1>4. k \in Nat /\ k <= VqMax - 1
  <2>1. VqOff(l, f) + 1 \in Nat /\ VqOff(l, f) + 1 <= VqMax - 1
    BY <1>2, <1>3
  <2>2. QED
    BY <1>2, <1>3, <2>1 DEF VqCount
<1>5. CASE ring[f] = 0
  <2>1. at = f /\ k = 0 /\ l = f
    BY <1>1, <1>5 DEF VqPlace, VqCount
  <2>2. r2 \in [VqSlots -> Nat] /\ r2[f] = v /\ \A x \in VqSlots : x # f => r2[x] = ring[x]
    BY <1>1, <2>1
  <2> HIDE DEF r2, at, k
  <2>3. VqCount(r2, f, l) = 1
    BY <1>3, <2>1, <2>2 DEF VqCount
  <2>4. ASSUME NEW x \in VqSlots PROVE r2[x] # 0 <=> VqOff(x, f) < 1
    <3>1. VqOff(x, f) \in Nat /\ (VqOff(x, f) = 0 <=> x = f)
      BY <1>1, VqOffNat
    <3>2. CASE x = f
      BY <2>2, <3>1, <3>2
    <3>3. CASE x # f
      BY <1>1, <2>1, <2>2, <3>1, <3>3
    <3>4. QED
      BY <3>2, <3>3
  <2>5. VqWindow(r2, f, l)
    BY <1>1, <2>1, <2>2, <2>3, <2>4 DEF VqWindow
  <2>6. GOAL(f, l)
    BY <1>1, <1>3, <1>5, <2>1, <2>3, <2>5
  <2>7. QED
    BY <1>5, <2>6 DEF r2, at, k
<1>6. CASE ring[f] # 0 /\ policy = "fifo"
  <2>1. at = VqForth(l) /\ k = VqOff(l, f) + 1
    BY <1>6 DEF VqPlace, VqCount
  <2>2. at \in VqSlots /\ VqOff(at, f) = k
    <3>1. VqOff(l, f) < VqMax - 1
      BY <1>2, <1>3
    <3>2. VqForth(l) \in VqSlots /\ VqOff(VqForth(l), f) = VqOff(l, f) + 1
      BY <1>1, <3>1, VqOffFacts
    <3>3. QED
      BY <2>1, <3>2
  <2>3. ring[at] = 0 /\ at # f
    <3>1. ~(VqOff(at, f) < k) /\ k # 0
      BY <1>3, <1>4, <2>1, <2>2
    <3>2. QED
      BY <1>1, <1>3, <2>2, <3>1
  <2>4. r2 \in [VqSlots -> Nat] /\ r2[at] = v /\ \A x \in VqSlots : x # at => r2[x] = ring[x]
    BY <1>1, <2>2
  <2> HIDE DEF r2, at, k
  <2>5. r2[f] = ring[f] /\ r2[f] # 0
    BY <1>1, <1>6, <2>3, <2>4
  <2>6. VqCount(r2, f, at) = k + 1
    BY <2>2, <2>5 DEF VqCount
  <2>7. ASSUME NEW x \in VqSlots PROVE r2[x] # 0 <=> VqOff(x, f) < k + 1
    <3>1. VqOff(x, f) \in Nat
      BY <1>1, VqOffNat
    <3>5. VqOff(x, f) = VqOff(at, f) => x = at
      BY <1>1, <2>2, VqOffFacts
    <3>2. CASE x = at
      BY <1>4, <2>2, <2>4, <3>2
    <3>3. CASE x # at
      BY <1>1, <1>4, <2>2, <2>4, <3>1, <3>3, <3>5
    <3>4. QED
      BY <3>2, <3>3
  <2>8. VqWindow(r2, f, at)
    BY <1>1, <2>2, <2>4, <2>5, <2>6, <2>7 DEF VqWindow
  <2>9. GOAL(f, at)
    BY <2>2, <2>3, <2>6, <2>8
  <2>10. QED
    BY <1>6, <2>9 DEF r2, at, k
<1>7. CASE ring[f] # 0 /\ policy = "lifo"
  <2>1. at = VqBack(f) /\ k = VqOff(l, f) + 1
    BY <1>7 DEF VqPlace, VqCount
  <2>2. at \in VqSlots /\ VqOff(at, f) = VqMax - 1 /\ VqOff(l, at) = k
    <3>1. VqOff(l, f) < VqMax - 1
      BY <1>2, <1>3
    <3>2. /\ VqBack(f) \in VqSlots /\ VqOff(VqBack(f), f) = VqMax - 1
          /\ VqOff(l, VqBack(f)) = VqOff(l, f) + 1
      BY <1>1, <3>1, VqOffFacts
    <3>3. QED
      BY <2>1, <3>2
  <2>3. ring[at] = 0 /\ at # f
    <3>1. ~(VqOff(at, f) < k) /\ VqMax - 1 # 0
      BY <1>2, <1>3, <1>4, <2>1, <2>2
    <3>2. QED
      BY <1>1, <1>3, <2>2, <3>1
  <2>4. r2 \in [VqSlots -> Nat] /\ r2[at] = v /\ \A x \in VqSlots : x # at => r2[x] = ring[x]
    BY <1>1, <2>2
  <2>5. ASSUME NEW x \in VqSlots, x # at PROVE VqOff(x, at) = VqOff(x, f) + 1
    <3>1. VqOff(x, f) # VqMax - 1 /\ VqOff(x, f) \in 0 .. VqMax - 1
      BY <1>1, <2>2, <2>5, VqOffFacts
    <3>2. VqOff(x, f) < VqMax - 1
      BY <1>2, <3>1
    <3>3. QED
      BY <1>1, <2>1, <3>2, VqOffFacts
  <2> HIDE DEF r2, at, k
  <2>6. VqCount(r2, at, l) = k + 1
    BY <2>2, <2>4 DEF VqCount
  <2>7. ASSUME NEW x \in VqSlots PROVE r2[x] # 0 <=> VqOff(x, at) < k + 1
    <3>2. CASE x = at
      <4>1. VqOff(at, at) = 0
        BY <2>2, VqOffFacts
      <4>2. QED
        BY <1>4, <2>4, <3>2, <4>1
    <3>3. CASE x # at
      <4>1. VqOff(x, at) = VqOff(x, f) + 1 /\ VqOff(x, f) \in Nat
        BY <1>1, <1>2, <2>5, <3>3, VqOffFacts
      <4>2. QED
        BY <1>1, <1>4, <2>4, <3>3, <4>1
    <3>4. QED
      BY <3>2, <3>3
  <2>8. VqWindow(r2, at, l)
    BY <1>1, <2>2, <2>4, <2>6, <2>7 DEF VqWindow
  <2>9. GOAL(at, l)
    BY <1>7, <2>2, <2>3, <2>6, <2>8
  <2>10. QED
    BY <1>7, <2>9 DEF r2, at, k
<1>8. QED
  BY <1>5, <1>6, <1>7

\* Taking a message from the ring: the rest keeps its order, one place nearer.
LEMMA VqGetFacts ==
  ASSUME NEW ring, NEW f, NEW l, VqWindow(ring, f, l), VqCount(ring, f, l) > 0
  PROVE  LET r2 == [ring EXCEPT ![f] = 0]
             f2 == IF f # l THEN VqForth(f) ELSE f
         IN  /\ f \in VqSlots /\ ring[f] # 0
             /\ VqWindow(r2, f2, l) /\ VqCount(r2, f2, l) = VqCount(ring, f, l) - 1
             /\ \A x \in VqSlots : r2[x] # 0 => x # f /\ VqOff(x, f2) = VqOff(x, f) - 1
<1> DEFINE r2 == [ring EXCEPT ![f] = 0]
           f2 == VqForth(f)
           k == VqCount(ring, f, l)
<1>1. /\ ring \in [VqSlots -> Nat] /\ f \in VqSlots /\ l \in VqSlots
      /\ \A x \in VqSlots : ring[x] # 0 <=> VqOff(x, f) < k
      /\ ring[f] # 0 /\ k = VqOff(l, f) + 1
  BY DEF VqWindow, VqCount
<1>2. VqMax \in Nat \ {0} /\ VqSlots = 0 .. VqMax - 1
  BY VqAssumption DEF VqSlots
<1>3. VqOff(l, f) \in 0 .. VqMax - 1 /\ VqOff(f, f) = 0 /\ k \in Nat /\ k <= VqMax
  <2>1. VqOff(l, f) \in 0 .. VqMax - 1 /\ VqOff(f, f) = 0
    BY <1>1, VqOffFacts
  <2> HIDE DEF k
  <2>2. QED
    BY <1>1, <1>2, <2>1
<1>4. r2 \in [VqSlots -> Nat] /\ r2[f] = 0 /\ \A x \in VqSlots : x # f => r2[x] = ring[x]
  BY <1>1
<1> HIDE DEF r2, k
<1>5. CASE f = l
  <2>1. k = 1
    BY <1>1, <1>3, <1>5
  <2>2. ASSUME NEW x \in VqSlots PROVE r2[x] = 0
    <3>1. VqOff(x, f) \in Nat /\ (VqOff(x, f) = 0 => x = f)
      BY <1>1, VqOffNat
    <3>2. QED
      BY <1>1, <1>4, <2>1, <3>1
  <2>3. VqCount(r2, f, l) = 0
    BY <1>4 DEF VqCount
  <2>4. \A x \in VqSlots : VqOff(x, f) \in Nat
    BY <1>1, VqOffNat
  <2>5. VqWindow(r2, f, l)
    BY <1>1, <1>4, <1>5, <2>2, <2>3, <2>4 DEF VqWindow
  <2>6. QED
    BY <1>1, <1>5, <2>1, <2>2, <2>3, <2>5 DEF r2, k
<1>6. CASE f # l
  <2>1. f2 \in VqSlots /\ \A x \in VqSlots : VqOff(x, f2) = IF x = f THEN VqMax - 1 ELSE VqOff(x, f) - 1
    BY <1>1, VqOffFacts
  <2>2. VqOff(l, f) > 0
    <3>1. VqOff(l, f) # 0
      BY <1>1, <1>3, <1>6, VqOffFacts
    <3>2. QED
      BY <1>2, <1>3, <3>1
  <2>3. VqOff(f2, f) = 1
    <3>1. VqOff(f, f) < VqMax - 1
      BY <1>2, <1>3, <2>2
    <3>2. QED
      BY <1>1, <1>3, <3>1, VqOffFacts
  <2>4. f2 # f /\ r2[f2] = ring[f2] /\ ring[f2] # 0
    BY <1>1, <1>3, <1>4, <2>1, <2>2, <2>3
  <2> HIDE DEF f2
  <2>5. VqCount(r2, f2, l) = k - 1
    <3>1. VqCount(r2, f2, l) = VqOff(l, f2) + 1
      BY <2>4 DEF VqCount
    <3>2. QED
      BY <1>1, <1>2, <1>3, <1>6, <2>1, <3>1
  <2>6. ASSUME NEW x \in VqSlots PROVE r2[x] # 0 <=> VqOff(x, f2) < k - 1
    <3>1. VqOff(x, f) \in Nat
      BY <1>1, VqOffNat
    <3>2. CASE x = f
      BY <1>2, <1>3, <1>4, <2>1, <3>2
    <3>3. CASE x # f
      BY <1>1, <1>3, <1>4, <2>1, <3>1, <3>3
    <3>4. QED
      BY <3>2, <3>3
  <2>7. VqWindow(r2, f2, l)
    BY <1>1, <1>4, <2>1, <2>4, <2>5, <2>6 DEF VqWindow
  <2>8. \A x \in VqSlots : r2[x] # 0 => x # f /\ VqOff(x, f2) = VqOff(x, f) - 1
    BY <1>4, <2>1
  <2>9. QED
    BY <1>1, <1>6, <2>5, <2>7, <2>8 DEF r2, k, f2
<1>7. QED
  BY <1>5, <1>6

\* The threads at one place.
VqIn(at, w) == {t \in VqThreads : at[t] = w}
VqPlacesOf == {"out", "give", "taken"}

LEMMA VqInFacts == \A at, w : IsFiniteSet(VqIn(at, w)) /\ Cardinality(VqIn(at, w)) \in Nat
<1> SUFFICES ASSUME NEW at, NEW w PROVE IsFiniteSet(VqIn(at, w)) /\ Cardinality(VqIn(at, w)) \in Nat
  OBVIOUS
<1>1. IsFiniteSet(VqThreads)
  BY VqAssumption, FS_Union DEF VqThreads
<1>2. VqIn(at, w) \subseteq VqThreads
  BY DEF VqIn
<1>3. QED
  BY <1>1, <1>2, FS_Subset, FS_CardinalityType

\* A thread comes to a place, leaves it, or has nothing to do with it.
LEMMA VqEnters ==
  ASSUME NEW t \in VqThreads, NEW w, vqAt[t] # w, vqAt'[t] = w,
         \A u \in VqThreads : u # t => vqAt'[u] = vqAt[u]
  PROVE  Cardinality(VqIn(vqAt', w)) = Cardinality(VqIn(vqAt, w)) + 1
<1>1. VqIn(vqAt', w) = VqIn(vqAt, w) \cup {t} /\ t \notin VqIn(vqAt, w)
  BY DEF VqIn
<1>2. IsFiniteSet(VqIn(vqAt, w))
  BY VqInFacts
<1>3. QED
  BY <1>1, <1>2, FS_AddElement

LEMMA VqLeaves ==
  ASSUME NEW t \in VqThreads, NEW w, vqAt[t] = w, vqAt'[t] # w,
         \A u \in VqThreads : u # t => vqAt'[u] = vqAt[u]
  PROVE  /\ Cardinality(VqIn(vqAt', w)) = Cardinality(VqIn(vqAt, w)) - 1
         /\ Cardinality(VqIn(vqAt, w)) > 0
<1>1. VqIn(vqAt', w) = VqIn(vqAt, w) \ {t} /\ t \in VqIn(vqAt, w)
  BY DEF VqIn
<1>2. IsFiniteSet(VqIn(vqAt, w)) /\ Cardinality(VqIn(vqAt, w)) \in Nat
  BY VqInFacts
<1>3. Cardinality(VqIn(vqAt', w)) = Cardinality(VqIn(vqAt, w)) - 1
  BY <1>1, <1>2, FS_RemoveElement
<1>4. Cardinality(VqIn(vqAt', w)) \in Nat
  BY VqInFacts
<1>5. QED
  BY <1>2, <1>3, <1>4

LEMMA VqStays ==
  ASSUME NEW t \in VqThreads, NEW w, vqAt[t] # w, vqAt'[t] # w,
         \A u \in VqThreads : u # t => vqAt'[u] = vqAt[u]
  PROVE  Cardinality(VqIn(vqAt', w)) = Cardinality(VqIn(vqAt, w))
<1>1. VqIn(vqAt', w) = VqIn(vqAt, w)
  BY DEF VqIn
<1>2. QED
  BY <1>1

\* Every message sent is in the ring or was received, and only once.
VqContent(ring, sent, got) ==
  /\ \A x, y \in VqSlots : ring[x] # 0 /\ ring[x] = ring[y] => x = y
  /\ \A x \in VqSlots : ring[x] # 0 => ring[x] \in 1 .. sent /\ \A i \in DOMAIN got : got[i] # ring[x]
  /\ \A i \in DOMAIN got : got[i] \in 1 .. sent
  /\ \A i, j \in DOMAIN got : got[i] = got[j] => i = j
  /\ \A m \in 1 .. sent : (\E i \in DOMAIN got : got[i] = m) \/ (\E x \in VqSlots : ring[x] = m)

\* First in first out: the ring continues what was received.
VqOrdered(ring, f, l, sent, got) ==
  /\ \A i \in DOMAIN got : got[i] = i
  /\ \A x \in VqSlots : ring[x] # 0 => ring[x] = Len(got) + 1 + VqOff(x, f)
  /\ sent = Len(got) + VqCount(ring, f, l)

VqTypes ==
  /\ vqPolicy \in {"fifo", "lifo"} /\ vqFirst \in VqSlots /\ vqLast \in VqSlots
  /\ vqSema \in Nat /\ vqSent \in Nat /\ vqGot \in Seq(Nat)
  /\ vqAt \in [VqThreads -> VqPlacesOf]

\* The semaphore and the threads between it and the ring account for every message: a thread that
\* the semaphore let in finds one.  This is what VqDelivered needs and does not say.
VqTokens ==
  VqCount(vqRing, vqFirst, vqLast)
    = vqSema + Cardinality(VqIn(vqAt, "give")) + Cardinality(VqIn(vqAt, "taken"))

VqWorking ==
  /\ VqWindow(vqRing, vqFirst, vqLast) /\ VqContent(vqRing, vqSent, vqGot) /\ VqTokens
  /\ vqPolicy = "fifo" => VqOrdered(vqRing, vqFirst, vqLast, vqSent, vqGot)
VqAbsent ==
  /\ vqRing = << >> /\ vqSema = 0 /\ vqSent = 0 /\ vqGot = << >>
  /\ \A t \in VqThreads : vqAt[t] = "out"
VqInv == VqTypes /\ (VqAbsent \/ VqWorking)

LEMMA VqThereFacts ==
  /\ VqAbsent => ~VqThere
  /\ VqWorking => VqThere
<1>1. VqAbsent => ~VqThere
  BY DEF VqAbsent, VqThere
<1>2. VqWorking => VqThere
  BY DEF VqWorking, VqWindow, VqThere
<1>3. QED
  BY <1>1, <1>2

\* When no thread is inside, none holds a token.
LEMMA VqIdleFacts ==
  ASSUME NEW at, \A t \in VqThreads : at[t] = "out"
  PROVE  Cardinality(VqIn(at, "give")) = 0 /\ Cardinality(VqIn(at, "taken")) = 0
<1>1. VqIn(at, "give") = {} /\ VqIn(at, "taken") = {}
  BY DEF VqIn
<1>2. QED
  BY <1>1, FS_EmptySet

LEMMA VqCreateInv == VqInv /\ VqCreate => VqInv'
<1> SUFFICES ASSUME VqInv, VqCreate PROVE VqInv'
  OBVIOUS
<1>1. VqAbsent /\ VqTypes
  BY VqThereFacts DEF VqInv, VqCreate
<1>2. /\ vqPolicy' \in {"fifo", "lifo"} /\ vqRing' = [i \in VqSlots |-> 0] /\ vqFirst' = 0 /\ vqLast' = 0
      /\ vqSema' = 0 /\ vqAt' = vqAt /\ vqSent' = vqSent /\ vqGot' = vqGot
  BY DEF VqCreate
<1>3. 0 \in VqSlots
  BY VqAssumption DEF VqSlots
<1>4. VqTypes'
  BY <1>1, <1>2, <1>3 DEF VqTypes
<1> DEFINE ring == [i \in VqSlots |-> 0]
<1>5. ring \in [VqSlots -> Nat] /\ \A x \in VqSlots : ring[x] = 0
  OBVIOUS
<1> HIDE DEF ring
<1>6. VqCount(ring, 0, 0) = 0
  BY <1>3, <1>5 DEF VqCount
<1>7. VqWindow(ring, 0, 0)
  <2>1. \A x \in VqSlots : VqOff(x, 0) \in Nat
    BY <1>3, VqOffNat
  <2>2. QED
    BY <1>3, <1>5, <1>6, <2>1 DEF VqWindow
<1>8. VqContent(ring, 0, << >>) /\ VqOrdered(ring, 0, 0, 0, << >>)
  BY <1>5, <1>6 DEF VqContent, VqOrdered
<1>9. Cardinality(VqIn(vqAt, "give")) = 0 /\ Cardinality(VqIn(vqAt, "taken")) = 0
  BY <1>1, VqIdleFacts DEF VqAbsent
<1>10. VqWorking'
  BY <1>1, <1>2, <1>6, <1>7, <1>8, <1>9 DEF VqWorking, VqTokens, VqAbsent, ring
<1>11. QED
  BY <1>4, <1>10 DEF VqInv

\* Content and order after a message was put into an empty slot.
LEMMA VqPutContent ==
  ASSUME NEW ring \in [VqSlots -> Nat], NEW sent \in Nat, NEW got \in Seq(Nat),
         VqContent(ring, sent, got), NEW at \in VqSlots, ring[at] = 0
  PROVE  VqContent([ring EXCEPT ![at] = sent + 1], sent + 1, got)
<1> DEFINE r2 == [ring EXCEPT ![at] = sent + 1]
<1>1. r2[at] = sent + 1 /\ \A x \in VqSlots : x # at => r2[x] = ring[x]
  OBVIOUS
<1> HIDE DEF r2
<1>2. \A m \in 1 .. sent : m \in 1 .. (sent + 1) /\ m # sent + 1
  OBVIOUS
<1>3. sent + 1 \in 1 .. (sent + 1)
  OBVIOUS
<1>4. ASSUME NEW x \in VqSlots, r2[x] # 0
      PROVE  /\ r2[x] \in 1 .. (sent + 1) /\ \A i \in DOMAIN got : got[i] # r2[x]
             /\ r2[x] = sent + 1 <=> x = at
  <2>1. CASE x = at
    BY <1>1, <1>2, <1>3, <2>1 DEF VqContent
  <2>2. CASE x # at
    BY <1>1, <1>2, <1>4, <2>2 DEF VqContent
  <2>3. QED
    BY <2>1, <2>2
<1>5. ASSUME NEW x \in VqSlots, NEW y \in VqSlots, r2[x] # 0, r2[x] = r2[y] PROVE x = y
  <2>1. CASE x = at \/ y = at
    BY <1>4, <1>5, <2>1
  <2>2. CASE x # at /\ y # at
    BY <1>1, <1>5, <2>2 DEF VqContent
  <2>3. QED
    BY <2>1, <2>2
<1>6. ASSUME NEW m \in 1 .. (sent + 1)
      PROVE  (\E i \in DOMAIN got : got[i] = m) \/ (\E x \in VqSlots : r2[x] = m)
  <2>1. CASE m = sent + 1
    BY <1>1, <2>1
  <2>2. CASE m # sent + 1
    <3>1. m \in 1 .. sent /\ m # 0
      BY <2>2
    <3>2. CASE \E i \in DOMAIN got : got[i] = m
      BY <3>2
    <3>3. CASE \E x \in VqSlots : ring[x] = m
      <4>1. PICK x \in VqSlots : ring[x] = m
        BY <3>3
      <4>2. r2[x] = m
        BY <1>1, <3>1, <4>1
      <4>3. QED
        BY <4>2
    <3>4. QED
      BY <3>1, <3>2, <3>3 DEF VqContent
  <2>3. QED
    BY <2>1, <2>2
<1>7. (\A i \in DOMAIN got : got[i] \in 1 .. (sent + 1))
      /\ (\A i, j \in DOMAIN got : got[i] = got[j] => i = j)
  BY <1>2 DEF VqContent
<1>8. VqContent(r2, sent + 1, got)
  BY <1>4, <1>5, <1>6, <1>7 DEF VqContent
<1>9. QED
  BY <1>8 DEF r2

LEMMA VqGetContent ==
  ASSUME NEW ring \in [VqSlots -> Nat], NEW sent \in Nat, NEW got \in Seq(Nat),
         VqContent(ring, sent, got), NEW f \in VqSlots, ring[f] # 0
  PROVE  VqContent([ring EXCEPT ![f] = 0], sent, Append(got, ring[f]))
<1> DEFINE r2 == [ring EXCEPT ![f] = 0]
           g2 == Append(got, ring[f])
           n == Len(got)
<1>1. r2[f] = 0 /\ \A x \in VqSlots : x # f => r2[x] = ring[x]
  OBVIOUS
<1>2. /\ n \in Nat /\ DOMAIN got = 1 .. n /\ DOMAIN g2 = 1 .. (n + 1) /\ g2[n + 1] = ring[f]
      /\ \A i \in 1 .. n : g2[i] = got[i]
  <2>1. ring[f] \in Nat
    OBVIOUS
  <2>2. QED
    BY <2>1
<1> HIDE DEF r2, g2, n
<1>3. \A i \in DOMAIN g2 : i = n + 1 \/ i \in DOMAIN got
  BY <1>2
<1>4. \A i \in DOMAIN got : i \in DOMAIN g2 /\ i # n + 1 /\ g2[i] = got[i]
  BY <1>2
<1>5. n + 1 \in DOMAIN g2
  BY <1>2
<1>6. ASSUME NEW x \in VqSlots, r2[x] # 0
      PROVE  x # f /\ r2[x] = ring[x] /\ r2[x] \in 1 .. sent /\ \A i \in DOMAIN g2 : g2[i] # r2[x]
  <2>1. x # f /\ r2[x] = ring[x] /\ ring[x] # 0
    BY <1>1, <1>6
  <2>2. ring[x] \in 1 .. sent /\ ring[x] # ring[f] /\ \A i \in DOMAIN got : got[i] # ring[x]
    BY <2>1 DEF VqContent
  <2>3. QED
    BY <1>2, <1>3, <1>4, <2>1, <2>2
<1>7. \A x, y \in VqSlots : r2[x] # 0 /\ r2[x] = r2[y] => x = y
  BY <1>6 DEF VqContent
<1>8. \A i \in DOMAIN g2 : g2[i] \in 1 .. sent
  BY <1>2, <1>3, <1>4 DEF VqContent
<1>9. \A i \in DOMAIN got : got[i] # ring[f]
  BY DEF VqContent
<1>10. \A i, j \in DOMAIN g2 : g2[i] = g2[j] => i = j
  <2> SUFFICES ASSUME NEW i \in DOMAIN g2, NEW j \in DOMAIN g2, g2[i] = g2[j] PROVE i = j
    OBVIOUS
  <2>1. CASE i = n + 1
    BY <1>2, <1>3, <1>4, <1>9, <2>1
  <2>2. CASE j = n + 1
    BY <1>2, <1>3, <1>4, <1>9, <2>2
  <2>3. CASE i # n + 1 /\ j # n + 1
    BY <1>3, <1>4, <2>3 DEF VqContent
  <2>4. QED
    BY <2>1, <2>2, <2>3
<1>11. ASSUME NEW m \in 1 .. sent
       PROVE  (\E i \in DOMAIN g2 : g2[i] = m) \/ (\E x \in VqSlots : r2[x] = m)
  <2>1. CASE \E i \in DOMAIN got : got[i] = m
    BY <1>4, <2>1
  <2>2. CASE \E x \in VqSlots : ring[x] = m
    <3>1. PICK x \in VqSlots : ring[x] = m
      BY <2>2
    <3>2. CASE x = f
      BY <1>2, <1>5, <3>1, <3>2
    <3>3. CASE x # f
      BY <1>1, <3>1, <3>3
    <3>4. QED
      BY <3>2, <3>3
  <2>3. QED
    BY <2>1, <2>2 DEF VqContent
<1>12. VqContent(r2, sent, g2)
  BY <1>6, <1>7, <1>8, <1>10, <1>11 DEF VqContent
<1>13. QED
  BY <1>12 DEF r2, g2

LEMMA VqPutInv ==
  ASSUME VqInv, NEW t \in VqSenders, VqSendPut(t)
  PROVE  VqInv'
<1>1. VqWorking /\ VqTypes
  BY VqThereFacts DEF VqInv, VqSendPut
<1> DEFINE f == vqFirst
           l == vqLast
           ring == vqRing
           v == vqSent + 1
           at == VqPlace(ring, f, l, vqPolicy)
           r2 == [ring EXCEPT ![at] = v]
           l2 == IF ring[f] # 0 /\ vqPolicy = "fifo" THEN at ELSE l
           f2 == IF ring[f] # 0 /\ vqPolicy = "lifo" THEN at ELSE f
           k == VqCount(ring, f, l)
<1>2. /\ vqAt[t] = "out" /\ vqSent' = v /\ vqAt' = [vqAt EXCEPT ![t] = "give"]
      /\ vqPolicy' = vqPolicy /\ vqSema' = vqSema /\ vqGot' = vqGot
  BY DEF VqSendPut
<1>3. vqRing' = r2 /\ vqLast' = l2 /\ vqFirst' = f2
  BY DEF VqSendPut, VqPlace
<1>4. ~(l + 1 = f \/ (l = VqMax - 1 /\ f = 0))
  BY DEF VqSendPut, VqFull
<1>5. /\ vqPolicy \in {"fifo", "lifo"} /\ v \in Nat \ {0} /\ vqSent \in Nat /\ vqGot \in Seq(Nat)
      /\ vqAt \in [VqThreads -> VqPlacesOf] /\ vqSema \in Nat /\ t \in VqThreads
  BY <1>1 DEF VqTypes, VqThreads
<1>6. /\ VqWindow(ring, f, l) /\ VqContent(ring, vqSent, vqGot) /\ VqTokens
      /\ vqPolicy = "fifo" => VqOrdered(ring, f, l, vqSent, vqGot)
  BY <1>1 DEF VqWorking
<1> HIDE DEF f, l, ring, v
<1>7. /\ at \in VqSlots /\ ring[at] = 0
      /\ VqWindow(r2, f2, l2) /\ VqCount(r2, f2, l2) = k + 1
      /\ vqPolicy = "fifo" => f2 = f /\ VqOff(at, f) = k
  BY <1>4, <1>5, <1>6, VqPutFacts
<1>8. ring \in [VqSlots -> Nat]
  BY <1>6 DEF VqWindow
<1>9. VqContent(r2, v, vqGot)
  BY <1>5, <1>6, <1>7, <1>8, VqPutContent DEF v
<1>10. r2[at] = v /\ \A x \in VqSlots : x # at => r2[x] = ring[x]
  BY <1>7, <1>8
<1> HIDE DEF at, r2, l2, f2, k
<1>11. ASSUME vqPolicy = "fifo" PROVE VqOrdered(r2, f2, l2, v, vqGot)
  <2>1. /\ \A i \in DOMAIN vqGot : vqGot[i] = i
        /\ \A x \in VqSlots : ring[x] # 0 => ring[x] = Len(vqGot) + 1 + VqOff(x, f)
        /\ vqSent = Len(vqGot) + k
    BY <1>6, <1>11 DEF VqOrdered, k
  <2>2. Len(vqGot) \in Nat
    BY <1>5
  <2>3. k \in Nat
    BY <1>5, <2>1, <2>2, <1>6, <1>7, <1>11, VqOffNat DEF VqWindow
  <2>4. v = Len(vqGot) + (k + 1) /\ v = Len(vqGot) + 1 + k
    BY <2>1, <2>2, <2>3 DEF v
  <2>5. ASSUME NEW x \in VqSlots, r2[x] # 0 PROVE r2[x] = Len(vqGot) + 1 + VqOff(x, f2)
    <3>1. CASE x = at
      BY <1>7, <1>10, <1>11, <2>4, <3>1
    <3>2. CASE x # at
      BY <1>7, <1>10, <1>11, <2>1, <2>5, <3>2
    <3>3. QED
      BY <3>1, <3>2
  <2>6. QED
    BY <1>7, <2>1, <2>4, <2>5 DEF VqOrdered
<1>12. VqTypes'
  <2>1. f2 \in VqSlots /\ l2 \in VqSlots
    BY <1>7 DEF VqWindow
  <2>2. vqAt' \in [VqThreads -> VqPlacesOf]
    BY <1>2, <1>5 DEF VqPlacesOf
  <2>3. QED
    BY <1>2, <1>3, <1>5, <2>1, <2>2 DEF VqTypes
<1>13. VqTokens'
  <2> DEFINE G == Cardinality(VqIn(vqAt, "give"))
             T == Cardinality(VqIn(vqAt, "taken"))
             G2 == Cardinality(VqIn(vqAt', "give"))
             T2 == Cardinality(VqIn(vqAt', "taken"))
             K2 == VqCount(vqRing', vqFirst', vqLast')
  <2>1. k = vqSema + G + T
    BY <1>6 DEF VqTokens, k, ring, f, l
  <2>2. G \in Nat /\ T \in Nat /\ G2 = G + 1 /\ T2 = T
    <3>1. t \in VqThreads /\ vqAt[t] = "out" /\ vqAt'[t] = "give"
          /\ \A u \in VqThreads : u # t => vqAt'[u] = vqAt[u]
      BY <1>2, <1>5
    <3>2. G \in Nat /\ T \in Nat
      BY VqInFacts
    <3>3. G2 = G + 1
      BY <3>1, VqEnters
    <3>4. T2 = T
      BY <3>1, VqStays
    <3>5. QED
      BY <3>2, <3>3, <3>4
  <2>3. K2 = k + 1
    BY <1>3, <1>7
  <2> HIDE DEF G, T, G2, T2, K2
  <2>4. K2 = vqSema + G2 + T2
    BY <1>5, <2>1, <2>2, <2>3
  <2>5. QED
    BY <1>2, <2>4 DEF VqTokens, G2, T2, K2
<1>14. VqWorking'
  BY <1>2, <1>3, <1>7, <1>9, <1>11, <1>13 DEF VqWorking
<1>15. QED
  BY <1>12, <1>14 DEF VqInv

\* Semaphore given or taken: one token moves.
LEMMA VqTokenInv ==
  ASSUME VqInv, NEW t \in VqThreads, VqGive(t) \/ VqTake(t)
  PROVE  VqInv'
<1>1. VqWorking /\ VqTypes
  BY VqThereFacts DEF VqInv, VqGive, VqTake, VqAbsent
<1>2. UNCHANGED <<vqPolicy, vqFirst, vqLast, vqRing, vqSent, vqGot>>
  BY DEF VqGive, VqTake
<1>3. vqAt \in [VqThreads -> VqPlacesOf] /\ vqSema \in Nat
  BY <1>1 DEF VqTypes
<1> DEFINE k == VqCount(vqRing, vqFirst, vqLast)
           G == Cardinality(VqIn(vqAt, "give"))
           T == Cardinality(VqIn(vqAt, "taken"))
           G2 == Cardinality(VqIn(vqAt', "give"))
           T2 == Cardinality(VqIn(vqAt', "taken"))
<1>4. k = vqSema + G + T
  BY <1>1 DEF VqWorking, VqTokens
<1>5. /\ vqAt' \in [VqThreads -> VqPlacesOf] /\ vqSema' \in Nat
      /\ k = vqSema' + G2 + T2
  <2>1. CASE VqGive(t)
    <3>1. vqAt[t] = "give" /\ vqAt' = [vqAt EXCEPT ![t] = "out"] /\ vqSema' = vqSema + 1
      BY <2>1 DEF VqGive
    <3>3. G \in Nat /\ T \in Nat /\ G2 = G - 1 /\ T2 = T
      <4>1. t \in VqThreads /\ vqAt[t] = "give" /\ vqAt'[t] = "out"
            /\ \A u \in VqThreads : u # t => vqAt'[u] = vqAt[u]
        BY <1>3, <3>1
      <4>2. G \in Nat /\ T \in Nat
        BY VqInFacts
      <4>3. G2 = G - 1 /\ G > 0
        BY <4>1, VqLeaves
      <4>4. T2 = T
        BY <4>1, VqStays
      <4>5. QED
        BY <4>2, <4>3, <4>4
    <3>4. vqAt' \in [VqThreads -> VqPlacesOf]
      BY <1>3, <3>1 DEF VqPlacesOf
    <3> HIDE DEF k, G, T, G2, T2
    <3>5. k = (vqSema + 1) + G2 + T2
      BY <1>3, <1>4, <3>3
    <3>6. QED
      BY <1>3, <3>1, <3>4, <3>5
  <2>2. CASE VqTake(t)
    <3>1. /\ vqAt[t] = "out" /\ vqAt' = [vqAt EXCEPT ![t] = "taken"]
          /\ vqSema > 0 /\ vqSema' = vqSema - 1
      BY <2>2 DEF VqTake
    <3>3. G \in Nat /\ T \in Nat /\ G2 = G /\ T2 = T + 1
      <4>1. t \in VqThreads /\ vqAt[t] = "out" /\ vqAt'[t] = "taken"
            /\ \A u \in VqThreads : u # t => vqAt'[u] = vqAt[u]
        BY <1>3, <3>1
      <4>2. G \in Nat /\ T \in Nat
        BY VqInFacts
      <4>3. G2 = G
        BY <4>1, VqStays
      <4>4. T2 = T + 1
        BY <4>1, VqEnters
      <4>5. QED
        BY <4>2, <4>3, <4>4
    <3>4. vqAt' \in [VqThreads -> VqPlacesOf]
      BY <1>3, <3>1 DEF VqPlacesOf
    <3> HIDE DEF k, G, T, G2, T2
    <3>5. k = (vqSema - 1) + G2 + T2 /\ vqSema - 1 \in Nat
      BY <1>3, <1>4, <3>1, <3>3
    <3>6. QED
      BY <3>1, <3>4, <3>5
  <2>3. QED
    BY <2>1, <2>2
<1>6. VqTypes'
  BY <1>1, <1>2, <1>5 DEF VqTypes
<1>7. VqTokens'
  BY <1>2, <1>5 DEF VqTokens
<1>8. VqWorking'
  BY <1>1, <1>2, <1>7 DEF VqWorking
<1>9. QED
  BY <1>6, <1>8 DEF VqInv

\* A thread that took a token finds a message.
LEMMA VqReceiveInv ==
  ASSUME VqInv, NEW t \in VqThreads, VqReceive(t)
  PROVE  VqInv'
<1>1. VqWorking /\ VqTypes
  BY DEF VqInv, VqReceive, VqAbsent
<1> DEFINE f == vqFirst
           l == vqLast
           ring == vqRing
           r2 == [ring EXCEPT ![f] = 0]
           f2 == IF f # l THEN VqForth(f) ELSE f
           g2 == Append(vqGot, ring[f])
           k == VqCount(ring, f, l)
           G == Cardinality(VqIn(vqAt, "give"))
           T == Cardinality(VqIn(vqAt, "taken"))
           G2 == Cardinality(VqIn(vqAt', "give"))
           T2 == Cardinality(VqIn(vqAt', "taken"))
<1>2. /\ vqAt[t] = "taken" /\ vqAt' = [vqAt EXCEPT ![t] = "out"]
      /\ vqPolicy' = vqPolicy /\ vqLast' = l /\ vqSema' = vqSema /\ vqSent' = vqSent
      /\ vqGot' = g2 /\ vqRing' = r2 /\ vqFirst' = f2
  BY DEF VqReceive
<1>3. /\ vqSent \in Nat /\ vqGot \in Seq(Nat) /\ vqAt \in [VqThreads -> VqPlacesOf] /\ vqSema \in Nat
  BY <1>1 DEF VqTypes
<1>4. /\ VqWindow(ring, f, l) /\ VqContent(ring, vqSent, vqGot) /\ k = vqSema + G + T
      /\ vqPolicy = "fifo" => VqOrdered(ring, f, l, vqSent, vqGot)
  BY <1>1 DEF VqWorking, VqTokens
<1>5. G \in Nat /\ T \in Nat /\ T > 0 /\ G2 = G /\ T2 = T - 1
  <2>1. t \in VqThreads /\ vqAt[t] = "taken" /\ vqAt'[t] = "out"
        /\ \A u \in VqThreads : u # t => vqAt'[u] = vqAt[u]
    BY <1>2, <1>3
  <2>2. G \in Nat /\ T \in Nat
    BY VqInFacts
  <2>3. G2 = G
    BY <2>1, VqStays
  <2>4. T2 = T - 1 /\ T > 0
    BY <2>1, VqLeaves
  <2>5. QED
    BY <2>2, <2>3, <2>4
<1>6. k \in Nat /\ k > 0
  <2> HIDE DEF k, G, T
  <2>1. QED
    BY <1>3, <1>4, <1>5
<1> HIDE DEF f, l, ring
<1>7. /\ f \in VqSlots /\ ring[f] # 0
      /\ VqWindow(r2, f2, l) /\ VqCount(r2, f2, l) = k - 1
      /\ \A x \in VqSlots : r2[x] # 0 => x # f /\ VqOff(x, f2) = VqOff(x, f) - 1
  <2>1. VqWindow(ring, f, l) /\ VqCount(ring, f, l) > 0
    BY <1>4, <1>6
  <2>2. QED
    BY <2>1, VqGetFacts
<1>8. ring \in [VqSlots -> Nat]
  BY <1>4 DEF VqWindow
<1>9. VqContent(r2, vqSent, g2)
  BY <1>3, <1>4, <1>7, <1>8, VqGetContent
<1>10. \A x \in VqSlots : x # f => r2[x] = ring[x]
  BY <1>7, <1>8
<1>11. /\ g2 \in Seq(Nat) /\ Len(vqGot) \in Nat /\ Len(g2) = Len(vqGot) + 1
       /\ DOMAIN vqGot = 1 .. Len(vqGot) /\ DOMAIN g2 = 1 .. (Len(vqGot) + 1)
       /\ g2[Len(vqGot) + 1] = ring[f] /\ \A i \in 1 .. Len(vqGot) : g2[i] = vqGot[i]
  <2>1. ring[f] \in Nat
    BY <1>7, <1>8
  <2>2. QED
    BY <1>3, <2>1
<1> HIDE DEF r2, f2, g2, k, G, T, G2, T2
<1>12. ASSUME vqPolicy = "fifo" PROVE VqOrdered(r2, f2, l, vqSent, g2)
  <2>1. /\ \A i \in DOMAIN vqGot : vqGot[i] = i
        /\ \A x \in VqSlots : ring[x] # 0 => ring[x] = Len(vqGot) + 1 + VqOff(x, f)
        /\ vqSent = Len(vqGot) + k
    BY <1>4, <1>12 DEF VqOrdered, k
  <2>2. ring[f] = Len(vqGot) + 1
    <3>1. VqOff(f, f) = 0
      BY <1>7, VqOffFacts
    <3>2. QED
      BY <1>7, <1>11, <2>1, <3>1
  <2>3. ASSUME NEW i \in DOMAIN g2 PROVE g2[i] = i
    <3>1. i = Len(vqGot) + 1 \/ i \in 1 .. Len(vqGot)
      BY <1>11
    <3>2. QED
      BY <1>11, <2>1, <2>2, <3>1
  <2>4. ASSUME NEW x \in VqSlots, r2[x] # 0 PROVE r2[x] = Len(g2) + 1 + VqOff(x, f2)
    <3>1. x # f /\ VqOff(x, f2) = VqOff(x, f) - 1 /\ r2[x] = ring[x] /\ ring[x] # 0
      BY <1>7, <1>10, <2>4
    <3>2. VqOff(x, f) \in Nat /\ ring[x] = Len(vqGot) + 1 + VqOff(x, f)
      BY <1>7, <2>1, <3>1, VqOffNat
    <3>3. QED
      BY <1>11, <3>1, <3>2
  <2>5. vqSent = Len(g2) + VqCount(r2, f2, l)
    BY <1>6, <1>7, <1>11, <2>1
  <2>6. QED
    BY <2>3, <2>4, <2>5 DEF VqOrdered
<1>13. VqTypes'
  <2>1. f2 \in VqSlots /\ l \in VqSlots
    BY <1>7 DEF VqWindow
  <2>2. vqAt' \in [VqThreads -> VqPlacesOf]
    BY <1>2, <1>3 DEF VqPlacesOf
  <2>3. QED
    BY <1>1, <1>2, <1>3, <1>11, <2>1, <2>2 DEF VqTypes
<1>14. VqTokens'
  <2>1. k - 1 = vqSema + G2 + T2
    BY <1>3, <1>4, <1>5
  <2>2. QED
    BY <1>2, <1>7, <2>1 DEF VqTokens, G2, T2
<1>15. VqWorking'
  BY <1>2, <1>7, <1>9, <1>12, <1>14 DEF VqWorking
<1>16. QED
  BY <1>13, <1>15 DEF VqInv

LEMMA VqNextInv == VqInv /\ [VqNext]_vqVars => VqInv'
<1> SUFFICES ASSUME VqInv, [VqNext]_vqVars PROVE VqInv'
  OBVIOUS
<1>1. CASE VqCreate
  BY <1>1, VqCreateInv
<1>2. CASE VqDestroy
  <2>1. VqTypes'
    BY <1>2 DEF VqInv, VqTypes, VqDestroy
  <2>2. VqAbsent'
    BY <1>2 DEF VqAbsent, VqDestroy
  <2>3. QED
    BY <2>1, <2>2 DEF VqInv
<1>3. CASE \E t \in VqSenders : VqSendPut(t) \/ VqGive(t)
  BY <1>3, VqPutInv, VqTokenInv DEF VqThreads
<1>4. CASE \E t \in VqReceivers : VqTake(t) \/ VqReceive(t)
  BY <1>4, VqReceiveInv, VqTokenInv DEF VqThreads
<1>5. CASE UNCHANGED vqVars
  BY <1>5 DEF vqVars, VqInv, VqTypes, VqAbsent, VqWorking, VqTokens
<1>6. QED
  BY <1>1, <1>2, <1>3, <1>4, <1>5 DEF VqNext, VqSendFull

\* No message of a queue is lost, received twice or received as NULL, and first in first out keeps
\* the order (vos_queueSend, vos_queueReceive), for every size of the ring and any number of threads,
\* although the semaphore is given after the mutex is released and taken before it is asked for.
THEOREM VqAlwaysDelivered == VqSpec => []VqDelivered
<1>1. VqInit => VqInv
  <2> SUFFICES ASSUME VqInit PROVE VqInv
    OBVIOUS
  <2>1. VqTypes
    BY VqAssumption DEF VqInit, VqTypes, VqSlots, VqPlacesOf
  <2>2. VqAbsent
    BY DEF VqInit, VqAbsent
  <2>3. QED
    BY <2>1, <2>2 DEF VqInv
<1>2. VqInv /\ [VqNext]_vqVars => VqInv'
  BY VqNextInv
<1>3. VqInv => VqDelivered
  <2> SUFFICES ASSUME VqInv PROVE VqDelivered
    OBVIOUS
  <2>1. CASE VqAbsent
    <3>1. ~VqThere /\ vqGot = << >>
      BY <2>1, VqThereFacts DEF VqAbsent
    <3>2. QED
      BY <3>1 DEF VqDelivered, IsInjective, Range
  <2>2. CASE VqWorking
    <3>1. VqContent(vqRing, vqSent, vqGot) /\ vqRing \in [VqSlots -> Nat] /\ vqSent \in Nat
      BY <2>2 DEF VqInv, VqTypes, VqWorking, VqWindow
    <3>2. IsInjective(vqGot) /\ 0 \notin Range(vqGot)
      BY <3>1 DEF VqContent, IsInjective, Range
    <3>3. vqPolicy = "fifo" => \A i \in DOMAIN vqGot : vqGot[i] = i
      BY <2>2 DEF VqWorking, VqOrdered
    <3>4. Range(vqGot) \cup ({vqRing[i] : i \in VqSlots} \ {0}) = 1 .. vqSent
      <4> DEFINE U == Range(vqGot) \cup ({vqRing[i] : i \in VqSlots} \ {0})
                 S == 1 .. vqSent
      <4>1. U \subseteq S
        BY <3>1 DEF VqContent, Range
      <4>2. S \subseteq U
        <5> SUFFICES ASSUME NEW m \in S PROVE m \in U
          OBVIOUS
        <5>1. m # 0
          BY <3>1
        <5>2. (\E i \in DOMAIN vqGot : vqGot[i] = m) \/ (\E x \in VqSlots : vqRing[x] = m)
          BY <3>1 DEF VqContent
        <5>3. QED
          BY <5>1, <5>2 DEF Range
      <4>3. QED
        BY <4>1, <4>2
    <3>5. QED
      BY <3>2, <3>3, <3>4 DEF VqDelivered
  <2>3. QED
    BY <2>1, <2>2 DEF VqInv
<1>4. QED
  BY <1>1, <1>2, <1>3, PTL DEF VqSpec

----------------------------------------------------------------------------
(* The memory pool (Vos).                                                  *)

LEMMA TailOfList ==
  ASSUME NEW S, NEW s \in Seq(S), s # << >>, IsInjective(s)
  PROVE  /\ Head(s) \in Range(s) /\ Tail(s) \in Seq(S) /\ IsInjective(Tail(s))
         /\ Range(Tail(s)) = Range(s) \ {Head(s)}
<1>1. Len(s) \in Nat \ {0} /\ DOMAIN s = 1 .. Len(s) /\ Head(s) = s[1]
  OBVIOUS
<1>2. /\ Tail(s) \in Seq(S) /\ DOMAIN Tail(s) = 1 .. (Len(s) - 1)
      /\ \A i \in 1 .. (Len(s) - 1) : Tail(s)[i] = s[i + 1]
  BY <1>1
<1>3. \A i \in 1 .. (Len(s) - 1) : i + 1 \in 1 .. Len(s) /\ i + 1 # 1
  BY <1>1
<1>4. IsInjective(Tail(s))
  BY <1>1, <1>2, <1>3 DEF IsInjective
<1>5. Range(Tail(s)) \subseteq Range(s) \ {Head(s)}
  BY <1>1, <1>2, <1>3 DEF IsInjective, Range
<1>6. ASSUME NEW x \in Range(s) \ {Head(s)} PROVE x \in Range(Tail(s))
  <2>1. PICK i \in 1 .. Len(s) : s[i] = x
    BY <1>1, <1>6 DEF Range
  <2>2. i - 1 \in 1 .. (Len(s) - 1) /\ Tail(s)[i - 1] = x
    BY <1>1, <1>2, <1>6, <2>1
  <2>3. QED
    BY <1>2, <2>2 DEF Range
<1>7. Head(s) \in Range(s)
  BY <1>1 DEF Range
<1>8. QED
  BY <1>2, <1>4, <1>5, <1>6, <1>7

LEMMA PushOnList ==
  ASSUME NEW S, NEW s \in Seq(S), IsInjective(s), NEW b \in S, b \notin Range(s)
  PROVE  /\ <<b>> \o s \in Seq(S) /\ IsInjective(<<b>> \o s)
         /\ Range(<<b>> \o s) = Range(s) \cup {b}
<1> DEFINE l == <<b>> \o s
<1>1. Len(s) \in Nat /\ DOMAIN s = 1 .. Len(s)
  OBVIOUS
<1>2. /\ l \in Seq(S) /\ DOMAIN l = 1 .. (Len(s) + 1)
      /\ \A i \in 1 .. (Len(s) + 1) : l[i] = IF i = 1 THEN b ELSE s[i - 1]
  BY <1>1
<1>3. \A i \in 1 .. (Len(s) + 1) : i = 1 \/ i - 1 \in 1 .. Len(s)
  BY <1>1
<1>4. \A i \in 1 .. Len(s) : s[i] \in Range(s)
  BY <1>1 DEF Range
<1> HIDE DEF l
<1>5. IsInjective(l)
  <2>1. SUFFICES ASSUME NEW i \in 1 .. (Len(s) + 1), NEW j \in 1 .. (Len(s) + 1), l[i] = l[j]
                 PROVE  i = j
    BY <1>2 DEF IsInjective
  <2>2. CASE i = 1 /\ j = 1
    BY <2>2
  <2>3. CASE i = 1 /\ j # 1
    BY <1>2, <1>3, <1>4, <2>1, <2>3
  <2>4. CASE i # 1 /\ j = 1
    BY <1>2, <1>3, <1>4, <2>1, <2>4
  <2>5. CASE i # 1 /\ j # 1
    <3>1. i - 1 \in DOMAIN s /\ j - 1 \in DOMAIN s /\ s[i - 1] = s[j - 1]
      BY <1>1, <1>2, <1>3, <2>1, <2>5
    <3>2. i - 1 = j - 1
      BY <3>1 DEF IsInjective
    <3>3. QED
      BY <1>1, <3>2
  <2>6. QED
    BY <2>2, <2>3, <2>4, <2>5
<1>6. Range(l) \subseteq Range(s) \cup {b}
  BY <1>2, <1>3, <1>4 DEF Range
<1>7. b \in Range(l)
  <2>1. 1 \in DOMAIN l /\ l[1] = b
    BY <1>1, <1>2
  <2>2. QED
    BY <2>1 DEF Range
<1>8. ASSUME NEW x \in Range(s) PROVE x \in Range(l)
  <2>1. PICK i \in 1 .. Len(s) : s[i] = x
    BY <1>1, <1>8 DEF Range
  <2>2. i + 1 \in 1 .. (Len(s) + 1) /\ l[i + 1] = x
    BY <1>1, <1>2, <2>1
  <2>3. QED
    BY <1>2, <2>2 DEF Range
<1>9. QED
  BY <1>2, <1>5, <1>6, <1>7, <1>8 DEF l

VmBlocks == 1 .. Len(vmCut)
VmUses(t, b) == b \in vmHeld[t] \/ vmNew[t] = b

VmTypeOK ==
  /\ vmCut \in Seq(VmClasses)
  /\ vmTag \in Seq({0} \cup VmClasses) /\ Len(vmTag) = Len(vmCut)
  /\ vmFree \in [VmClasses -> Seq(Nat)]
  /\ vmHeld \in [VmThreads -> SUBSET VmBlocks]
  /\ vmNew \in [VmThreads -> {0} \cup VmBlocks]
  /\ vmGone \in [VmThreads -> {0} \cup VmBlocks]

\* A block in a list is there once, in the list of its class, marked as free.
VmLists ==
  \A c \in VmClasses :
     /\ IsInjective(vmFree[c])
     /\ \A b \in Range(vmFree[c]) : b \in VmBlocks /\ vmCut[b] = c /\ vmTag[b] = 0

\* A block a thread holds carries its size, one it is about to be given does not yet.
VmTags ==
  \A t \in VmThreads :
     /\ \A b \in vmHeld[t] : vmTag[b] = vmCut[b]
     /\ vmNew[t] # 0 => vmTag[vmNew[t]] = 0

\* A block is in its list or with one thread.
VmSettled ==
  \A b \in VmBlocks :
     /\ \A t, u \in VmThreads : VmUses(t, b) /\ VmUses(u, b) => t = u
     /\ \A t \in VmThreads : VmUses(t, b) => b \notin Range(vmFree[vmCut[b]])
     /\ b \in Range(vmFree[vmCut[b]]) \/ \E t \in VmThreads : VmUses(t, b)

VmInv == VmTypeOK /\ VmLists /\ VmTags /\ VmSettled

LEMMA VmClassFacts == VmClasses = 1 .. Len(VmSize) /\ Len(VmSize) \in Nat /\ 0 \notin VmClasses
  BY VmAssumption DEF VmClasses

LEMMA VmInitInv == ASSUME VmTableFits, VmInit PROVE VmInv
<1>1. PICK upTo \in [0 .. Len(VmSize) -> 0 .. VmArea] :
         /\ upTo[0] = 0
         /\ vmCut \in [1 .. upTo[Len(VmSize)] -> VmClasses]
         /\ VmPool(upTo, vmCut)
         /\ vmTag = [b \in DOMAIN vmCut |-> 0]
         /\ vmFree = [c \in VmClasses |-> VmFreeAtStart(upTo, c)]
  BY DEF VmInit, VmMemInit
<1>2. /\ vmHeld = [t \in VmThreads |-> {}] /\ vmNew = [t \in VmThreads |-> 0]
      /\ vmGone = [t \in VmThreads |-> 0]
  BY DEF VmInit
<1>3. upTo[Len(VmSize)] \in Nat
  <2>1. upTo[Len(VmSize)] \in 0 .. VmArea
    BY <1>1, VmClassFacts
  <2>2. QED
    BY <2>1, VmAssumption
<1>4. vmCut \in Seq(VmClasses) /\ Len(vmCut) = upTo[Len(VmSize)] /\ DOMAIN vmCut = VmBlocks
  <2>1. \A S : \A n \in Nat : \A f \in [1 .. n -> S] : f \in Seq(S) /\ Len(f) = n
    OBVIOUS
  <2>2. PICK n \in Nat : n = upTo[Len(VmSize)]
    BY <1>3
  <2>3. vmCut \in [1 .. n -> VmClasses]
    BY ONLY <1>1, <2>2
  <2>4. vmCut \in Seq(VmClasses) /\ Len(vmCut) = n
    BY ONLY <2>1, <2>2, <2>3
  <2>5. DOMAIN vmCut = VmBlocks
    BY <2>3, <2>4 DEF VmBlocks
  <2>6. QED
    BY ONLY <2>2, <2>4, <2>5
<1>5. vmTag \in Seq({0} \cup VmClasses) /\ Len(vmTag) = Len(vmCut)
  BY <1>1, <1>4 DEF VmBlocks
<1>6. ASSUME NEW c \in VmClasses
      PROVE  /\ vmFree[c] \in Seq(Nat) /\ IsInjective(vmFree[c])
             /\ Range(vmFree[c]) = {b \in VmBlocks : vmCut[b] = c}
  <2> DEFINE p == upTo[c - 1]  q == upTo[c]
  <2>1. c \in 0 .. Len(VmSize) /\ c - 1 \in 0 .. Len(VmSize)
    BY VmClassFacts
  <2>2. p \in Nat /\ q \in Nat
    <3>1. upTo[c - 1] \in 0 .. VmArea /\ upTo[c] \in 0 .. VmArea
      BY <2>1
    <3>2. QED
      BY <3>1, VmAssumption
  <2>3. /\ {b \in VmBlocks : vmCut[b] = c} = (p + 1) .. q /\ q - p \in 0 .. VmWanted(c)
    BY <1>1, <1>4 DEF VmPool
  <2>4. vmFree[c] = [i \in 1 .. (q - p) |-> q + 1 - i]
    BY <1>1 DEF VmFreeAtStart
  <2> HIDE DEF p, q
  <2>5. q - p \in Nat
    BY <2>2, <2>3
  <2>6. \A i \in 1 .. (q - p) : q + 1 - i \in (p + 1) .. q
    BY <2>2, <2>5
  <2>7. vmFree[c] \in [1 .. (q - p) -> Nat]
    BY <2>2, <2>4, <2>6
  <2>8. vmFree[c] \in Seq(Nat) /\ IsInjective(vmFree[c])
    BY <2>2, <2>4, <2>5, <2>7 DEF IsInjective
  <2>9. Range(vmFree[c]) \subseteq (p + 1) .. q
    BY <2>4, <2>6 DEF Range
  <2>10. ASSUME NEW b \in (p + 1) .. q PROVE b \in Range(vmFree[c])
    <3>1. q + 1 - b \in 1 .. (q - p) /\ vmFree[c][q + 1 - b] = b
      BY <2>2, <2>4
    <3>2. QED
      BY <2>4, <3>1 DEF Range
  <2>11. QED
    BY <2>3, <2>8, <2>9, <2>10
<1>7. VmTypeOK
  BY <1>1, <1>2, <1>4, <1>5, <1>6 DEF VmTypeOK
<1>8. VmLists
  BY <1>1, <1>4, <1>6 DEF VmLists
<1>9. VmTags
  BY <1>2 DEF VmTags
<1>10. VmSettled
  <2>1. \A b \in VmBlocks : vmCut[b] \in VmClasses /\ b \in Range(vmFree[vmCut[b]])
    BY <1>4, <1>6 DEF VmBlocks
  <2>2. \A b \in VmBlocks, t \in VmThreads : ~VmUses(t, b)
    BY <1>2, <1>3, <1>4 DEF VmUses, VmBlocks
  <2>3. QED
    BY <2>1, <2>2 DEF VmSettled
<1>11. QED
  BY <1>7, <1>8, <1>9, <1>10 DEF VmInv

\* A thread is given the first block of a list.
LEMMA VmTakes ==
  ASSUME VmInv, NEW t \in VmThreads, NEW d \in VmClasses, vmNew[t] = 0, vmFree[d] # << >>,
         vmNew' = [vmNew EXCEPT ![t] = Head(vmFree[d])],
         vmFree' = [vmFree EXCEPT ![d] = Tail(@)],
         UNCHANGED <<vmCut, vmTag, vmHeld, vmGone>>
  PROVE  VmInv'
<1> DEFINE b == Head(vmFree[d])
<1>1. vmFree[d] \in Seq(Nat) /\ IsInjective(vmFree[d])
  BY DEF VmInv, VmTypeOK, VmLists
<1>2. /\ b \in Range(vmFree[d]) /\ Tail(vmFree[d]) \in Seq(Nat) /\ IsInjective(Tail(vmFree[d]))
      /\ Range(Tail(vmFree[d])) = Range(vmFree[d]) \ {b}
  BY <1>1, TailOfList
<1>3. b \in VmBlocks /\ vmCut[b] = d /\ vmTag[b] = 0 /\ b # 0
  BY <1>2 DEF VmInv, VmLists, VmBlocks
<1>4. \A u \in VmThreads : ~VmUses(u, b)
  BY <1>2, <1>3 DEF VmInv, VmSettled
<1>5. VmBlocks' = VmBlocks
  BY DEF VmBlocks
<1> HIDE DEF b
<1>6. vmNew' = [vmNew EXCEPT ![t] = b] /\ vmFree' = [vmFree EXCEPT ![d] = Tail(vmFree[d])]
  BY DEF b
<1>7. \A u \in VmThreads : vmNew'[u] = IF u = t THEN b ELSE vmNew[u]
  BY <1>6 DEF VmInv, VmTypeOK
<1>8. /\ vmFree'[d] = Tail(vmFree[d])
      /\ \A c \in VmClasses : c # d => vmFree'[c] = vmFree[c]
  BY <1>6 DEF VmInv, VmTypeOK
<1>9. VmTypeOK'
  BY <1>2, <1>3, <1>5, <1>6 DEF VmInv, VmTypeOK
<1>10. VmLists'
  BY <1>2, <1>5, <1>8 DEF VmInv, VmLists
<1>11. VmTags'
  BY <1>3, <1>7 DEF VmInv, VmTags
<1>12. \A u \in VmThreads, x \in VmBlocks : VmUses(u, x)' <=> VmUses(u, x) \/ (u = t /\ x = b)
  <2> TAKE u \in VmThreads, x \in VmBlocks
  <2>1. VmUses(u, x)' <=> x \in vmHeld[u] \/ vmNew'[u] = x
    BY DEF VmUses
  <2>2. x # 0
    BY DEF VmBlocks
  <2>3. QED
    BY <1>7, <2>1, <2>2 DEF VmUses
<1>13. \A x \in VmBlocks :
          /\ vmCut[x] \in VmClasses
          /\ x \in Range(vmFree'[vmCut[x]]) <=> x \in Range(vmFree[vmCut[x]]) /\ x # b
  <2> TAKE x \in VmBlocks
  <2>1. vmCut[x] \in VmClasses
    BY DEF VmInv, VmTypeOK, VmBlocks
  <2>2. CASE vmCut[x] = d
    BY <1>2, <1>8, <2>1, <2>2
  <2>3. CASE vmCut[x] # d
    BY <1>3, <1>8, <2>1, <2>3
  <2>4. QED
    BY <2>2, <2>3, <2>1
<1>14. VmSettled'
  <2>1. SUFFICES ASSUME NEW x \in VmBlocks
                 PROVE  /\ \A u, v \in VmThreads : VmUses(u, x)' /\ VmUses(v, x)' => u = v
                        /\ \A u \in VmThreads : VmUses(u, x)' => x \notin Range(vmFree'[vmCut[x]])
                        /\ x \in Range(vmFree'[vmCut[x]]) \/ \E u \in VmThreads : VmUses(u, x)'
    BY <1>5 DEF VmSettled
  <2>2. /\ \A u, v \in VmThreads : VmUses(u, x) /\ VmUses(v, x) => u = v
        /\ \A u \in VmThreads : VmUses(u, x) => x \notin Range(vmFree[vmCut[x]])
        /\ x \in Range(vmFree[vmCut[x]]) \/ \E u \in VmThreads : VmUses(u, x)
    BY DEF VmInv, VmSettled
  <2>3. QED
    BY <1>4, <1>12, <1>13, <2>2
<1>15. QED
  BY <1>9, <1>10, <1>11, <1>14 DEF VmInv

LEMMA VmAllocFreeInv ==
  ASSUME VmInv, NEW t \in VmThreads, NEW c \in VmClasses, VmAllocFree(t, c) PROVE VmInv'
BY VmTakes DEF VmAllocFree

LEMMA VmAllocLargerInv ==
  ASSUME VmInv, NEW t \in VmThreads, NEW c \in VmClasses, VmAllocLarger(t, c) PROVE VmInv'
<1>1. PICK d \in VmLarger(c) :
         /\ vmNew' = [vmNew EXCEPT ![t] = Head(vmFree[d])]
         /\ vmFree' = [vmFree EXCEPT ![d] = Tail(@)]
  BY DEF VmAllocLarger
<1>2. d \in VmClasses /\ vmFree[d] # << >>
  BY DEF VmLarger
<1>3. vmNew[t] = 0 /\ UNCHANGED <<vmCut, vmTag, vmHeld, vmGone>>
  BY DEF VmAllocLarger
<1>4. QED
  BY <1>1, <1>2, <1>3, VmTakes

LEMMA VmAllocCutInv ==
  ASSUME VmInv, NEW t \in VmThreads, NEW c \in VmClasses, VmAllocCut(t, c) PROVE VmInv'
<1> DEFINE n == Len(vmCut) + 1
<1>1. vmCut \in Seq(VmClasses) /\ vmTag \in Seq({0} \cup VmClasses) /\ Len(vmTag) = Len(vmCut)
  BY DEF VmInv, VmTypeOK
<1>2. vmCut' = Append(vmCut, c) /\ vmTag' = Append(vmTag, 0)
  BY DEF VmAllocCut
<1>3. vmCut' \in Seq(VmClasses) /\ Len(vmCut') = n /\ vmTag' \in Seq({0} \cup VmClasses) /\ Len(vmTag') = n
  BY <1>1, <1>2
<1>4. n \in Nat \ {0} /\ n \notin VmBlocks /\ VmBlocks' = VmBlocks \cup {n}
  BY <1>1, <1>3 DEF VmBlocks
<1>5. /\ vmCut'[n] = c /\ vmTag'[n] = 0
      /\ \A x \in VmBlocks : vmCut'[x] = vmCut[x] /\ vmTag'[x] = vmTag[x]
  BY <1>1, <1>2 DEF VmBlocks
<1>6. /\ vmNew[t] = 0 /\ vmFree' = vmFree /\ vmHeld' = vmHeld /\ vmGone' = vmGone
      /\ vmNew' = [vmNew EXCEPT ![t] = n]
  BY <1>3 DEF VmAllocCut
<1> HIDE DEF n
<1>7. \A u \in VmThreads : vmNew'[u] = IF u = t THEN n ELSE vmNew[u]
  BY <1>6 DEF VmInv, VmTypeOK
<1>8. VmTypeOK'
  BY <1>3, <1>4, <1>6 DEF VmInv, VmTypeOK
<1>9. VmLists'
  BY <1>4, <1>5, <1>6 DEF VmInv, VmLists
<1>10. VmTags'
  <2> SUFFICES ASSUME NEW u \in VmThreads
               PROVE  /\ \A x \in vmHeld[u] : vmTag'[x] = vmCut'[x]
                      /\ vmNew'[u] # 0 => vmTag'[vmNew'[u]] = 0
    BY <1>6 DEF VmTags
  <2>1. vmHeld[u] \subseteq VmBlocks /\ vmNew[u] \in {0} \cup VmBlocks
    BY DEF VmInv, VmTypeOK
  <2>2. QED
    BY <1>5, <1>7, <2>1 DEF VmInv, VmTags
<1>11. \A u \in VmThreads, x \in VmBlocks' : VmUses(u, x)' <=> VmUses(u, x) \/ (u = t /\ x = n)
  <2> TAKE u \in VmThreads, x \in VmBlocks'
  <2>1. VmUses(u, x)' <=> x \in vmHeld[u] \/ vmNew'[u] = x
    BY <1>6 DEF VmUses
  <2>2. x # 0
    BY DEF VmBlocks
  <2>3. QED
    BY <1>6, <1>7, <2>1, <2>2 DEF VmUses
<1>12. \A u \in VmThreads : ~VmUses(u, n)
  BY <1>4 DEF VmInv, VmTypeOK, VmUses
<1>13. n \notin Range(vmFree[c])
  BY <1>4 DEF VmInv, VmLists
<1>14. VmSettled'
  <2>1. SUFFICES ASSUME NEW x \in VmBlocks'
                 PROVE  /\ \A u, v \in VmThreads : VmUses(u, x)' /\ VmUses(v, x)' => u = v
                        /\ \A u \in VmThreads : VmUses(u, x)' => x \notin Range(vmFree[vmCut'[x]])
                        /\ x \in Range(vmFree[vmCut'[x]]) \/ \E u \in VmThreads : VmUses(u, x)'
    BY <1>6 DEF VmSettled
  <2>2. CASE x = n
    BY <1>5, <1>11, <1>12, <1>13, <2>2
  <2>3. CASE x \in VmBlocks
    <3>1. /\ \A u, v \in VmThreads : VmUses(u, x) /\ VmUses(v, x) => u = v
          /\ \A u \in VmThreads : VmUses(u, x) => x \notin Range(vmFree[vmCut[x]])
          /\ x \in Range(vmFree[vmCut[x]]) \/ \E u \in VmThreads : VmUses(u, x)
      BY <2>3 DEF VmInv, VmSettled
    <3>2. x # n /\ vmCut'[x] = vmCut[x]
      BY <1>4, <1>5, <2>3
    <3>3. QED
      BY <1>11, <3>1, <3>2
  <2>4. QED
    BY <1>4, <2>2, <2>3
<1>15. QED
  BY <1>8, <1>9, <1>10, <1>14 DEF VmInv

LEMMA VmAllocEndInv == ASSUME VmInv, NEW t \in VmThreads, VmAllocEnd(t) PROVE VmInv'
<1> DEFINE b == vmNew[t]
<1>1. b # 0 /\ b \in VmBlocks /\ vmTag[b] = 0 /\ VmBlocks' = VmBlocks
  BY DEF VmAllocEnd, VmInv, VmTypeOK, VmTags, VmBlocks
<1>2. /\ vmTag' = [vmTag EXCEPT ![b] = vmCut[b]]
      /\ vmHeld' = [vmHeld EXCEPT ![t] = vmHeld[t] \cup {b}]
      /\ vmNew' = [vmNew EXCEPT ![t] = 0]
      /\ vmFree' = vmFree /\ vmCut' = vmCut /\ vmGone' = vmGone
  BY DEF VmAllocEnd, VmTagSize
<1>3. VmUses(t, b)
  BY DEF VmUses
<1>4. \A u \in VmThreads : VmUses(u, b) => u = t
  BY <1>1, <1>3 DEF VmInv, VmSettled
<1>5. b \notin Range(vmFree[vmCut[b]])
  BY <1>1, <1>3 DEF VmInv, VmSettled
<1>6. vmCut[b] \in VmClasses /\ DOMAIN vmTag = VmBlocks
  BY <1>1 DEF VmInv, VmTypeOK, VmBlocks
<1> HIDE DEF b
<1>7. \A x \in VmBlocks : vmTag'[x] = IF x = b THEN vmCut[b] ELSE vmTag[x]
  BY <1>2, <1>6
<1>8. \A u \in VmThreads : /\ vmHeld'[u] = IF u = t THEN vmHeld[t] \cup {b} ELSE vmHeld[u]
                           /\ vmNew'[u] = IF u = t THEN 0 ELSE vmNew[u]
  BY <1>2 DEF VmInv, VmTypeOK
<1>9. VmTypeOK'
  <2>1. vmTag' \in Seq({0} \cup VmClasses) /\ Len(vmTag') = Len(vmTag)
    BY <1>1, <1>2, <1>6 DEF VmInv, VmTypeOK
  <2>2. QED
    BY <1>1, <1>2, <2>1 DEF VmInv, VmTypeOK
<1>10. VmLists'
  <2> SUFFICES ASSUME NEW c \in VmClasses
               PROVE  /\ IsInjective(vmFree[c])
                      /\ \A x \in Range(vmFree[c]) : x \in VmBlocks /\ vmCut[x] = c /\ vmTag'[x] = 0
    BY <1>1, <1>2 DEF VmLists
  <2>1. /\ IsInjective(vmFree[c])
        /\ \A x \in Range(vmFree[c]) : x \in VmBlocks /\ vmCut[x] = c /\ vmTag[x] = 0
    BY DEF VmInv, VmLists
  <2>2. QED
    BY <1>5, <1>7, <2>1
<1>11. VmTags'
  <2> SUFFICES ASSUME NEW u \in VmThreads
               PROVE  /\ \A x \in vmHeld'[u] : vmTag'[x] = vmCut[x]
                      /\ vmNew'[u] # 0 => vmTag'[vmNew'[u]] = 0
    BY <1>2 DEF VmTags
  <2>1. /\ vmHeld[u] \subseteq VmBlocks /\ vmNew[u] \in {0} \cup VmBlocks
        /\ \A x \in vmHeld[u] : vmTag[x] = vmCut[x]
        /\ vmNew[u] # 0 => vmTag[vmNew[u]] = 0
    BY DEF VmInv, VmTypeOK, VmTags
  <2>2. \A x \in vmHeld[u] : vmTag'[x] = vmCut[x]
    BY <1>7, <2>1
  <2>3. vmTag'[b] = vmCut[b]
    BY <1>1, <1>7
  <2>4. u # t /\ vmNew[u] # 0 => vmNew[u] # b
    BY <1>4 DEF VmUses
  <2>5. QED
    BY <1>7, <1>8, <2>1, <2>2, <2>3, <2>4
<1>12. \A u \in VmThreads, x \in VmBlocks : VmUses(u, x)' <=> VmUses(u, x)
  <2> TAKE u \in VmThreads, x \in VmBlocks
  <2>1. VmUses(u, x)' <=> x \in vmHeld'[u] \/ vmNew'[u] = x
    BY DEF VmUses
  <2>2. x # 0
    BY DEF VmBlocks
  <2>3. QED
    BY <1>8, <2>1, <2>2 DEF VmUses, b
<1>13. VmSettled'
  BY <1>1, <1>2, <1>12 DEF VmInv, VmSettled
<1>14. QED
  BY <1>9, <1>10, <1>11, <1>13 DEF VmInv
LEMMA VmMemFreeInv == ASSUME VmInv, NEW t \in VmThreads, VmMemFree(t) PROVE VmInv'
<1>1. PICK b \in vmHeld[t] : /\ VmBack(b)
                            /\ vmHeld' = [vmHeld EXCEPT ![t] = @ \ {b}]
                            /\ vmGone' = [vmGone EXCEPT ![t] = b]
  BY DEF VmMemFree
<1>2. b \in VmBlocks /\ vmTag[b] = vmCut[b] /\ vmCut[b] \in VmClasses /\ b \in Nat /\ DOMAIN vmTag = VmBlocks
  BY DEF VmInv, VmTypeOK, VmTags, VmBlocks
<1> DEFINE d == vmCut[b]
<1>3. /\ vmFree' = [vmFree EXCEPT ![d] = <<b>> \o vmFree[d]]
      /\ vmTag' = [vmTag EXCEPT ![b] = 0]
  BY <1>1, <1>2, VmClassFacts DEF VmBack
<1>4. vmCut' = vmCut /\ vmNew' = vmNew /\ VmBlocks' = VmBlocks
  BY DEF VmMemFree, VmBlocks
<1>5. VmUses(t, b)
  BY DEF VmUses
<1>6. b \notin Range(vmFree[d]) /\ \A u \in VmThreads : VmUses(u, b) => u = t
  BY <1>2, <1>5 DEF VmInv, VmSettled
<1>7. vmNew[t] = 0 /\ b # 0
  BY <1>2 DEF VmMemFree, VmBlocks
<1>8. vmFree[d] \in Seq(Nat) /\ IsInjective(vmFree[d])
  BY <1>2 DEF VmInv, VmTypeOK, VmLists
<1>9. /\ <<b>> \o vmFree[d] \in Seq(Nat) /\ IsInjective(<<b>> \o vmFree[d])
      /\ Range(<<b>> \o vmFree[d]) = Range(vmFree[d]) \cup {b}
  BY <1>2, <1>6, <1>8, PushOnList
<1>10. /\ vmFree'[d] = <<b>> \o vmFree[d]
       /\ \A c \in VmClasses : c # d => vmFree'[c] = vmFree[c]
  BY <1>2, <1>3 DEF VmInv, VmTypeOK
<1>11. \A x \in VmBlocks : vmTag'[x] = IF x = b THEN 0 ELSE vmTag[x]
  BY <1>2, <1>3
<1>12. \A u \in VmThreads : vmHeld'[u] = IF u = t THEN vmHeld[t] \ {b} ELSE vmHeld[u]
  BY <1>1 DEF VmInv, VmTypeOK
<1>13. d \in VmClasses
  BY <1>2
<1> HIDE DEF d
<1>14. VmTypeOK'
  <2>1. vmTag' \in Seq({0} \cup VmClasses) /\ Len(vmTag') = Len(vmTag)
    BY <1>2, <1>3 DEF VmInv, VmTypeOK
  <2>2. QED
    BY <1>1, <1>2, <1>3, <1>4, <1>9, <2>1 DEF VmInv, VmTypeOK
<1>15. VmLists'
  <2> SUFFICES ASSUME NEW c \in VmClasses
               PROVE  /\ IsInjective(vmFree'[c])
                      /\ \A x \in Range(vmFree'[c]) : x \in VmBlocks /\ vmCut[x] = c /\ vmTag'[x] = 0
    BY <1>4 DEF VmLists
  <2>1. \A x \in Range(vmFree[c]) : x \in VmBlocks /\ vmCut[x] = c /\ vmTag'[x] = 0
    BY <1>11 DEF VmInv, VmLists
  <2>2. CASE c = d
    BY <1>2, <1>9, <1>10, <1>11, <2>1, <2>2 DEF d
  <2>3. CASE c # d
    BY <1>10, <2>1, <2>3 DEF VmInv, VmLists
  <2>4. QED
    BY <2>2, <2>3
<1>16. VmTags'
  <2> SUFFICES ASSUME NEW u \in VmThreads
               PROVE  /\ \A x \in vmHeld'[u] : vmTag'[x] = vmCut[x]
                      /\ vmNew[u] # 0 => vmTag'[vmNew[u]] = 0
    BY <1>4 DEF VmTags
  <2>1. /\ vmHeld[u] \subseteq VmBlocks /\ vmNew[u] \in {0} \cup VmBlocks
        /\ \A x \in vmHeld[u] : vmTag[x] = vmCut[x]
        /\ vmNew[u] # 0 => vmTag[vmNew[u]] = 0
    BY DEF VmInv, VmTypeOK, VmTags
  <2>2. u # t => b \notin vmHeld[u]
    BY <1>6 DEF VmUses
  <2>3. QED
    BY <1>11, <1>12, <2>1, <2>2
<1>17. \A u \in VmThreads, x \in VmBlocks : VmUses(u, x)' <=> VmUses(u, x) /\ x # b
  <2> TAKE u \in VmThreads, x \in VmBlocks
  <2>1. VmUses(u, x)' <=> x \in vmHeld'[u] \/ vmNew[u] = x
    BY <1>4 DEF VmUses
  <2>2. u # t => ~VmUses(u, b)
    BY <1>6
  <2>3. QED
    BY <1>7, <1>12, <2>1, <2>2 DEF VmUses
<1>18. \A x \in VmBlocks :
          x \in Range(vmFree'[vmCut[x]]) <=> x \in Range(vmFree[vmCut[x]]) \/ x = b
  <2> TAKE x \in VmBlocks
  <2>1. vmCut[x] \in VmClasses
    BY DEF VmInv, VmTypeOK, VmBlocks
  <2>2. CASE vmCut[x] = d
    BY <1>9, <1>10, <2>2
  <2>3. CASE vmCut[x] # d
    BY <1>10, <2>1, <2>3 DEF d
  <2>4. QED
    BY <2>2, <2>3
<1>19. VmSettled'
  <2>1. SUFFICES ASSUME NEW x \in VmBlocks
                 PROVE  /\ \A u, v \in VmThreads : VmUses(u, x)' /\ VmUses(v, x)' => u = v
                        /\ \A u \in VmThreads : VmUses(u, x)' => x \notin Range(vmFree'[vmCut[x]])
                        /\ x \in Range(vmFree'[vmCut[x]]) \/ \E u \in VmThreads : VmUses(u, x)'
    BY <1>4 DEF VmSettled
  <2>2. /\ \A u, v \in VmThreads : VmUses(u, x) /\ VmUses(v, x) => u = v
        /\ \A u \in VmThreads : VmUses(u, x) => x \notin Range(vmFree[vmCut[x]])
        /\ x \in Range(vmFree[vmCut[x]]) \/ \E u \in VmThreads : VmUses(u, x)
    BY DEF VmInv, VmSettled
  <2>3. QED
    BY <1>17, <1>18, <2>2
<1>20. QED
  BY <1>14, <1>15, <1>16, <1>19 DEF VmInv

\* A block given back twice has no size any more.
LEMMA VmFreeTwiceInv == ASSUME VmInv, NEW t \in VmThreads, VmFreeTwice(t) PROVE VmInv'
<1> DEFINE b == vmGone[t]
<1>1. b \in VmBlocks /\ \A u \in VmThreads : b \notin vmHeld[u]
  BY DEF VmFreeTwice, VmInv, VmTypeOK
<1>2. vmTag[b] = 0
  <2>1. CASE b \in Range(vmFree[vmCut[b]])
    <3>1. vmCut[b] \in VmClasses
      BY <1>1 DEF VmInv, VmTypeOK, VmBlocks
    <3>2. QED
      BY <2>1, <3>1 DEF VmInv, VmLists
  <2>2. CASE \E u \in VmThreads : VmUses(u, b)
    <3>1. PICK u \in VmThreads : VmUses(u, b)
      BY <2>2
    <3>2. vmNew[u] = b /\ b # 0
      BY <1>1, <3>1 DEF VmUses, VmBlocks
    <3>3. QED
      BY <3>2 DEF VmInv, VmTags
  <2>3. QED
    BY <1>1, <2>1, <2>2 DEF VmInv, VmSettled
<1>3. VmBack(b) /\ UNCHANGED <<vmCut, vmHeld, vmNew>> /\ vmGone' = [vmGone EXCEPT ![t] = 0]
  BY DEF VmFreeTwice
<1>4. UNCHANGED <<vmFree, vmTag>>
  BY <1>2, <1>3 DEF VmBack
<1> HIDE DEF b
<1>5. VmBlocks' = VmBlocks
  BY <1>3 DEF VmBlocks
<1>6. VmTypeOK'
  BY <1>3, <1>4, <1>5 DEF VmInv, VmTypeOK
<1>7. VmLists' /\ VmTags'
  BY <1>3, <1>4, <1>5 DEF VmInv, VmLists, VmTags
<1>8. \A u, x : VmUses(u, x)' <=> VmUses(u, x)
  BY <1>3 DEF VmUses
<1>9. VmSettled'
  BY <1>3, <1>4, <1>5, <1>8 DEF VmInv, VmSettled
<1>10. QED
  BY <1>6, <1>7, <1>9 DEF VmInv

LEMMA VmStutterInv == ASSUME VmInv, UNCHANGED vmVars PROVE VmInv'
<1>1. /\ vmFree' = vmFree /\ vmCut' = vmCut /\ vmTag' = vmTag /\ vmHeld' = vmHeld
      /\ vmNew' = vmNew /\ vmGone' = vmGone /\ VmBlocks' = VmBlocks
  BY DEF vmVars, VmBlocks
<1>2. \A u, x : VmUses(u, x)' <=> VmUses(u, x)
  BY <1>1 DEF VmUses
<1>3. VmTypeOK' /\ VmLists' /\ VmTags'
  BY <1>1 DEF VmInv, VmTypeOK, VmLists, VmTags
<1>4. VmSettled'
  BY <1>1, <1>2 DEF VmInv, VmSettled
<1>5. QED
  BY <1>3, <1>4 DEF VmInv

LEMMA VmInductive == ASSUME VmTableFits PROVE VmSpec => []VmInv
<1>1. VmInv /\ [VmNext]_vmVars => VmInv'
  BY VmAllocFreeInv, VmAllocCutInv, VmAllocLargerInv, VmAllocEndInv, VmMemFreeInv, VmFreeTwiceInv,
     VmStutterInv DEF VmNext
<1>2. QED
  BY VmInitInv, <1>1, PTL DEF VmSpec

LEMMA VmInvMeansOnePlace == VmInv => VmOnePlace
<1> SUFFICES ASSUME VmInv PROVE VmOnePlace
  OBVIOUS
<1>1. \A c \in VmClasses : IsInjective(vmFree[c])
  BY DEF VmInv, VmLists
<1>2. DOMAIN vmCut = VmBlocks
  BY DEF VmInv, VmTypeOK, VmBlocks
<1>3. ASSUME NEW b \in VmBlocks
      PROVE  LET lists == {c \in VmClasses : b \in Range(vmFree[c])}
                 users == {t \in VmThreads : b \in vmHeld[t] \/ vmNew[t] = b}
             IN  Cardinality(lists) + Cardinality(users) = 1 /\ lists \subseteq {vmCut[b]}
  <2> DEFINE lists == {c \in VmClasses : b \in Range(vmFree[c])}
             users == {t \in VmThreads : b \in vmHeld[t] \/ vmNew[t] = b}
  <2>1. lists \subseteq {vmCut[b]}
    BY DEF VmInv, VmLists
  <2>2. /\ \A t, u \in VmThreads : VmUses(t, b) /\ VmUses(u, b) => t = u
        /\ \A t \in VmThreads : VmUses(t, b) => b \notin Range(vmFree[vmCut[b]])
        /\ b \in Range(vmFree[vmCut[b]]) \/ \E t \in VmThreads : VmUses(t, b)
    BY DEF VmInv, VmSettled
  <2>3. users = {t \in VmThreads : VmUses(t, b)}
    BY DEF VmUses
  <2>4. vmCut[b] \in VmClasses
    BY <1>2 DEF VmInv, VmTypeOK
  <2>5. CASE b \in Range(vmFree[vmCut[b]])
    <3>1. lists = {vmCut[b]} /\ users = {}
      BY <2>1, <2>2, <2>3, <2>4, <2>5
    <3>2. Cardinality(lists) = 1 /\ Cardinality(users) = 0
      BY <3>1, FS_EmptySet, FS_Singleton
    <3>3. QED
      BY <2>1, <3>2
  <2>6. CASE b \notin Range(vmFree[vmCut[b]])
    <3>1. PICK t \in VmThreads : VmUses(t, b)
      BY <2>2, <2>6
    <3>2. lists = {} /\ users = {t}
      BY <2>1, <2>2, <2>3, <2>6, <3>1
    <3>3. Cardinality(lists) = 0 /\ Cardinality(users) = 1
      BY <3>2, FS_EmptySet, FS_Singleton
    <3>4. QED
      BY <2>1, <3>3
  <2>7. QED
    BY <2>5, <2>6
<1>4. QED
  BY <1>1, <1>2, <1>3 DEF VmOnePlace

----------------------------------------------------------------------------
(* Cyclic threads and times (Vos).                                         *)

VtTypes ==
  /\ vtAt \in {"run", "sleep"} /\ vtErrno \in BOOLEAN
  /\ vtWanted \in Nat /\ vtSlept \in Nat /\ vtDelay \in 0 .. VtInterval

\* A thread that sleeps still wants what its delay lacks.
VtSleeping == vtAt = "sleep" => vtSlept >= vtDelay \/ vtSlept + vtWanted >= vtDelay

VtTimeType == vtTime \in Nat \X (0 .. (VtBase - 1)) /\ vtExact \in Nat

VtInv == VtTypes /\ VtSleeping /\ VtNotEarly /\ VtTimeType /\ VtTimeExact

LEMMA VtRoundInv ==
  ASSUME VtTypes, VtSleeping, VtNotEarly, VtRound PROVE VtTypes' /\ VtSleeping' /\ VtNotEarly'
<1>1. PICK exec \in 0 .. VtExec, eintr \in BOOLEAN :
         /\ vtDelay' = VtWaiting(exec) /\ vtWanted' = vtDelay'
         /\ vtErrno' = eintr
         /\ vtAt' = IF vtDelay' = 0 THEN "run" ELSE "sleep"
  BY DEF VtRound
<1>2. vtDelay' \in 0 .. VtInterval
  BY <1>1, VtAssumption DEF VtWaiting
<1>3. vtSlept' = 0
  BY DEF VtRound
<1>4. VtTypes'
  BY <1>1, <1>2, <1>3, VtAssumption DEF VtTypes
<1>5. VtSleeping'
  BY <1>1, <1>2, <1>3, VtAssumption DEF VtSleeping
<1>6. VtNotEarly'
  BY <1>1, <1>2, <1>3, VtAssumption DEF VtNotEarly
<1>7. QED
  BY <1>4, <1>5, <1>6

LEMMA VtSleepEndsInv ==
  ASSUME VtTypes, VtSleeping, VtNotEarly, VtSleepEnds PROVE VtTypes' /\ VtSleeping' /\ VtNotEarly'
BY VtAssumption DEF VtSleepEnds, VtTypes, VtSleeping, VtNotEarly

LEMMA VtSignalInv ==
  ASSUME VtTypes, VtSleeping, VtNotEarly, VtSignal PROVE VtTypes' /\ VtSleeping' /\ VtNotEarly'
<1>1. PICK left \in 1 .. vtWanted :
         /\ vtSlept' = IF vtSlept > VtInterval THEN vtSlept ELSE vtSlept + vtWanted - left
         /\ vtWanted' = left
  BY DEF VtSignal, VtRemaining
<1>2. QED
  BY <1>1, VtAssumption DEF VtSignal, VtTypes, VtSleeping, VtNotEarly

LEMMA VtOtherErrnoInv ==
  ASSUME VtTypes, VtSleeping, VtNotEarly, VtOtherErrno PROVE VtTypes' /\ VtSleeping' /\ VtNotEarly'
BY DEF VtOtherErrno, VtTypes, VtSleeping, VtNotEarly

LEMMA DivideFacts ==
  ASSUME NEW a \in Nat, NEW d \in Nat \ {0}
  PROVE  /\ a \div d \in Nat /\ a % d \in 0 .. (d - 1)
         /\ a = d * (a \div d) + (a % d)
OBVIOUS

LEMMA QuotientIs ==
  ASSUME NEW d \in Nat \ {0}, NEW q \in Nat, NEW r \in 0 .. (d - 1), NEW a, a = d * q + r
  PROVE  a \div d = q /\ a % d = r
OBVIOUS

LEMMA TimesFacts ==
  /\ VtBase \in Nat \ {0} /\ VtFactor \in Nat \ {0}
  /\ \A a \in Nat \X (0 .. (VtBase - 1)) :
        /\ a = <<a[1], a[2]>> /\ a[1] \in Nat /\ a[2] \in 0 .. (VtBase - 1)
        /\ VtValue(a) = a[1] * VtBase + a[2] /\ VtValue(a) \in Nat
<1>1. VtBase \in Nat \ {0} /\ VtFactor \in Nat \ {0}
  BY VtAssumption
<1>2. ASSUME NEW a \in Nat \X (0 .. (VtBase - 1))
      PROVE  /\ a = <<a[1], a[2]>> /\ a[1] \in Nat /\ a[2] \in 0 .. (VtBase - 1)
             /\ VtValue(a) = a[1] * VtBase + a[2] /\ VtValue(a) \in Nat
  <2>1. a = <<a[1], a[2]>> /\ a[1] \in Nat /\ a[2] \in 0 .. (VtBase - 1)
    OBVIOUS
  <2>2. a[1] * VtBase \in Nat
    BY <1>1, <2>1
  <2>3. QED
    BY <1>1, <2>1, <2>2 DEF VtValue
<1>3. QED
  BY <1>1, <1>2

\* Two facts of products that the solver needs told.
LEMMA ProductFacts ==
  ASSUME NEW x \in Int, NEW y \in Int, NEW b \in Int
  PROVE  (x + y) * b = x * b + y * b /\ (x - y) * b = x * b - y * b
OBVIOUS

LEMMA PlusExact ==
  ASSUME NEW a \in Nat \X (0 .. (VtBase - 1)), NEW b \in Nat \X (0 .. (VtBase - 1))
  PROVE  /\ VtPlus(a, b) \in Nat \X (0 .. (VtBase - 1))
         /\ VtValue(VtPlus(a, b)) = VtValue(a) + VtValue(b)
<1> DEFINE u == a[2] + b[2]
<1>1. /\ VtBase \in Nat \ {0} /\ a[1] \in Nat /\ b[1] \in Nat
      /\ a[2] \in 0 .. (VtBase - 1) /\ b[2] \in 0 .. (VtBase - 1)
      /\ VtValue(a) = a[1] * VtBase + a[2] /\ VtValue(b) = b[1] * VtBase + b[2]
  BY TimesFacts
<1>2. (a[1] + b[1]) * VtBase = a[1] * VtBase + b[1] * VtBase
  BY <1>1, ProductFacts
<1>3. CASE u >= VtBase
  <2>1. VtPlus(a, b) = <<a[1] + b[1] + 1, u - VtBase>>
    BY <1>3 DEF VtPlus
  <2>2. (a[1] + b[1] + 1) * VtBase = (a[1] + b[1]) * VtBase + VtBase
    BY <1>1
  <2>3. u - VtBase \in 0 .. (VtBase - 1) /\ a[1] + b[1] + 1 \in Nat
    BY <1>1, <1>3
  <2>4. VtValue(VtPlus(a, b)) = (a[1] + b[1] + 1) * VtBase + (u - VtBase)
    BY <2>1 DEF VtValue
  <2>5. VtValue(VtPlus(a, b)) = VtValue(a) + VtValue(b)
    BY <1>1, <1>2, <2>2, <2>4
  <2>6. QED
    BY <2>1, <2>3, <2>5
<1>4. CASE ~(u >= VtBase)
  <2>1. VtPlus(a, b) = <<a[1] + b[1], u>>
    BY <1>4 DEF VtPlus
  <2>2. u \in 0 .. (VtBase - 1) /\ a[1] + b[1] \in Nat
    BY <1>1, <1>4
  <2>3. VtValue(VtPlus(a, b)) = (a[1] + b[1]) * VtBase + u
    BY <2>1 DEF VtValue
  <2>4. VtValue(VtPlus(a, b)) = VtValue(a) + VtValue(b)
    BY <1>1, <1>2, <2>3
  <2>5. QED
    BY <2>1, <2>2, <2>4
<1>5. QED
  BY <1>3, <1>4

LEMMA MinusExact ==
  ASSUME NEW a \in Nat \X (0 .. (VtBase - 1)), NEW b \in Nat \X (0 .. (VtBase - 1)),
         VtValue(b) <= VtValue(a)
  PROVE  /\ VtMinus(a, b) \in Nat \X (0 .. (VtBase - 1))
         /\ VtValue(VtMinus(a, b)) = VtValue(a) - VtValue(b)
<1> DEFINE u == a[2] - b[2]
           s == a[1] - b[1]
<1>1. /\ VtBase \in Nat \ {0} /\ a[1] \in Nat /\ b[1] \in Nat
      /\ a[2] \in 0 .. (VtBase - 1) /\ b[2] \in 0 .. (VtBase - 1)
      /\ VtValue(a) = a[1] * VtBase + a[2] /\ VtValue(b) = b[1] * VtBase + b[2]
  BY TimesFacts
<1>2. s * VtBase = a[1] * VtBase - b[1] * VtBase
  BY <1>1, ProductFacts
<1>3. s * VtBase + u >= 0 /\ s \in Int /\ u \in Int /\ u < VtBase /\ -VtBase < u
  BY <1>1, <1>2
<1>4. s * VtBase + u = VtValue(a) - VtValue(b)
  BY <1>1, <1>2
<1>5. CASE u < 0
  <2>1. VtMinus(a, b) = <<s - 1, u + VtBase>>
    BY <1>5 DEF VtMinus
  <2> HIDE DEF s, u
  <2>2. s >= 1
    <3>1. s <= 0 => s * VtBase <= 0
      BY <1>1, <1>3
    <3>2. QED
      BY <1>1, <1>3, <1>5, <3>1
  <2>3. (s - 1) * VtBase = s * VtBase - VtBase
    BY <1>1, <1>3
  <2>4. VtValue(VtMinus(a, b)) = (s - 1) * VtBase + (u + VtBase)
    BY <2>1 DEF VtValue
  <2>5. s - 1 \in Nat /\ u + VtBase \in 0 .. (VtBase - 1)
    BY <1>1, <1>3, <1>5, <2>2
  <2>6. s * VtBase \in Int
    BY <1>1, <1>3
  <2>7. VtValue(VtMinus(a, b)) = s * VtBase + u
    BY <1>1, <1>3, <2>3, <2>4, <2>6
  <2>8. QED
    BY <1>4, <2>1, <2>5, <2>7
<1>6. CASE ~(u < 0)
  <2>1. VtMinus(a, b) = <<s, u>>
    BY <1>6 DEF VtMinus
  <2> HIDE DEF s, u
  <2>2. s >= 0
    <3>1. s <= -1 => s * VtBase <= -VtBase
      BY <1>1, <1>3
    <3>2. QED
      BY <1>1, <1>3, <1>6, <3>1
  <2>3. VtValue(VtMinus(a, b)) = s * VtBase + u
    BY <2>1 DEF VtValue
  <2>4. s \in Nat /\ u \in 0 .. (VtBase - 1)
    BY <1>1, <1>3, <1>6, <2>2
  <2>5. QED
    BY <1>4, <2>1, <2>3, <2>4
<1>7. QED
  BY <1>5, <1>6

\* The rest of the seconds is below the divisor: it fits a word when it is turned into units.
LEMMA DivExact ==
  ASSUME NEW a \in Nat \X (0 .. (VtBase - 1)), NEW d \in 1 .. VtFactor
  PROVE  /\ VtDiv(a, d) \in Nat \X (0 .. (VtBase - 1))
         /\ VtValue(VtDiv(a, d)) = VtValue(a) \div d
<1> DEFINE B == VtBase
           q == a[1] \div d
           r == a[1] % d
           m == a[2] + r * B
           k == m \div d
           l == m % d
<1>1. /\ B \in Nat \ {0} /\ VtFactor \in Nat \ {0} /\ d \in Nat \ {0} /\ a[1] \in Nat
      /\ a[2] \in 0 .. (B - 1) /\ VtValue(a) = a[1] * B + a[2]
  BY TimesFacts
<1>2. q \in Nat /\ r \in 0 .. (d - 1) /\ a[1] = d * q + r
  BY <1>1, DivideFacts
<1>3. VtDiv(a, d) = <<q, (a[2] + ((r * B) % VtWord)) \div d>>
  BY DEF VtDiv
<1> HIDE DEF B, q, r
<1>4. r * B \in Nat /\ r * B <= (d - 1) * B /\ (d - 1) * B = d * B - B /\ d * B <= VtFactor * B
  BY <1>1, <1>2
<1>5. VtWord \in Int => (r * B) % VtWord = r * B
  <2>1. VtFactor * B <= VtWord
    BY VtAssumption DEF B
  <2>2. HAVE VtWord \in Int
  <2>3. VtFactor * B \in Nat /\ d * B \in Nat
    BY <1>1
  <2>4. VtWord \in Nat \ {0} /\ r * B \in 0 .. (VtWord - 1)
    BY <1>1, <1>4, <2>1, <2>2, <2>3
  <2>5. r * B = VtWord * 0 + r * B
    BY <1>4, <2>4
  <2> HIDE DEF m, k, l
  <2>6. QED
    BY <2>4, <2>5, QuotientIs
<1>6. m \in Nat /\ m < d * B
  BY <1>1, <1>4
<1>7. k \in Nat /\ l \in 0 .. (d - 1) /\ m = d * k + l
  BY <1>1, <1>6, DivideFacts
<1>8. VtWord \in Int
  BY VtAssumption
<1>9. VtDiv(a, d) = <<q, k>>
  BY <1>3, <1>5, <1>8
<1> HIDE DEF k, l
<1>10. k < B
  <2>1. k >= B => d * k >= d * B
    BY <1>1, <1>7
  <2>2. QED
    BY <1>1, <1>6, <1>7, <2>1
<1>11. VtValue(a) = d * (q * B + k) + l
  <2>1. a[1] * B = (d * q) * B + r * B
    BY <1>1, <1>2, ProductFacts
  <2>2. (d * q) * B = d * (q * B) /\ d * (q * B + k) = d * (q * B) + d * k
    BY <1>1, <1>2, <1>7
  <2>3. a[1] * B + a[2] = (d * q) * B + m
    BY <1>1, <1>2, <1>4, <2>1
  <2> HIDE DEF m
  <2>4. QED
    BY <1>1, <1>2, <1>7, <2>2, <2>3
<1>12. q * B + k \in Nat
  BY <1>1, <1>2, <1>7
<1>13. VtValue(a) \div d = q * B + k
  BY <1>1, <1>7, <1>11, <1>12, QuotientIs
<1>14. VtValue(<<q, k>>) = q * B + k
  BY DEF VtValue, B
<1>15. QED
  BY <1>1, <1>2, <1>7, <1>9, <1>10, <1>13, <1>14 DEF B

LEMMA MulExact ==
  ASSUME NEW a \in Nat \X (0 .. (VtBase - 1)), NEW m \in Nat
  PROVE  /\ VtMul(a, m) \in Nat \X (0 .. (VtBase - 1))
         /\ VtValue(VtMul(a, m)) = VtValue(a) * m
<1> DEFINE B == VtBase
           u == a[2] * m
           k == u \div B
           l == u % B
<1>1. /\ B \in Nat \ {0} /\ a[1] \in Nat
      /\ a[2] \in 0 .. (B - 1) /\ VtValue(a) = a[1] * B + a[2]
  BY TimesFacts
<1>2. u \in Nat
  BY <1>1
<1>3. k \in Nat /\ l \in 0 .. (B - 1) /\ u = B * k + l
  BY <1>1, <1>2, DivideFacts
<1>4. VtMul(a, m) = <<a[1] * m + k, l>>
  BY DEF VtMul
<1> HIDE DEF k, l
<1>5. VtValue(<<a[1] * m + k, l>>) = (a[1] * m + k) * B + l
  BY DEF VtValue
<1>6. a[1] * m \in Nat /\ (a[1] * m + k) * B = (a[1] * m) * B + k * B
  BY <1>1, <1>3, ProductFacts
<1>7. (a[1] * m) * B = (a[1] * B) * m /\ k * B = B * k
  BY <1>1, <1>3
<1>8. (a[1] * B + a[2]) * m = (a[1] * B) * m + u
  BY <1>1, ProductFacts
<1> HIDE DEF u
<1>9. VtValue(<<a[1] * m + k, l>>) = VtValue(a) * m
  <2>1. (a[1] * B) * m \in Int /\ B * k \in Int
    BY <1>1, <1>3
  <2>2. QED
    BY <1>1, <1>2, <1>3, <1>5, <1>6, <1>7, <1>8, <2>1
<1>10. QED
  BY <1>3, <1>4, <1>6, <1>9

LEMMA DeadlineExact ==
  ASSUME NEW a \in Nat \X (0 .. (VtBase - 1)), NEW t \in Nat
  PROVE  /\ VtDeadline(a, t) \in Nat \X (0 .. (VtBase - 1))
         /\ VtValue(VtDeadline(a, t)) = VtValue(a) + t
<1> DEFINE k == t \div VtBase
           l == t % VtBase
           b == <<k, l>>
<1>1. VtBase \in Nat \ {0}
  BY TimesFacts
<1>2. k \in Nat /\ l \in 0 .. (VtBase - 1) /\ t = VtBase * k + l
  BY <1>1, DivideFacts
<1>3. b \in Nat \X (0 .. (VtBase - 1)) /\ b[1] = k /\ b[2] = l
  BY <1>2
<1>4. a[1] \in Nat /\ a[2] \in 0 .. (VtBase - 1)
  OBVIOUS
<1>5. VtDeadline(a, t) = VtPlus(a, b)
  BY <1>3 DEF VtDeadline, VtPlus
<1>6. VtValue(b) = t
  BY <1>1, <1>2, <1>3 DEF VtValue
<1>7. QED
  BY <1>3, <1>5, <1>6, PlusExact

LEMMA VtComputeInv ==
  ASSUME VtTimeType, VtTimeExact, VtCompute PROVE VtTimeType' /\ VtTimeExact'
<1> DEFINE Times == Nat \X (0 .. (VtBase - 1))
<1>1. VtBase \in Nat \ {0} /\ vtTime \in Times /\ VtValue(vtTime) = vtExact /\ vtExact \in Nat
  BY TimesFacts DEF VtTimeType, VtTimeExact
<1>2. \A b \in VtTimes : b \in Times /\ VtValue(b) \in Nat
  <2>1. SUFFICES ASSUME NEW b \in VtTimes PROVE b \in Times
    BY TimesFacts
  <2>2. QED
    BY DEF VtTimes
<1>3. SUFFICES vtTime' \in Times /\ VtValue(vtTime') = vtExact' /\ vtExact' \in Nat
  <2>1. \A a \in Times : a[2] \in 0 .. (VtBase - 1)
    OBVIOUS
  <2>2. VtValue(vtTime)' = VtValue(vtTime')
    BY DEF VtValue
  <2>3. QED
    BY <1>3, <2>1, <2>2 DEF VtTimeType, VtTimeExact
<1> HIDE DEF Times
<1>4. CASE VtAddTime
  <2>1. PICK b \in VtTimes : vtTime' = VtPlus(vtTime, b) /\ vtExact' = vtExact + VtValue(b)
    BY <1>4 DEF VtAddTime
  <2>2. VtPlus(vtTime, b) \in Times /\ VtValue(VtPlus(vtTime, b)) = VtValue(vtTime) + VtValue(b)
    BY <1>1, <1>2, PlusExact DEF Times
  <2>3. QED
    BY <1>1, <1>2, <2>1, <2>2
<1>5. CASE VtSubTime
  <2>1. PICK b \in VtTimes : /\ VtValue(b) <= vtExact
                             /\ vtTime' = VtMinus(vtTime, b) /\ vtExact' = vtExact - VtValue(b)
    BY <1>5 DEF VtSubTime
  <2>2. VtMinus(vtTime, b) \in Times /\ VtValue(VtMinus(vtTime, b)) = VtValue(vtTime) - VtValue(b)
    BY <1>1, <1>2, <2>1, MinusExact DEF Times
  <2>3. QED
    BY <1>1, <1>2, <2>1, <2>2
<1>6. CASE VtDivTime
  <2>1. PICK d \in 1 .. VtFactor : vtTime' = VtDiv(vtTime, d) /\ vtExact' = vtExact \div d
    BY <1>6 DEF VtDivTime
  <2>2. VtDiv(vtTime, d) \in Times /\ VtValue(VtDiv(vtTime, d)) = VtValue(vtTime) \div d
    BY <1>1, DivExact DEF Times
  <2>3. vtExact \div d \in Nat
    <3>1. d \in Nat \ {0}
      BY TimesFacts
    <3>2. QED
      BY <1>1, <3>1, DivideFacts
  <2>4. QED
    BY <1>1, <2>1, <2>2, <2>3
<1>7. CASE VtMulTime
  <2>1. PICK m \in 0 .. VtFactor : vtTime' = VtMul(vtTime, m) /\ vtExact' = vtExact * m
    BY <1>7 DEF VtMulTime
  <2>2. m \in Nat
    BY TimesFacts
  <2>3. VtMul(vtTime, m) \in Times /\ VtValue(VtMul(vtTime, m)) = VtValue(vtTime) * m
    BY <1>1, <2>2, MulExact DEF Times
  <2>4. vtExact * m \in Nat
    BY <1>1, <2>2
  <2>5. QED
    BY <1>1, <2>1, <2>3, <2>4
<1>8. CASE VtSemaTake
  <2>1. PICK t \in 0 .. (2 * VtBase) : vtTime' = VtDeadline(vtTime, t) /\ vtExact' = vtExact + t
    BY <1>8 DEF VtSemaTake
  <2>2. t \in Nat
    BY <1>1
  <2>3. VtDeadline(vtTime, t) \in Times /\ VtValue(VtDeadline(vtTime, t)) = VtValue(vtTime) + t
    BY <1>1, <2>2, DeadlineExact DEF Times
  <2>4. QED
    BY <1>1, <2>1, <2>2, <2>3
<1>9. QED
  BY <1>4, <1>5, <1>6, <1>7, <1>8 DEF VtCompute

LEMMA VtInductive == VtSpec => []VtInv
<1>1. VtInit => VtInv
  <2>1. ASSUME VtInit PROVE VtTypes /\ VtSleeping /\ VtNotEarly
    <3>1. /\ vtAt = "run" /\ vtWanted = 0 /\ vtErrno = FALSE /\ vtSlept = 0 /\ vtDelay = 0
          /\ VtInterval \in Nat
      BY <2>1, VtAssumption DEF VtInit
    <3>2. vtErrno \in BOOLEAN
      BY <3>1
    <3>3. VtTypes
      BY <3>1, <3>2 DEF VtTypes
    <3>4. VtSleeping /\ VtNotEarly
      BY <3>1 DEF VtSleeping, VtNotEarly
    <3>5. QED
      BY <3>3, <3>4
  <2>2. ASSUME VtInit PROVE VtTimeType /\ VtTimeExact
    BY <2>2, VtAssumption DEF VtInit, VtTimeType, VtTimeExact, VtValue
  <2>3. QED
    BY <2>1, <2>2 DEF VtInv
<1>2. VtInv /\ [VtNext]_vtVars => VtInv'
  <2>1. SUFFICES ASSUME VtInv, [VtNext]_vtVars PROVE VtInv'
    OBVIOUS
  <2>2. CASE VtRound \/ VtSleepEnds \/ VtSignal \/ VtOtherErrno
    <3>1. VtTypes' /\ VtSleeping' /\ VtNotEarly'
      BY <2>1, <2>2, VtRoundInv, VtSleepEndsInv, VtSignalInv, VtOtherErrnoInv DEF VtInv
    <3>2. vtTime' = vtTime /\ vtExact' = vtExact
      BY <2>2 DEF VtRound, VtSleepEnds, VtSignal, VtOtherErrno
    <3>3. VtTimeType' /\ VtTimeExact'
      BY <2>1, <3>2 DEF VtInv, VtTimeType, VtTimeExact, VtValue
    <3>4. QED
      BY <3>1, <3>3 DEF VtInv
  <2>3. CASE VtCompute
    <3>1. VtTimeType' /\ VtTimeExact'
      BY <2>1, <2>3, VtComputeInv DEF VtInv
    <3>2. VtTypes' /\ VtSleeping' /\ VtNotEarly'
      BY <2>1, <2>3 DEF VtInv, VtCompute, vtThread, VtTypes, VtSleeping, VtNotEarly
    <3>3. QED
      BY <3>1, <3>2 DEF VtInv
  <2>4. CASE UNCHANGED vtVars
    BY <2>1, <2>4 DEF vtVars, vtThread, VtInv, VtTypes, VtSleeping, VtNotEarly, VtTimeType,
       VtTimeExact, VtValue
  <2>5. QED
    BY <2>1, <2>2, <2>3, <2>4 DEF VtNext
<1>3. QED
  BY <1>1, <1>2, PTL DEF VtSpec

----------------------------------------------------------------------------
\* When there is room for the table vos_memInit cuts, every block of the pool is in the list of
\* its class, once, or with one thread, whatever threads allocate, free and free twice while a
\* block's size is not written yet (vos_memAlloc, vos_memFree).  Without the assumption the
\* rounds of vos_memInit may lose blocks or list them twice.
THEOREM VmAlwaysOnePlace == ASSUME VmTableFits PROVE VmSpec => []VmOnePlace
BY VmInductive, VmInvMeansOnePlace, PTL

\* A cyclic thread never starts a round early and times stay exact, whatever signals interrupt
\* its sleep (vos_threadDelay) and in whatever order times are added, subtracted, divided and
\* multiplied (vos_addTime and so on, vos_semaTake).
THEOREM VtAlwaysExact == VtSpec => [](VtNotEarly /\ VtTimeExact)
<1>1. VtInv => VtNotEarly /\ VtTimeExact
  BY DEF VtInv
<1>2. QED
  BY <1>1, VtInductive, PTL

\* What the library relies on of its abstraction layer (vos_mem.c, vos_thread.c), in an area
\* with room for the table of vos_memInit.
THEOREM VosAlwaysSound == ASSUME VmTableFits PROVE VmSpec /\ VqSpec /\ VtSpec => []VosSound
<1>1. VmOnePlace /\ VqDelivered /\ (VtNotEarly /\ VtTimeExact) => VosSound
  BY DEF VosSound
<1>2. QED
  BY <1>1, VmAlwaysOnePlace, VqAlwaysDelivered, VtAlwaysExact, PTL

----------------------------------------------------------------------------
(* Counting the elements of a sequence that belong to a set.               *)
At(q, M) == {i \in 1 .. Len(q) : q[i] \in M}
Count(q, M) == Cardinality(At(q, M))

LEMMA RemovedFacts ==
  ASSUME NEW S, NEW q \in Seq(S), NEW i \in 1 .. Len(q)
  PROVE  /\ RemoveAt(q, i) \in Seq(S) /\ Len(RemoveAt(q, i)) = Len(q) - 1
         /\ \A j \in 1 .. Len(q) - 1 : RemoveAt(q, i)[j] = IF j < i THEN q[j] ELSE q[j + 1]
<1> DEFINE a == SubSeq(q, 1, i - 1)
           b == SubSeq(q, i + 1, Len(q))
<1>1. Len(q) \in Nat /\ i \in Nat /\ i >= 1 /\ i <= Len(q)
  OBVIOUS
<1>2. \A k \in 1 .. Len(q) : q[k] \in S
  OBVIOUS
<1>3. a \in Seq(S) /\ Len(a) = i - 1 /\ \A k \in 1 .. i - 1 : a[k] = q[k]
  <2>1. 1 \in Int /\ i - 1 \in Int /\ \A k \in 1 .. i - 1 : q[k] \in S
    BY <1>1, <1>2
  <2>2. /\ a \in Seq(S) /\ Len(a) = IF 1 <= i - 1 THEN (i - 1) - 1 + 1 ELSE 0
        /\ \A k \in 1 .. (i - 1) - 1 + 1 : a[k] = q[1 + k - 1]
    BY <2>1, SubSeqProperties
  <2> QED
    BY <1>1, <2>2
<1>4. b \in Seq(S) /\ Len(b) = Len(q) - i /\ \A k \in 1 .. Len(q) - i : b[k] = q[i + k]
  <2>1. i + 1 \in Int /\ Len(q) \in Int /\ \A k \in i + 1 .. Len(q) : q[k] \in S
    BY <1>1, <1>2
  <2>2. /\ b \in Seq(S) /\ Len(b) = IF i + 1 <= Len(q) THEN Len(q) - (i + 1) + 1 ELSE 0
        /\ \A k \in 1 .. Len(q) - (i + 1) + 1 : b[k] = q[(i + 1) + k - 1]
    BY <2>1, SubSeqProperties
  <2> QED
    BY <1>1, <2>2
<1> HIDE DEF a, b
<1>5. /\ a \o b \in Seq(S) /\ Len(a \o b) = Len(a) + Len(b)
      /\ \A k \in 1 .. Len(a) + Len(b) : (a \o b)[k] = IF k <= Len(a) THEN a[k] ELSE b[k - Len(a)]
  BY <1>3, <1>4, ConcatProperties
<1>6. RemoveAt(q, i) = a \o b
  BY DEF RemoveAt, a, b
<1>7. ASSUME NEW j \in 1 .. Len(q) - 1 PROVE (a \o b)[j] = IF j < i THEN q[j] ELSE q[j + 1]
  <2>1. CASE j < i
    BY <1>1, <1>3, <1>4, <1>5, <2>1
  <2>2. CASE ~(j < i)
    <3>1. j - Len(a) \in 1 .. Len(q) - i /\ i + (j - Len(a)) = j + 1 /\ ~(j <= Len(a)) /\ j \in 1 .. Len(a) + Len(b)
      BY <1>1, <1>3, <1>4, <2>2
    <3> QED
      BY <1>4, <1>5, <2>2, <3>1
  <2> QED
    BY <2>1, <2>2
<1>8. Len(a \o b) = Len(q) - 1
  BY <1>1, <1>3, <1>4, <1>5
<1> QED
  BY <1>5, <1>6, <1>7, <1>8

LEMMA CountType ==
  ASSUME NEW S, NEW q \in Seq(S), NEW M
  PROVE  IsFiniteSet(At(q, M)) /\ Count(q, M) \in Nat
<1>1. IsFiniteSet(1 .. Len(q))
  BY FS_Interval
<1>2. At(q, M) \in SUBSET (1 .. Len(q))
  BY DEF At
<1> QED
  BY <1>1, <1>2, FS_Subset, FS_CardinalityType DEF Count

LEMMA CountEmpty == \A M : Count(<< >>, M) = 0
<1>1. \A M : At(<< >>, M) = {}
  BY DEF At
<1> QED
  BY <1>1, FS_EmptySet DEF Count

LEMMA CountZero ==
  ASSUME NEW S, NEW q \in Seq(S), NEW M, Count(q, M) = 0, NEW i \in 1 .. Len(q)
  PROVE  q[i] \notin M
<1>1. At(q, M) = {}
  BY CountType, FS_EmptySet DEF Count
<1> QED
  BY <1>1 DEF At

LEMMA CountNone ==
  ASSUME NEW S, NEW q \in Seq(S), NEW M, \A i \in 1 .. Len(q) : q[i] \notin M
  PROVE  Count(q, M) = 0
<1>1. At(q, M) = {}
  BY DEF At
<1> QED
  BY <1>1, FS_EmptySet DEF Count

LEMMA CountMore ==
  ASSUME NEW S, NEW q \in Seq(S), NEW M, NEW N, M \subseteq N
  PROVE  Count(q, M) <= Count(q, N)
<1>1. At(q, M) \in SUBSET At(q, N)
  BY DEF At
<1> QED
  BY <1>1, CountType, FS_Subset DEF Count

LEMMA CountAppend ==
  ASSUME NEW S, NEW q \in Seq(S), NEW e \in S, NEW M
  PROVE  Count(Append(q, e), M) = Count(q, M) + (IF e \in M THEN 1 ELSE 0)
<1> DEFINE p == Append(q, e)
<1>1. Len(p) = Len(q) + 1 /\ p[Len(q) + 1] = e /\ \A i \in 1 .. Len(q) : p[i] = q[i]
  BY AppendProperties
<1>2. Len(q) \in Nat /\ Len(q) + 1 \notin At(q, M)
  BY DEF At
<1>3. CASE e \in M
  <2>1. At(p, M) = At(q, M) \cup {Len(q) + 1}
    BY <1>1, <1>2, <1>3 DEF At
  <2> QED
    BY <1>2, <1>3, <2>1, CountType, FS_AddElement DEF Count
<1>4. CASE e \notin M
  <2>1. At(p, M) = At(q, M)
    BY <1>1, <1>2, <1>4 DEF At
  <2> QED
    BY <1>4, <2>1, CountType DEF Count
<1> QED
  BY <1>3, <1>4

LEMMA CountRemove ==
  ASSUME NEW S, NEW q \in Seq(S), NEW i \in 1 .. Len(q), NEW M
  PROVE  Count(q, M) = Count(RemoveAt(q, i), M) + (IF q[i] \in M THEN 1 ELSE 0)
<1> DEFINE p == RemoveAt(q, i)
           A == At(q, M) \ {i}
           B == At(p, M)
           f == [k \in A |-> IF k < i THEN k ELSE k - 1]
<1>1. /\ p \in Seq(S) /\ Len(p) = Len(q) - 1
      /\ \A j \in 1 .. Len(q) - 1 : p[j] = IF j < i THEN q[j] ELSE q[j + 1]
  BY RemovedFacts
<1> HIDE DEF p
<1>2. Len(q) \in Nat /\ i \in Nat /\ i >= 1 /\ i <= Len(q)
  OBVIOUS
<1>3. f \in Bijection(A, B)
  <2>1. ASSUME NEW k \in A PROVE f[k] \in B
    <3>1. k \in 1 .. Len(q) /\ q[k] \in M /\ k # i
      BY DEF At
    <3>2. CASE k < i
      BY <1>1, <1>2, <3>1, <3>2 DEF At
    <3>3. CASE ~(k < i)
      <4>1. f[k] = k - 1 /\ k - 1 \in 1 .. Len(q) - 1 /\ ~(k - 1 < i) /\ (k - 1) + 1 = k
        BY <1>2, <3>1, <3>3
      <4> QED
        BY <1>1, <3>1, <4>1 DEF At
    <3> QED
      BY <3>2, <3>3
  <2>2. ASSUME NEW k \in A, NEW l \in A, f[k] = f[l] PROVE k = l
    BY <1>2, <2>2 DEF At
  <2>3. ASSUME NEW j \in B PROVE \E k \in A : f[k] = j
    <3>1. j \in 1 .. Len(q) - 1 /\ p[j] \in M
      BY <1>1 DEF At
    <3>2. CASE j < i
      <4>1. j \in A /\ f[j] = j
        BY <1>1, <1>2, <3>1, <3>2 DEF At
      <4> QED
        BY <4>1
    <3>3. CASE ~(j < i)
      <4>1. j + 1 \in A /\ f[j + 1] = j
        BY <1>1, <1>2, <3>1, <3>3 DEF At
      <4> QED
        BY <4>1
    <3> QED
      BY <3>2, <3>3
  <2>4. f \in [A -> B] /\ DOMAIN f = A
    BY <2>1
  <2> HIDE DEF f, A, B
  <2>5. f \in Injection(A, B)
    BY <2>2, <2>4 DEF Injection, IsInjective
  <2>6. f \in Surjection(A, B)
    BY <2>3, <2>4 DEF Surjection
  <2> QED
    BY <2>5, <2>6 DEF Bijection
<1>4. IsFiniteSet(At(q, M)) /\ Count(q, M) \in Nat
  BY CountType
<1>5. IsFiniteSet(A) /\ Cardinality(A) = IF i \in At(q, M) THEN Count(q, M) - 1 ELSE Count(q, M)
  BY <1>4, FS_RemoveElement DEF Count
<1>6. Cardinality(B) = Cardinality(A)
  <2>1. ExistsBijection(A, B)
    BY <1>3 DEF ExistsBijection
  <2> QED
    BY <1>5, <2>1, FS_Bijection
<1>7. i \in At(q, M) <=> q[i] \in M
  BY DEF At
<1>8. Count(p, M) \in Nat
  BY <1>1, CountType
<1> QED
  BY <1>4, <1>5, <1>6, <1>7, <1>8 DEF Count, p

LEMMA CountReplace ==
  ASSUME NEW S, NEW q \in Seq(S), NEW i \in 1 .. Len(q), NEW e \in S, NEW M
  PROVE  Count(q, M) + (IF e \in M THEN 1 ELSE 0)
           = Count([q EXCEPT ![i] = e], M) + (IF q[i] \in M THEN 1 ELSE 0)
<1> DEFINE p == [q EXCEPT ![i] = e]
<1>1. p \in Seq(S) /\ Len(p) = Len(q) /\ p[i] = e /\ \A j \in 1 .. Len(q) : j # i => p[j] = q[j]
  OBVIOUS
<1> HIDE DEF p
<1>2. At(p, M) \ {i} = At(q, M) \ {i}
  BY <1>1 DEF At
<1>3. (i \in At(q, M) <=> q[i] \in M) /\ (i \in At(p, M) <=> e \in M)
  BY <1>1 DEF At
<1>4. /\ IsFiniteSet(At(q, M)) /\ Count(q, M) \in Nat
      /\ IsFiniteSet(At(p, M)) /\ Count(p, M) \in Nat
  BY <1>1, CountType
<1>5. /\ Cardinality(At(q, M) \ {i}) = IF i \in At(q, M) THEN Count(q, M) - 1 ELSE Count(q, M)
      /\ Cardinality(At(p, M) \ {i}) = IF i \in At(p, M) THEN Count(p, M) - 1 ELSE Count(p, M)
  BY <1>4, FS_RemoveElement DEF Count
<1>6. Count(q, M) + (IF e \in M THEN 1 ELSE 0) = Count(p, M) + (IF q[i] \in M THEN 1 ELSE 0)
  <2>0. /\ q[i] \in M => Cardinality(At(q, M) \ {i}) = Count(q, M) - 1
        /\ q[i] \notin M => Cardinality(At(q, M) \ {i}) = Count(q, M)
        /\ e \in M => Cardinality(At(q, M) \ {i}) = Count(p, M) - 1
        /\ e \notin M => Cardinality(At(q, M) \ {i}) = Count(p, M)
    BY <1>2, <1>3, <1>5
  <2>1. CASE e \in M /\ q[i] \in M
    BY <1>4, <2>0, <2>1
  <2>2. CASE e \in M /\ q[i] \notin M
    BY <1>4, <2>0, <2>2
  <2>3. CASE e \notin M /\ q[i] \in M
    BY <1>4, <2>0, <2>3
  <2>4. CASE e \notin M /\ q[i] \notin M
    BY <1>4, <2>0, <2>4
  <2> QED
    BY <2>1, <2>2, <2>3, <2>4
<1> QED
  BY <1>6 DEF p

----------------------------------------------------------------------------
(* The pool of one session, and the users counted for each of its slots.    *)
SeSocket == [open : BOOLEAN, type : {"pd", "md"}, rcv : BOOLEAN, any : BOOLEAN,
             groups : SUBSET SeGroups, kernel : SUBSET SeGroups, usage : Nat]
SePool == [SeSlot -> SeSocket]
SeFits(p, n, max) ==
  \A l \in SeSlot : /\ p[l].usage = n[l] /\ (p[l].open <=> n[l] > 0)
                    /\ (p[l].open => l <= max) /\ (~p[l].open => p[l] = SeFree)
SeHeld(p) == \A l \in SeSlot : p[l].groups \subseteq p[l].kernel

LEMMA LeastSlot == ASSUME NEW T \in SUBSET Nat, T # {} PROVE Min(T) \in T
<1>1. \E x \in T : \A y \in T : <<y, x>> \notin OpToRel(<, Nat)
  BY WFMin, NatLessThanWellFounded
<1>2. \E x \in T : \A y \in T : x <= y
  <2>1. PICK x \in T : \A y \in T : <<y, x>> \notin OpToRel(<, Nat)
    BY <1>1
  <2>2. \A y \in T : ~(y < x)
    BY <2>1 DEF OpToRel
  <2> QED
    BY <2>2
<1> QED
  BY <1>2 DEF Min

LEMMA FreeSocket == SeFree \in SeSocket /\ ~SeFree.open /\ SeFree.usage = 0 /\ SeFree.groups = {} /\ SeFree.kernel = {}
BY DEF SeFree, SeSocket

\* A socket that has joined one more group
LEMMA JoinedFacts ==
  ASSUME NEW k \in SeSocket, NEW g \in SeGroups \cup {SeNone}
  PROVE  /\ SeJoined(k, g) \in SeSocket
         /\ SeJoined(k, g).open = k.open /\ SeJoined(k, g).usage = k.usage
         /\ k.groups \subseteq SeJoined(k, g).groups
         /\ g # SeNone => g \in SeJoined(k, g).groups
         /\ k.groups \subseteq k.kernel => SeJoined(k, g).groups \subseteq SeJoined(k, g).kernel
<1>1. CASE g = SeNone
  BY <1>1 DEF SeJoined
<1>2. CASE g # SeNone
  <2> DEFINE heard == IF g \in k.groups THEN k.kernel ELSE k.kernel \cup {g}
             more == k.groups \cup {g}
  <2>1. /\ k.groups \subseteq SeGroups /\ k.kernel \subseteq SeGroups /\ k.open \in BOOLEAN /\ k.type \in {"pd", "md"}
        /\ k.rcv \in BOOLEAN /\ k.any \in BOOLEAN /\ k.usage \in Nat /\ g \in SeGroups
    BY <1>2 DEF SeSocket
  <2>2. more \subseteq SeGroups /\ heard \subseteq SeGroups
    BY <2>1
  <2>3. k.groups \subseteq k.kernel => more \subseteq heard
    OBVIOUS
  <2>4. k.groups \subseteq more /\ g \in more
    OBVIOUS
  <2>5. SeJoined(k, g) = [k EXCEPT !.groups = more, !.kernel = heard]
    BY <1>2 DEF SeJoined
  <2> HIDE DEF heard, more
  <2>6. SeJoined(k, g) = [open |-> k.open, type |-> k.type, rcv |-> k.rcv, any |-> k.any,
                          groups |-> more, kernel |-> heard, usage |-> k.usage]
    BY <2>5 DEF SeSocket
  <2> QED
    BY <1>2, <2>1, <2>2, <2>3, <2>4, <2>6 DEF SeSocket
<1> QED
  BY <1>1, <1>2

\* One slot of a pool gets a user more: the others stay as they are.
LEMMA OneMore ==
  ASSUME NEW p \in SePool, NEW n \in [SeSlot -> Nat], NEW max \in 0 .. SeSlots, SeFits(p, n, max),
         NEW l \in SeSlot, NEW top \in 0 .. SeSlots, max <= top, l <= top, NEW k \in SeSocket, k.open, k.usage = n[l] + 1
  PROVE  /\ [p EXCEPT ![l] = k] \in SePool
         /\ SeFits([p EXCEPT ![l] = k], [n EXCEPT ![l] = @ + 1], top)
<1>1. [p EXCEPT ![l] = k] \in SePool
  BY DEF SePool
<1>2. ASSUME NEW j \in SeSlot, j # l
      PROVE  /\ [p EXCEPT ![l] = k][j] = p[j] /\ [n EXCEPT ![l] = @ + 1][j] = n[j]
             /\ p[j].usage = n[j] /\ (p[j].open <=> n[j] > 0)
             /\ (p[j].open => j <= top) /\ (~p[j].open => p[j] = SeFree)
  <2>1. /\ p[j].usage = n[j] /\ (p[j].open <=> n[j] > 0)
        /\ (p[j].open => j <= max) /\ (~p[j].open => p[j] = SeFree)
    BY DEF SeFits
  <2>2. j \in Nat /\ max \in Nat /\ top \in Nat
    BY SeAssumption DEF SeSlot
  <2> QED
    BY <1>2, <2>1, <2>2 DEF SePool
<1>3. /\ [p EXCEPT ![l] = k][l] = k /\ [n EXCEPT ![l] = @ + 1][l] = n[l] + 1 /\ n[l] + 1 > 0
  BY DEF SePool
<1> QED
  BY <1>1, <1>2, <1>3 DEF SeFits

\* The lowest slot that suits, or a new one: what a call that asks for a socket gets (trdp_requestSocket).
LEMMA NewSlotFacts ==
  ASSUME seMax \in 0 .. SeSlots, NEW p \in SePool, NEW n \in [SeSlot -> Nat], SeFits(p, n, seMax)
  PROVE  \/ SeNewSlot(p) = 0
         \/ SeNewSlot(p) \in SeSlot /\ ~p[SeNewSlot(p)].open
<1>0. SeSlots \in Nat /\ seMax \in Nat /\ 1 .. seMax \subseteq SeSlot
  BY SeAssumption DEF SeSlot
<1> DEFINE empty == {l \in 1 .. seMax : ~p[l].open}
<1>1. CASE seMax = SeSlots
  BY <1>1 DEF SeNewSlot
<1>2. CASE seMax # SeSlots /\ empty # {}
  <2>1. Min(empty) \in empty
    BY <1>0, <1>2, LeastSlot
  <2>2. SeNewSlot(p) = Min(empty)
    BY <1>2 DEF SeNewSlot
  <2> QED
    BY <1>0, <2>1, <2>2
<1>3. CASE seMax # SeSlots /\ empty = {}
  <2>1. SeNewSlot(p) = seMax + 1
    BY <1>3 DEF SeNewSlot
  <2>2. seMax + 1 \in SeSlot /\ ~(seMax + 1 <= seMax)
    BY <1>0, <1>3 DEF SeSlot
  <2> QED
    BY <2>1, <2>2 DEF SeFits
<1> QED
  BY <1>1, <1>2, <1>3

\* What a call gets for group g: no slot, or one that has a user more and has joined the group
SeGets(p, n, g, r) ==
  /\ r.max \in 0 .. SeSlots /\ r.max >= seMax /\ r.iface \in SePool
  /\ \/ r.slot = 0 /\ r.iface = p
     \/ /\ r.slot \in SeSlot /\ SeFits(r.iface, [n EXCEPT ![r.slot] = @ + 1], r.max)
        /\ \A l \in SeSlot : p[l].groups \subseteq r.iface[l].groups
        /\ g # SeNone => g \in r.iface[r.slot].groups
  /\ SeHeld(p) => SeHeld(r.iface)

LEMMA RequestFacts ==
  ASSUME seMax \in 0 .. SeSlots, NEW p \in SePool, NEW n \in [SeSlot -> Nat], SeFits(p, n, seMax),
         NEW type \in {"pd", "md"}, NEW rcv \in BOOLEAN, NEW g \in SeGroups \cup {SeNone}, NEW ok \in BOOLEAN,
         NEW r, r = SeRequest(p, type, rcv, g, ok)
  PROVE  SeGets(p, n, g, r)
<1> USE DEF SeGets
<1> DEFINE suit == SeSuitable(p, type, rcv, g, ok)
           new == [open |-> TRUE, type |-> type, rcv |-> rcv, any |-> SeBindAny(rcv, g),
                   groups |-> {}, kernel |-> {}, usage |-> 1]
           Changed(j, x) == [p EXCEPT ![j] = x]
<1>0. SeSlots \in Nat /\ seMax \in Nat /\ 1 .. seMax \subseteq SeSlot
  BY SeAssumption DEF SeSlot
<1>1. ASSUME NEW l \in SeSlot, NEW k \in SeSocket, p[l].groups \subseteq k.groups,
             p[l].groups \subseteq p[l].kernel => k.groups \subseteq k.kernel
      PROVE  /\ \A j \in SeSlot : p[j].groups \subseteq Changed(l, k)[j].groups
             /\ SeHeld(p) => SeHeld(Changed(l, k))
             /\ Changed(l, k)[l] = k
  BY <1>1 DEF SePool, SeHeld
<1>2. CASE suit # {} /\ ~(ok \/ p[Min(suit)].any)
  <2>1. r = [slot |-> 0, max |-> seMax, iface |-> p]
    BY <1>2 DEF SeRequest
  <2> QED
    BY <1>0, <2>1
<1>3. CASE suit # {} /\ (ok \/ p[Min(suit)].any)
  <2> DEFINE l == Min(suit)
             k == SeShared(p[l], g)
  <2>1. suit \in SUBSET Nat /\ suit \subseteq 1 .. seMax
    BY DEF SeSuitable
  <2>2. l \in suit
    BY <1>3, <2>1, LeastSlot
  <2>3. l \in SeSlot /\ l <= seMax /\ p[l].open /\ p[l] \in SeSocket
    BY <1>0, <2>1, <2>2 DEF SeSuitable, SePool
  <2>4. r = [slot |-> l, max |-> seMax, iface |-> [p EXCEPT ![l] = SeShared(@, g)]]
    BY <1>3 DEF SeRequest
  <2> HIDE DEF l
  <2>5. r.slot = l /\ r.max = seMax /\ r.iface = Changed(l, k)
    BY <2>3, <2>4 DEF SePool
  <2>6. /\ SeJoined(p[l], g) \in SeSocket /\ SeJoined(p[l], g).open /\ SeJoined(p[l], g).usage = n[l]
        /\ p[l].groups \subseteq SeJoined(p[l], g).groups
        /\ g # SeNone => g \in SeJoined(p[l], g).groups
        /\ p[l].groups \subseteq p[l].kernel => SeJoined(p[l], g).groups \subseteq SeJoined(p[l], g).kernel
    BY <2>3, JoinedFacts DEF SeFits
  <2>7. /\ k \in SeSocket /\ k.open /\ k.usage = n[l] + 1
        /\ k.groups = SeJoined(p[l], g).groups /\ k.kernel = SeJoined(p[l], g).kernel
    BY <2>3, <2>6 DEF SeSocket, SeShared, SeFits
  <2> HIDE DEF k, Changed
  <2>8. Changed(l, k) \in SePool /\ SeFits(Changed(l, k), [n EXCEPT ![l] = @ + 1], seMax)
    <3>1. seMax <= seMax /\ l <= seMax
      BY <1>0, <2>3
    <3>2. k \in SeSocket /\ k.open /\ k.usage = n[l] + 1
      BY <2>7
    <3> QED
      BY <2>3, <3>1, <3>2, OneMore DEF Changed
  <2>9. /\ p[l].groups \subseteq k.groups
        /\ g # SeNone => g \in k.groups
        /\ p[l].groups \subseteq p[l].kernel => k.groups \subseteq k.kernel
    BY <2>6, <2>7
  <2>10. /\ \A j \in SeSlot : p[j].groups \subseteq Changed(l, k)[j].groups
         /\ SeHeld(p) => SeHeld(Changed(l, k))
         /\ Changed(l, k)[l] = k
    BY <1>1, <2>3, <2>7, <2>9
  <2> QED
    BY <1>0, <2>3, <2>5, <2>8, <2>9, <2>10
<1>4. CASE suit = {} /\ SeNewSlot(p) = 0
  <2>1. r = [slot |-> 0, max |-> seMax, iface |-> p]
    BY <1>0, <1>4 DEF SeRequest
  <2> QED
    BY <1>0, <2>1
<1>5. CASE suit = {} /\ SeNewSlot(p) # 0
  <2> DEFINE l == SeNewSlot(p)
             top == IF l > seMax THEN l ELSE seMax
             k == SeJoined(new, g)
  <2>1. l \in SeSlot /\ ~p[l].open
    BY <1>5, NewSlotFacts
  <2>2. p[l] = SeFree /\ n[l] = 0
    BY <2>1, FreeSocket DEF SeFits
  <2>3. top \in 0 .. SeSlots /\ seMax <= top /\ l <= top
    <3> HIDE DEF l
    <3> QED
      BY <1>0, <2>1 DEF SeSlot
  <2>4. r = [slot |-> IF ok THEN l ELSE 0, max |-> top, iface |-> Changed(l, IF ok THEN k ELSE SeFree)]
    BY <1>5 DEF SeRequest
  <2>5. new \in SeSocket /\ new.open /\ new.usage = 1
    <3>1. SeBindAny(rcv, g) \in BOOLEAN
      BY DEF SeBindAny
    <3> QED
      BY <3>1 DEF SeSocket
  <2> HIDE DEF new
  <2>6. /\ k \in SeSocket /\ k.open /\ k.usage = n[l] + 1
        /\ new.groups \subseteq k.groups
        /\ g # SeNone => g \in k.groups
        /\ new.groups \subseteq new.kernel => k.groups \subseteq k.kernel
    <3> HIDE DEF l
    <3> QED
      BY <2>2, <2>5, JoinedFacts
  <2>7. new.groups = {} /\ p[l].groups = {}
    BY <2>2, FreeSocket DEF new
  <2>8. CASE ~ok
    <3>1. Changed(l, SeFree) = p
      BY <2>1, <2>2 DEF SePool
    <3>2. r.slot = 0 /\ r.max = top /\ r.iface = p
      BY <2>4, <2>8, <3>1
    <3> QED
      BY <1>0, <2>3, <3>2
  <2>9. CASE ok
    <3> HIDE DEF k, l, Changed, top
    <3>1. r.slot = l /\ r.max = top /\ r.iface = Changed(l, k)
      BY <2>4, <2>9
    <3>2. Changed(l, k) \in SePool /\ SeFits(Changed(l, k), [n EXCEPT ![l] = @ + 1], top)
      BY <1>0, <2>1, <2>3, <2>6, OneMore DEF Changed
    <3>3. /\ p[l].groups \subseteq k.groups /\ k.groups \subseteq k.kernel
      BY <2>6, <2>7
    <3>4. /\ \A j \in SeSlot : p[j].groups \subseteq Changed(l, k)[j].groups
          /\ SeHeld(p) => SeHeld(Changed(l, k))
          /\ Changed(l, k)[l] = k
      BY <1>1, <2>1, <2>6, <3>3
    <3> QED
      BY <1>0, <2>1, <2>3, <2>6, <3>1, <3>2, <3>4
  <2> QED
    BY <2>8, <2>9
<1> QED
  BY <1>2, <1>3, <1>4, <1>5

----------------------------------------------------------------------------
(* One session: its pool fits the elements in its queues.                   *)
SeElement == [kind : {"pub", "sub", "lis", "tcp"}, group : SeGroups \cup {SeNone}, slot : 0 .. SeSlots, joint : BOOLEAN]
OfSlot(l) == {e \in SeElement : e.slot = l /\ e.kind # "tcp"}
SeCounts(q, leak) == [l \in SeSlot |-> Count(q, OfSlot(l)) + leak[l]]
SeServed(p, e) ==
  /\ e.kind = "tcp" <=> e.slot = 0
  /\ e.group # SeNone => e.kind # "tcp" /\ e.group \in p[e.slot].groups
SeRuns(p, q, leak, link, max) ==
  /\ SeFits(p, SeCounts(q, leak), max)
  /\ \A i \in 1 .. Len(q) : SeServed(p, q[i])
  /\ link = "up" => SeHeld(p)

LEMMA CountsType ==
  ASSUME NEW q \in Seq(SeElement), NEW leak \in [SeSlot -> Nat]
  PROVE  SeCounts(q, leak) \in [SeSlot -> Nat]
<1>1. \A l \in SeSlot : Count(q, OfSlot(l)) \in Nat
  BY CountType
<1> QED
  BY <1>1 DEF SeCounts

LEMMA CountsAppend ==
  ASSUME NEW q \in Seq(SeElement), NEW leak \in [SeSlot -> Nat], NEW e \in SeElement, e.slot \in SeSlot, e.kind # "tcp"
  PROVE  SeCounts(Append(q, e), leak) = [SeCounts(q, leak) EXCEPT ![e.slot] = @ + 1]
<1>1. ASSUME NEW l \in SeSlot
      PROVE  Count(Append(q, e), OfSlot(l)) = IF l = e.slot THEN Count(q, OfSlot(l)) + 1 ELSE Count(q, OfSlot(l))
  <2>1. e \in OfSlot(l) <=> l = e.slot
    BY DEF OfSlot
  <2>2. Count(q, OfSlot(l)) \in Nat
    BY CountType
  <2> QED
    BY <2>1, <2>2, CountAppend
<1>2. \A l \in SeSlot : Count(q, OfSlot(l)) \in Nat /\ leak[l] \in Nat
  BY CountType
<1> QED
  BY <1>1, <1>2 DEF SeCounts

LEMMA CountsLeak ==
  ASSUME NEW q \in Seq(SeElement), NEW leak \in [SeSlot -> Nat], NEW l \in SeSlot
  PROVE  SeCounts(q, [leak EXCEPT ![l] = @ + 1]) = [SeCounts(q, leak) EXCEPT ![l] = @ + 1]
<1>1. \A j \in SeSlot : Count(q, OfSlot(j)) \in Nat /\ leak[j] \in Nat
  BY CountType
<1>2. ASSUME NEW j \in SeSlot
      PROVE  Count(q, OfSlot(j)) + [leak EXCEPT ![l] = @ + 1][j]
               = IF j = l THEN (Count(q, OfSlot(l)) + leak[l]) + 1 ELSE Count(q, OfSlot(j)) + leak[j]
  BY <1>1
<1> QED
  BY <1>2 DEF SeCounts

LEMMA CountsRemove ==
  ASSUME NEW q \in Seq(SeElement), NEW leak \in [SeSlot -> Nat], NEW i \in 1 .. Len(q),
         q[i].slot \in SeSlot, q[i].kind # "tcp"
  PROVE  SeCounts(RemoveAt(q, i), leak) = [SeCounts(q, leak) EXCEPT ![q[i].slot] = @ - 1]
<1>1. ASSUME NEW l \in SeSlot
      PROVE  Count(RemoveAt(q, i), OfSlot(l)) = IF l = q[i].slot THEN Count(q, OfSlot(l)) - 1 ELSE Count(q, OfSlot(l))
  <2>1. q[i] \in OfSlot(l) <=> l = q[i].slot
    BY DEF OfSlot
  <2>2. RemoveAt(q, i) \in Seq(SeElement)
    BY RemovedFacts
  <2>3. Count(q, OfSlot(l)) \in Nat /\ Count(RemoveAt(q, i), OfSlot(l)) \in Nat
    BY <2>2, CountType
  <2>4. Count(q, OfSlot(l)) = Count(RemoveAt(q, i), OfSlot(l)) + (IF q[i] \in OfSlot(l) THEN 1 ELSE 0)
    BY CountRemove
  <2> QED
    BY <2>1, <2>3, <2>4
<1>2. \A l \in SeSlot : Count(q, OfSlot(l)) \in Nat /\ leak[l] \in Nat
  BY CountType
<1> QED
  BY <1>1, <1>2 DEF SeCounts

\* A TCP listener has no socket of the pool.
LEMMA CountsRemoveTcp ==
  ASSUME NEW q \in Seq(SeElement), NEW leak \in [SeSlot -> Nat], NEW i \in 1 .. Len(q), q[i].kind = "tcp"
  PROVE  SeCounts(RemoveAt(q, i), leak) = SeCounts(q, leak)
<1>1. ASSUME NEW l \in SeSlot PROVE Count(RemoveAt(q, i), OfSlot(l)) = Count(q, OfSlot(l))
  <2>1. q[i] \notin OfSlot(l)
    BY DEF OfSlot
  <2>2. RemoveAt(q, i) \in Seq(SeElement)
    BY RemovedFacts
  <2>3. Count(q, OfSlot(l)) \in Nat /\ Count(RemoveAt(q, i), OfSlot(l)) \in Nat
    BY <2>2, CountType
  <2>4. Count(q, OfSlot(l)) = Count(RemoveAt(q, i), OfSlot(l)) + (IF q[i] \in OfSlot(l) THEN 1 ELSE 0)
    BY CountRemove
  <2> QED
    BY <2>1, <2>3, <2>4
<1> QED
  BY <1>1 DEF SeCounts

LEMMA CountsAppendTcp ==
  ASSUME NEW q \in Seq(SeElement), NEW leak \in [SeSlot -> Nat], NEW e \in SeElement, e.kind = "tcp"
  PROVE  SeCounts(Append(q, e), leak) = SeCounts(q, leak)
<1>1. ASSUME NEW l \in SeSlot PROVE Count(Append(q, e), OfSlot(l)) = Count(q, OfSlot(l))
  <2>1. e \notin OfSlot(l)
    BY DEF OfSlot
  <2>2. Count(q, OfSlot(l)) \in Nat
    BY CountType
  <2> QED
    BY <2>1, <2>2, CountAppend
<1> QED
  BY <1>1 DEF SeCounts

\* An element that moves to another slot
LEMMA CountsMove ==
  ASSUME NEW q \in Seq(SeElement), NEW leak \in [SeSlot -> Nat], NEW i \in 1 .. Len(q),
         NEW e \in SeElement, e.slot \in SeSlot, e.kind # "tcp"
  PROVE  SeCounts(ReplaceAt(q, i, e), leak) = [SeCounts(RemoveAt(q, i), leak) EXCEPT ![e.slot] = @ + 1]
<1> DEFINE p == [q EXCEPT ![i] = e]
           r == RemoveAt(q, i)
<1>0. p \in Seq(SeElement) /\ r \in Seq(SeElement)
  BY RemovedFacts
<1>1. ASSUME NEW l \in SeSlot
      PROVE  Count(p, OfSlot(l)) = IF l = e.slot THEN Count(r, OfSlot(l)) + 1 ELSE Count(r, OfSlot(l))
  <2> DEFINE M == OfSlot(l)
  <2>1. e \in M <=> l = e.slot
    BY DEF OfSlot
  <2>2. Count(q, M) \in Nat /\ Count(p, M) \in Nat /\ Count(r, M) \in Nat
    BY <1>0, CountType
  <2> HIDE DEF M
  <2>3. Count(q, M) + (IF e \in M THEN 1 ELSE 0) = Count(p, M) + (IF q[i] \in M THEN 1 ELSE 0)
    BY CountReplace
  <2>4. Count(q, M) = Count(r, M) + (IF q[i] \in M THEN 1 ELSE 0)
    BY CountRemove
  <2> HIDE DEF p, r
  <2>5. CASE e \in M
    BY <2>1, <2>2, <2>3, <2>4, <2>5 DEF M
  <2>6. CASE e \notin M
    BY <2>1, <2>2, <2>3, <2>4, <2>6 DEF M
  <2> QED
    BY <2>5, <2>6
<1>2. \A l \in SeSlot : Count(r, OfSlot(l)) \in Nat /\ leak[l] \in Nat
  BY <1>0, CountType
<1> HIDE DEF p, r
<1>3. SeCounts(p, leak) = [SeCounts(r, leak) EXCEPT ![e.slot] = @ + 1]
  BY <1>1, <1>2 DEF SeCounts
<1>4. ReplaceAt(q, i, e) = p
  BY DEF ReplaceAt, p
<1> QED
  BY <1>3, <1>4 DEF r

LEMMA CountsReplace ==
  ASSUME NEW q \in Seq(SeElement), NEW leak \in [SeSlot -> Nat], NEW i \in 1 .. Len(q),
         NEW e \in SeElement, e.slot = q[i].slot, e.kind = q[i].kind
  PROVE  SeCounts([q EXCEPT ![i] = e], leak) = SeCounts(q, leak)
<1> DEFINE p == [q EXCEPT ![i] = e]
<1>0. p \in Seq(SeElement)
  OBVIOUS
<1>1. ASSUME NEW l \in SeSlot PROVE Count(p, OfSlot(l)) = Count(q, OfSlot(l))
  <2> DEFINE M == OfSlot(l)
  <2>1. e \in M <=> q[i] \in M
    BY DEF OfSlot
  <2>2. Count(q, M) \in Nat /\ Count(p, M) \in Nat
    BY <1>0, CountType
  <2> HIDE DEF M
  <2>3. Count(q, M) + (IF e \in M THEN 1 ELSE 0) = Count(p, M) + (IF q[i] \in M THEN 1 ELSE 0)
    BY CountReplace
  <2> HIDE DEF p
  <2>5. CASE e \in M
    BY <2>1, <2>2, <2>3, <2>5 DEF M
  <2>6. CASE e \notin M
    BY <2>1, <2>2, <2>3, <2>6 DEF M
  <2> QED
    BY <2>5, <2>6
<1> HIDE DEF p
<1>3. SeCounts(p, leak) = SeCounts(q, leak)
  BY <1>1 DEF SeCounts
<1> QED
  BY <1>3 DEF p

\* A slot that gives up one of its users (trdp_releaseSocket)
LEMMA ReleaseFacts ==
  ASSUME NEW p \in SePool, NEW n \in [SeSlot -> Nat], NEW max \in 0 .. SeSlots, SeFits(p, n, max),
         NEW l \in SeSlot, n[l] > 0, NEW r, r = SeRelease(p, l, 1)
  PROVE  /\ r \in SePool /\ SeFits(r, [n EXCEPT ![l] = @ - 1], max)
         /\ \A j \in SeSlot : j # l \/ n[l] > 1 => r[j].groups = p[j].groups
         /\ SeHeld(p) => SeHeld(r)
<1>0. p[l] \in SeSocket /\ p[l].open /\ p[l].usage = n[l] /\ l <= max
  BY DEF SePool, SeFits
<1>1. CASE n[l] > 1
  <2> DEFINE k == [p[l] EXCEPT !.usage = @ - 1]
  <2>1. r = [p EXCEPT ![l] = k]
    BY <1>0, <1>1 DEF SeRelease, SePool
  <2>2. n[l] - 1 \in Nat /\ n[l] - 1 > 0
    BY <1>1
  <2>3. /\ k \in SeSocket /\ k.open /\ k.usage = n[l] - 1
        /\ k.groups = p[l].groups /\ k.kernel = p[l].kernel
    BY <1>0, <2>2 DEF SeSocket
  <2> HIDE DEF k
  <2>4. r \in SePool /\ r[l] = k /\ \A j \in SeSlot : j # l => r[j] = p[j]
    BY <2>1, <2>3 DEF SePool
  <2>5. SeFits(r, [n EXCEPT ![l] = @ - 1], max)
    BY <1>0, <2>2, <2>3, <2>4 DEF SeFits
  <2> QED
    BY <2>3, <2>4, <2>5 DEF SeHeld
<1>2. CASE ~(n[l] > 1)
  <2>1. r = [p EXCEPT ![l] = SeFree]
    BY <1>0, <1>2 DEF SeRelease
  <2>2. n[l] - 1 = 0
    BY <1>2
  <2>3. r \in SePool /\ r[l] = SeFree /\ \A j \in SeSlot : j # l => r[j] = p[j]
    BY <2>1, FreeSocket DEF SePool
  <2>4. SeFits(r, [n EXCEPT ![l] = @ - 1], max)
    BY <2>2, <2>3, FreeSocket DEF SeFits
  <2> QED
    BY <1>2, <2>3, <2>4, FreeSocket DEF SeHeld
<1> QED
  BY <1>1, <1>2

\* An element leaves: the others keep their sockets and the groups of them.
LEMMA LeaveFacts ==
  ASSUME NEW p \in SePool, NEW q \in Seq(SeElement), NEW leak \in [SeSlot -> Nat], NEW link, NEW max \in 0 .. SeSlots,
         SeRuns(p, q, leak, link, max), NEW i \in 1 .. Len(q), q[i].kind # "tcp",
         NEW r, r = SeRelease(p, q[i].slot, 1)
  PROVE  /\ r \in SePool /\ SeFits(r, SeCounts(RemoveAt(q, i), leak), max)
         /\ \A j \in 1 .. Len(q) : j # i => SeServed(r, q[j])
         /\ SeHeld(p) => SeHeld(r)
<1> DEFINE n == SeCounts(q, leak)
           l == q[i].slot
           rest == RemoveAt(q, i)
<1>0. q[i] \in SeElement /\ l \in SeSlot
  <2>1. q[i] \in SeElement
    OBVIOUS
  <2>2. l \in 0 .. SeSlots /\ l # 0
    BY <2>1 DEF SeElement, SeRuns, SeServed
  <2> QED
    BY <2>1, <2>2, SeAssumption DEF SeSlot
<1>1. n \in [SeSlot -> Nat] /\ SeFits(p, n, max)
  BY CountsType DEF SeRuns
<1>2. /\ rest \in Seq(SeElement) /\ Len(rest) = Len(q) - 1
      /\ \A j \in 1 .. Len(q) - 1 : rest[j] = IF j < i THEN q[j] ELSE q[j + 1]
  BY RemovedFacts
<1>3. SeCounts(rest, leak) = [n EXCEPT ![l] = @ - 1]
  BY <1>0, CountsRemove
<1>4. n[l] > 0
  <2>1. q[i] \in OfSlot(l)
    BY <1>0 DEF OfSlot
  <2>2. Count(q, OfSlot(l)) \in Nat /\ Count(q, OfSlot(l)) # 0
    BY <2>1, CountType, CountZero
  <2> QED
    BY <1>0, <2>2 DEF SeCounts
<1>5. ASSUME NEW j \in 1 .. Len(q), j # i, q[j].slot = l PROVE n[l] > 1
  <2>1. q[j] \in SeElement /\ q[j] \in OfSlot(l)
    <3>1. q[j] \in SeElement
      OBVIOUS
    <3>2. q[j].kind # "tcp"
      BY <1>0, <1>5, SeAssumption DEF SeRuns, SeServed, SeSlot
    <3> QED
      BY <1>5, <3>1, <3>2 DEF OfSlot
  <2>2. \E k \in 1 .. Len(rest) : rest[k] = q[j]
    <3> DEFINE m == Len(q)
               w == Len(rest)
    <3>1. m \in Nat /\ i \in 1 .. m /\ j \in 1 .. m /\ j # i /\ w = m - 1
      BY <1>2, <1>5
    <3>2. \A k \in 1 .. m - 1 : rest[k] = IF k < i THEN q[k] ELSE q[k + 1]
      BY <1>2
    <3> HIDE DEF m, w, rest
    <3>3. CASE j < i
      <4>1. j \in 1 .. m - 1
        BY ONLY <3>1, <3>3
      <4>2. rest[j] = q[j] /\ j \in 1 .. w
        BY ONLY <3>1, <3>2, <3>3, <4>1
      <4> QED
        BY ONLY <4>2 DEF w
    <3>4. CASE ~(j < i)
      <4>1. j - 1 \in 1 .. m - 1 /\ ~(j - 1 < i) /\ (j - 1) + 1 = j
        BY ONLY <3>1, <3>4
      <4>2. rest[j - 1] = q[j] /\ j - 1 \in 1 .. w
        BY ONLY <3>1, <3>2, <4>1
      <4> QED
        BY ONLY <4>2 DEF w
    <3> QED
      BY <3>3, <3>4
  <2>3. Count(rest, OfSlot(l)) \in Nat /\ Count(rest, OfSlot(l)) # 0
    BY <1>2, <2>1, <2>2, CountType, CountZero
  <2>4. SeCounts(rest, leak)[l] > 0
    BY <1>0, <2>3 DEF SeCounts
  <2> QED
    BY <1>0, <1>1, <1>3, <2>4
<1>r. r = SeRelease(p, l, 1)
  OBVIOUS
<1> HIDE DEF n, l
<1>6. /\ r \in SePool /\ SeFits(r, [n EXCEPT ![l] = @ - 1], max)
      /\ \A j \in SeSlot : j # l \/ n[l] > 1 => r[j].groups = p[j].groups
      /\ SeHeld(p) => SeHeld(r)
  BY <1>0, <1>1, <1>4, <1>r, ReleaseFacts
<1>7. ASSUME NEW j \in 1 .. Len(q), j # i PROVE SeServed(r, q[j])
  <2>1. q[j] \in SeElement /\ SeServed(p, q[j])
    BY DEF SeRuns
  <2>2. q[j].kind # "tcp" => q[j].slot \in SeSlot
    BY <2>1, SeAssumption DEF SeServed, SeElement, SeSlot
  <2>3. q[j].kind # "tcp" => r[q[j].slot].groups = p[q[j].slot].groups
    BY <1>5, <1>6, <1>7, <2>2
  <2> QED
    BY <2>1, <2>3 DEF SeServed
<1> QED
  BY <1>3, <1>6, <1>7

----------------------------------------------------------------------------
(* The invariant.                                                           *)
SeLinks == {"up", "lost", "rejoined"}
SeTypeOK ==
  /\ seInited \in BOOLEAN /\ seOpen \subseteq SeSessions /\ seMax \in 0 .. SeSlots
  /\ seIface \in [SeSessions -> SePool]
  /\ seElem \in [SeSessions -> Seq(SeElement)]
  /\ seListen \in [SeSessions -> {"none", "listening", "stuck"}]
  /\ seLeaked \in [SeSessions -> [SeSlot -> Nat]]
  /\ seLink \in [SeSessions -> SeLinks]
\* An open session's pool fits its elements; of a closed one only sockets whose users were forgotten are open.
SeFitting ==
  /\ \A s \in seOpen : SeRuns(seIface[s], seElem[s], seLeaked[s], seLink[s], seMax)
  /\ \A s \in SeSessions \ seOpen : \A l \in SeSlot : seIface[s][l].open => seLeaked[s][l] > 0
\* A closed session has no elements.
SeClosed == \A s \in SeSessions \ seOpen : seElem[s] = << >>
SeInv == SeTypeOK /\ SeFitting /\ SeClosed

LEMMA RunsLonger ==
  ASSUME NEW p \in SePool, NEW q, NEW leak, NEW link, NEW max \in 0 .. SeSlots, NEW top \in 0 .. SeSlots,
         max <= top, SeRuns(p, q, leak, link, max)
  PROVE  SeRuns(p, q, leak, link, top)
<1>1. \A l \in SeSlot : l \in Nat
  BY DEF SeSlot
<1>2. max \in Nat /\ top \in Nat
  BY SeAssumption
<1>3. SeFits(p, SeCounts(q, leak), top)
  BY <1>1, <1>2 DEF SeRuns, SeFits
<1> QED
  BY <1>3 DEF SeRuns

\* A call that concerns one open session: what becomes of it
SeListens == [SeSessions -> {"none", "listening", "stuck"}]
SeBecomes(s, p, q, leak, link) ==
  /\ p \in SePool /\ q \in Seq(SeElement) /\ leak \in [SeSlot -> Nat] /\ link \in SeLinks
  /\ UNCHANGED <<seInited, seOpen>> /\ seListen' \in SeListens
  /\ seMax' \in 0 .. SeSlots /\ seMax <= seMax'
  /\ seIface' = [seIface EXCEPT ![s] = p] /\ seElem' = [seElem EXCEPT ![s] = q]
  /\ seLeaked' = [seLeaked EXCEPT ![s] = leak] /\ seLink' = [seLink EXCEPT ![s] = link]
  /\ SeRuns(p, q, leak, link, seMax')

LEMMA OneSession ==
  ASSUME SeInv, NEW s \in seOpen, NEW p, NEW q, NEW leak, NEW link, SeBecomes(s, p, q, leak, link)
  PROVE  SeInv'
<1>0. s \in SeSessions
  BY DEF SeInv, SeTypeOK
<1> USE DEF SeBecomes
<1>1. SeTypeOK'
  BY <1>0 DEF SeInv, SeTypeOK, SeListens
<1>2. ASSUME NEW t \in SeSessions, t # s
      PROVE  seIface'[t] = seIface[t] /\ seElem'[t] = seElem[t] /\ seLeaked'[t] = seLeaked[t] /\ seLink'[t] = seLink[t]
  BY <1>2 DEF SeInv, SeTypeOK
<1>3. seIface'[s] = p /\ seElem'[s] = q /\ seLeaked'[s] = leak /\ seLink'[s] = link
  BY <1>0 DEF SeInv, SeTypeOK
<1>4. ASSUME NEW t \in seOpen PROVE SeRuns(seIface'[t], seElem'[t], seLeaked'[t], seLink'[t], seMax')
  <2>1. t \in SeSessions /\ seMax \in 0 .. SeSlots /\ seIface[t] \in SePool
    BY DEF SeInv, SeTypeOK
  <2>2. CASE t = s
    BY <1>3, <2>2
  <2>3. CASE t # s
    <3>1. SeRuns(seIface[t], seElem[t], seLeaked[t], seLink[t], seMax)
      BY DEF SeInv, SeFitting
    <3> QED
      BY <1>2, <2>1, <2>3, <3>1, RunsLonger
  <2> QED
    BY <2>2, <2>3
<1>5. SeFitting'
  <2>1. \A t \in SeSessions \ seOpen : t # s /\ seIface'[t] = seIface[t] /\ seLeaked'[t] = seLeaked[t]
    BY <1>2
  <2> QED
    BY <1>4, <2>1 DEF SeInv, SeFitting
<1>6. SeClosed'
  BY <1>2 DEF SeInv, SeClosed
<1> QED
  BY <1>1, <1>5, <1>6 DEF SeInv

\* What is known of an open session
LEMMA OpenFacts ==
  ASSUME SeInv, NEW s \in seOpen
  PROVE  /\ s \in SeSessions /\ seIface[s] \in SePool /\ seElem[s] \in Seq(SeElement)
         /\ seLeaked[s] \in [SeSlot -> Nat] /\ seLink[s] \in SeLinks /\ seMax \in 0 .. SeSlots /\ seMax <= seMax
         /\ seIface = [seIface EXCEPT ![s] = seIface[s]] /\ seElem = [seElem EXCEPT ![s] = seElem[s]]
         /\ seLeaked = [seLeaked EXCEPT ![s] = seLeaked[s]] /\ seLink = [seLink EXCEPT ![s] = seLink[s]]
         /\ SeRuns(seIface[s], seElem[s], seLeaked[s], seLink[s], seMax)
         /\ SeFits(seIface[s], SeCounts(seElem[s], seLeaked[s]), seMax)
         /\ SeCounts(seElem[s], seLeaked[s]) \in [SeSlot -> Nat]
<1>1. /\ s \in SeSessions /\ seIface[s] \in SePool /\ seElem[s] \in Seq(SeElement)
      /\ seLeaked[s] \in [SeSlot -> Nat] /\ seLink[s] \in SeLinks /\ seMax \in 0 .. SeSlots
  BY DEF SeInv, SeTypeOK
<1>2. seMax <= seMax
  BY <1>1, SeAssumption
<1>3. /\ seIface = [seIface EXCEPT ![s] = seIface[s]] /\ seElem = [seElem EXCEPT ![s] = seElem[s]]
      /\ seLeaked = [seLeaked EXCEPT ![s] = seLeaked[s]] /\ seLink = [seLink EXCEPT ![s] = seLink[s]]
  BY DEF SeInv, SeTypeOK
<1>4. SeRuns(seIface[s], seElem[s], seLeaked[s], seLink[s], seMax)
  BY DEF SeInv, SeFitting
<1> QED
  BY <1>1, <1>2, <1>3, <1>4, CountsType DEF SeRuns

----------------------------------------------------------------------------
(* Every call keeps the invariant.                                          *)
LEMMA SeStartsRight == SeInit => SeInv
<1> SUFFICES ASSUME SeInit PROVE SeInv
  OBVIOUS
<1>1. SeInitSockets \in SePool /\ \A l \in SeSlot : ~SeInitSockets[l].open
  BY FreeSocket DEF SeInitSockets, SePool
<1>2. << >> \in Seq(SeElement)
  OBVIOUS
<1>3. 0 \in 0 .. SeSlots
  BY SeAssumption
<1>4. SeTypeOK
  BY <1>1, <1>2, <1>3 DEF SeInit, SeTypeOK, SeLinks
<1>5. SeFitting
  BY <1>1 DEF SeInit, SeFitting
<1>6. SeClosed
  BY DEF SeInit, SeClosed
<1> QED
  BY <1>4, <1>5, <1>6 DEF SeInv

LEMMA SeOpenSessionInv == ASSUME SeInv, NEW s \in SeSessions, SeOpenSession(s) PROVE SeInv'
<1> DEFINE zero == [l \in SeSlot |-> 0]
<1>1. SeInitSockets \in SePool /\ \A l \in SeSlot : SeInitSockets[l] = SeFree
  BY FreeSocket DEF SeInitSockets, SePool
<1>2. << >> \in Seq(SeElement) /\ Len(<< >>) = 0 /\ zero \in [SeSlot -> Nat]
  OBVIOUS
<1>3. SeCounts(<< >>, zero) = zero
  BY CountEmpty DEF SeCounts
<1>4. SeRuns(SeInitSockets, << >>, zero, "up", seMax)
  <2>1. SeFits(SeInitSockets, zero, seMax)
    BY <1>1, FreeSocket DEF SeFits
  <2>2. SeHeld(SeInitSockets)
    BY <1>1, FreeSocket DEF SeHeld
  <2> QED
    BY <1>2, <1>3, <2>1, <2>2 DEF SeRuns
<1> HIDE DEF zero
<1>5. /\ seIface' = [seIface EXCEPT ![s] = SeInitSockets] /\ seElem' = [seElem EXCEPT ![s] = << >>]
      /\ seLeaked' = [seLeaked EXCEPT ![s] = zero] /\ seLink' = [seLink EXCEPT ![s] = "up"]
      /\ seListen' = [seListen EXCEPT ![s] = "none"] /\ seOpen' = seOpen \cup {s}
      /\ UNCHANGED <<seInited, seMax>>
  BY DEF SeOpenSession, zero
<1>6. SeTypeOK'
  BY <1>1, <1>2, <1>5 DEF SeInv, SeTypeOK, SeLinks
<1>7. /\ seIface'[s] = SeInitSockets /\ seElem'[s] = << >> /\ seLeaked'[s] = zero /\ seLink'[s] = "up"
      /\ \A t \in SeSessions : t # s => /\ seIface'[t] = seIface[t] /\ seElem'[t] = seElem[t]
                                        /\ seLeaked'[t] = seLeaked[t] /\ seLink'[t] = seLink[t]
  BY <1>5 DEF SeInv, SeTypeOK
<1>8. SeFitting'
  <2>1. ASSUME NEW t \in seOpen' PROVE SeRuns(seIface'[t], seElem'[t], seLeaked'[t], seLink'[t], seMax')
    <3>1. CASE t = s
      BY <1>4, <1>5, <1>7, <3>1
    <3>2. CASE t # s
      <4>1. t \in seOpen /\ t \in SeSessions
        BY <1>5, <3>2 DEF SeInv, SeTypeOK
      <4> QED
        BY <1>5, <1>7, <3>2, <4>1 DEF SeInv, SeFitting
    <3> QED
      BY <3>1, <3>2
  <2>2. ASSUME NEW t \in SeSessions \ seOpen', NEW l \in SeSlot, seIface'[t][l].open PROVE seLeaked'[t][l] > 0
    <3>1. t # s /\ t \notin seOpen
      BY <1>5
    <3> QED
      BY <1>7, <2>2, <3>1 DEF SeInv, SeFitting
  <2> QED
    BY <2>1, <2>2 DEF SeFitting
<1>9. SeClosed'
  BY <1>5, <1>7 DEF SeInv, SeClosed
<1> QED
  BY <1>6, <1>8, <1>9 DEF SeInv

LEMMA UsersAreCounted ==
  ASSUME NEW s, seElem[s] \in Seq(SeElement), NEW l \in SeSlot
  PROVE  /\ SeUsers(s, l, {"pub", "sub", "lis"}) = Count(seElem[s], OfSlot(l))
         /\ SeUsers(s, l, {"pub", "sub", "lis"}) \in Nat /\ SeUsers(s, l, {"pub"}) \in Nat
<1> DEFINE q == seElem[s]
           Pubs == {e \in SeElement : e.slot = l /\ e.kind = "pub"}
<1>1. DOMAIN q = 1 .. Len(q) /\ \A i \in 1 .. Len(q) : q[i] \in SeElement
  OBVIOUS
<1>2. \A e \in SeElement : e \in OfSlot(l) <=> e.slot = l /\ e.kind \in {"pub", "sub", "lis"}
  BY DEF OfSlot, SeElement
<1>3. {i \in DOMAIN q : q[i].slot = l /\ q[i].kind \in {"pub", "sub", "lis"}} = At(q, OfSlot(l))
  BY <1>1, <1>2 DEF At
<1>4. {i \in DOMAIN q : q[i].slot = l /\ q[i].kind \in {"pub"}} = At(q, Pubs)
  BY <1>1 DEF At
<1>5. SeUsers(s, l, {"pub", "sub", "lis"}) = Count(q, OfSlot(l)) /\ SeUsers(s, l, {"pub"}) = Count(q, Pubs)
  BY <1>3, <1>4 DEF SeUsers, Count
<1>6. Count(q, OfSlot(l)) \in Nat /\ Count(q, Pubs) \in Nat
  BY CountType
<1> QED
  BY <1>5, <1>6

\* A session that closes: a socket that stays open has a forgotten user.
LEMMA GiveBackFacts ==
  ASSUME SeInv, NEW s \in seOpen
  PROVE  /\ SeGiveBack(s) \in SePool
         /\ \A l \in SeSlot : SeGiveBack(s)[l].open => seLeaked[s][l] > 0
<1> DEFINE p == seIface[s]
           q == seElem[s]
           all(l) == SeUsers(s, l, {"pub", "sub", "lis"})
           pubs(l) == SeUsers(s, l, {"pub"})
<1>1. /\ s \in SeSessions /\ p \in SePool /\ q \in Seq(SeElement) /\ seLeaked[s] \in [SeSlot -> Nat]
      /\ SeFits(p, SeCounts(q, seLeaked[s]), seMax)
  BY OpenFacts
<1>2. ASSUME NEW l \in SeSlot PROVE all(l) = Count(q, OfSlot(l)) /\ all(l) \in Nat /\ pubs(l) \in Nat
  BY <1>1, UsersAreCounted
<1>3. ASSUME NEW l \in SeSlot
      PROVE  /\ SeGiveBack(s)[l] \in SeSocket
             /\ SeGiveBack(s)[l].open => seLeaked[s][l] > 0
  <2> HIDE DEF p, q, all, pubs
  <2>1. /\ p[l] \in SeSocket /\ p[l].usage = all(l) + seLeaked[s][l] /\ (p[l].open <=> all(l) + seLeaked[s][l] > 0)
    BY <1>1, <1>2 DEF SePool, SeFits, SeCounts
  <2>2. seLeaked[s][l] \in Nat /\ all(l) \in Nat /\ pubs(l) \in Nat
    BY <1>1, <1>2
  <2>3. SeGiveBack(s)[l] = IF all(l) + pubs(l) = 0 THEN p[l] ELSE SeRelease(p, l, all(l) + pubs(l))[l]
    BY DEF SeGiveBack, all, pubs, p
  <2>4. CASE all(l) + pubs(l) = 0
    <3>1. all(l) = 0
      BY <2>2, <2>4
    <3> QED
      BY <2>1, <2>2, <2>3, <2>4, <3>1
  <2>5. CASE all(l) + pubs(l) # 0 /\ ~p[l].open
    BY <2>1, <2>3, <2>5 DEF SeRelease
  <2>6. CASE all(l) + pubs(l) # 0 /\ p[l].open /\ p[l].usage > all(l) + pubs(l)
    <3>1. SeGiveBack(s)[l] = [p[l] EXCEPT !.usage = @ - (all(l) + pubs(l))]
      BY <1>1, <2>3, <2>6 DEF SeRelease, SePool
    <3>2. p[l].usage - (all(l) + pubs(l)) \in Nat /\ seLeaked[s][l] > 0
      BY <2>1, <2>2, <2>6
    <3>3. [p[l] EXCEPT !.usage = @ - (all(l) + pubs(l))] \in SeSocket
      BY <2>1, <3>2 DEF SeSocket
    <3> QED
      BY <3>1, <3>2, <3>3
  <2>7. CASE all(l) + pubs(l) # 0 /\ p[l].open /\ ~(p[l].usage > all(l) + pubs(l))
    <3>1. SeGiveBack(s)[l] = SeFree
      BY <1>1, <2>3, <2>7 DEF SeRelease, SePool
    <3> QED
      BY <3>1, FreeSocket
  <2> QED
    BY <2>4, <2>5, <2>6, <2>7
<1> QED
  BY <1>3 DEF SeGiveBack, SePool

LEMMA SeCloseSessionInv == ASSUME SeInv, NEW s \in SeSessions, SeCloseSession(s) PROVE SeInv'
<1>1. s \in seOpen
  BY DEF SeCloseSession, SeValid
<1>2. SeGiveBack(s) \in SePool /\ \A l \in SeSlot : SeGiveBack(s)[l].open => seLeaked[s][l] > 0
  BY <1>1, GiveBackFacts
<1>3. /\ seIface' = [seIface EXCEPT ![s] = SeGiveBack(s)] /\ seElem' = [seElem EXCEPT ![s] = << >>]
      /\ seListen' = [seListen EXCEPT ![s] = "none"] /\ seOpen' = seOpen \ {s}
      /\ UNCHANGED <<seInited, seMax, seLeaked, seLink>>
  BY DEF SeCloseSession, SeClosing
<1>4. << >> \in Seq(SeElement)
  OBVIOUS
<1>5. SeTypeOK'
  BY <1>2, <1>3, <1>4 DEF SeInv, SeTypeOK
<1>6. /\ seIface'[s] = SeGiveBack(s) /\ seElem'[s] = << >>
      /\ \A t \in SeSessions : t # s => seIface'[t] = seIface[t] /\ seElem'[t] = seElem[t]
  BY <1>3 DEF SeInv, SeTypeOK
<1>7. SeFitting'
  <2>1. ASSUME NEW t \in seOpen' PROVE SeRuns(seIface'[t], seElem'[t], seLeaked'[t], seLink'[t], seMax')
    <3>1. t \in seOpen /\ t \in SeSessions /\ t # s
      BY <1>3 DEF SeInv, SeTypeOK
    <3> QED
      BY <1>3, <1>6, <3>1 DEF SeInv, SeFitting
  <2>2. ASSUME NEW t \in SeSessions \ seOpen', NEW l \in SeSlot, seIface'[t][l].open PROVE seLeaked'[t][l] > 0
    <3>1. CASE t = s
      BY <1>2, <1>3, <1>6, <2>2, <3>1
    <3>2. CASE t # s
      BY <1>3, <1>6, <2>2, <3>2 DEF SeInv, SeFitting
    <3> QED
      BY <3>1, <3>2
  <2> QED
    BY <2>1, <2>2 DEF SeFitting
<1>8. SeClosed'
  BY <1>3, <1>6 DEF SeInv, SeClosed
<1> QED
  BY <1>5, <1>7, <1>8 DEF SeInv

LEMMA SeTerminateInv == ASSUME SeInv, SeTerminate PROVE SeInv'
<1> DEFINE left(s) == IF s \in seOpen THEN SeGiveBack(s) ELSE seIface[s]
<1>1. ASSUME NEW s \in SeSessions
      PROVE  left(s) \in SePool /\ \A l \in SeSlot : left(s)[l].open => seLeaked[s][l] > 0
  <2>1. CASE s \in seOpen
    BY <2>1, GiveBackFacts
  <2>2. CASE s \notin seOpen
    BY <2>2 DEF SeInv, SeTypeOK, SeFitting
  <2> QED
    BY <2>1, <2>2
<1>2. /\ seIface' = [s \in SeSessions |-> left(s)] /\ seElem' = [s \in SeSessions |-> << >>]
      /\ seListen' = [s \in SeSessions |-> "none"] /\ seOpen' = {} /\ seInited' = FALSE
      /\ UNCHANGED <<seMax, seLeaked, seLink>>
  BY DEF SeTerminate, SeClosing
<1> HIDE DEF left
<1>3. << >> \in Seq(SeElement)
  OBVIOUS
<1>4. SeTypeOK'
  BY <1>1, <1>2, <1>3 DEF SeInv, SeTypeOK
<1>5. SeFitting'
  BY <1>1, <1>2 DEF SeFitting
<1>6. SeClosed'
  BY <1>2 DEF SeClosed
<1> QED
  BY <1>4, <1>5, <1>6 DEF SeInv

\* An element that gets a socket, or none; without memory its socket stays counted.
LEMMA SeAddInv ==
  ASSUME SeInv, NEW s \in SeSessions, NEW kind \in {"pub", "sub", "lis"}, NEW g \in SeGroups \cup {SeNone},
         NEW ok \in BOOLEAN, NEW mem \in BOOLEAN, SeAdd(s, kind, g, ok, mem)
  PROVE  SeInv'
<1> DEFINE p == seIface[s]
           q == seElem[s]
           leak == seLeaked[s]
           n == SeCounts(q, leak)
           r == SeRequest(p, SeKind[kind], kind # "pub", g, ok)
           e == [kind |-> kind, group |-> g, slot |-> r.slot, joint |-> g # SeNone]
<1>0. s \in seOpen
  BY DEF SeAdd, SeValid
<1>1. /\ p \in SePool /\ q \in Seq(SeElement) /\ leak \in [SeSlot -> Nat] /\ seLink[s] \in SeLinks
      /\ seMax \in 0 .. SeSlots /\ SeRuns(p, q, leak, seLink[s], seMax) /\ SeFits(p, n, seMax) /\ n \in [SeSlot -> Nat]
      /\ seElem = [seElem EXCEPT ![s] = q] /\ seLeaked = [seLeaked EXCEPT ![s] = leak]
      /\ seLink = [seLink EXCEPT ![s] = seLink[s]]
  BY <1>0, OpenFacts
<1>2. SeKind[kind] \in {"pd", "md"} /\ (kind # "pub") \in BOOLEAN
  BY DEF SeKind
<1>3. /\ seMax' = r.max /\ seIface' = [seIface EXCEPT ![s] = r.iface]
      /\ seElem' = (IF r.slot # 0 /\ mem THEN [seElem EXCEPT ![s] = Append(@, e)] ELSE seElem)
      /\ seLeaked' = (IF r.slot # 0 /\ ~mem THEN [seLeaked EXCEPT ![s][r.slot] = @ + 1] ELSE seLeaked)
      /\ UNCHANGED <<seInited, seOpen, seListen, seLink>>
  BY DEF SeAdd, SeSetPool
<1> HIDE DEF n, p, q, leak
<1>4. SeGets(p, n, g, r)
  <2> DEFINE type == SeKind[kind]
             rcv == kind # "pub"
  <2>1. type \in {"pd", "md"} /\ rcv \in BOOLEAN /\ r = SeRequest(p, type, rcv, g, ok)
    BY <1>2
  <2> HIDE DEF type, rcv, r
  <2> QED
    BY <1>1, <2>1, RequestFacts
<1> HIDE DEF r
<1> USE DEF SeGets
<1>5. seListen' \in SeListens /\ seMax <= r.max /\ r.max \in 0 .. SeSlots
  BY <1>1, <1>3, <1>4, SeAssumption DEF SeInv, SeTypeOK, SeListens
<1>6. CASE r.slot = 0
  <2>1. r.iface = p /\ seElem' = seElem /\ seLeaked' = seLeaked
    BY <1>3, <1>4, <1>6 DEF SeSlot
  <2>2. SeRuns(p, q, leak, seLink[s], r.max)
    BY <1>1, <1>5, RunsLonger
  <2>b. SeBecomes(s, p, q, leak, seLink[s])
    BY <1>1, <1>3, <1>5, <2>1, <2>2 DEF SeBecomes
  <2> QED
    BY <1>0, <2>b, OneSession
<1>7. CASE r.slot # 0
  <2>0. /\ r.slot \in SeSlot /\ SeFits(r.iface, [n EXCEPT ![r.slot] = @ + 1], r.max)
        /\ \A l \in SeSlot : p[l].groups \subseteq r.iface[l].groups
        /\ g # SeNone => g \in r.iface[r.slot].groups
    BY <1>4, <1>7
  <2>1. \A i \in 1 .. Len(q) : SeServed(r.iface, q[i])
    <3> TAKE i \in 1 .. Len(q)
    <3>1. q[i] \in SeElement /\ SeServed(p, q[i])
      BY <1>1 DEF SeRuns
    <3>2. q[i].kind # "tcp" => q[i].slot \in SeSlot
      BY <3>1, SeAssumption DEF SeServed, SeElement, SeSlot
    <3> QED
      BY <2>0, <3>1, <3>2 DEF SeServed
  <2>2. seLink[s] = "up" => SeHeld(r.iface)
    BY <1>1, <1>4 DEF SeRuns
  <2>3. CASE mem
    <3>1. e \in SeElement /\ e.slot = r.slot /\ e.kind = kind /\ e.group = g
      BY <2>0 DEF SeElement, SeSlot
    <3> HIDE DEF e
    <3>2. /\ Append(q, e) \in Seq(SeElement) /\ Len(Append(q, e)) = Len(q) + 1
          /\ Append(q, e)[Len(q) + 1] = e /\ \A i \in 1 .. Len(q) : Append(q, e)[i] = q[i]
      BY <1>1, <3>1, AppendProperties
    <3>3. SeCounts(Append(q, e), leak) = [n EXCEPT ![r.slot] = @ + 1]
      BY <1>1, <2>0, <3>1, CountsAppend DEF n
    <3>4. SeServed(r.iface, e)
      BY <2>0, <3>1 DEF SeServed, SeSlot
    <3>5. \A i \in 1 .. Len(Append(q, e)) : SeServed(r.iface, Append(q, e)[i])
      BY <1>1, <2>1, <3>2, <3>4
    <3>6. SeRuns(r.iface, Append(q, e), leak, seLink[s], r.max)
      BY <2>0, <2>2, <3>3, <3>5 DEF SeRuns
    <3>7. seElem' = [seElem EXCEPT ![s] = Append(q, e)] /\ seLeaked' = seLeaked
      BY <1>3, <1>7, <2>3 DEF q
    <3>b. SeBecomes(s, r.iface, Append(q, e), leak, seLink[s])
      BY <1>1, <1>3, <1>4, <1>5, <3>2, <3>6, <3>7 DEF SeBecomes
    <3> QED
      BY <1>0, <3>b, OneSession
  <2>4. CASE ~mem
    <3> DEFINE more == [leak EXCEPT ![r.slot] = @ + 1]
    <3>1. more \in [SeSlot -> Nat] /\ SeCounts(q, more) = [n EXCEPT ![r.slot] = @ + 1]
      <4>0. \A l \in SeSlot : SeCounts(q, [leak EXCEPT ![l] = @ + 1]) = [n EXCEPT ![l] = @ + 1]
        BY <1>1, CountsLeak DEF n
      <4>1. SeCounts(q, more) = [n EXCEPT ![r.slot] = @ + 1]
        BY <2>0, <4>0
      <4>2. leak[r.slot] + 1 \in Nat
        BY <1>1, <2>0
      <4> QED
        BY <1>1, <2>0, <4>1, <4>2
    <3>2. seElem' = seElem /\ seLeaked' = [seLeaked EXCEPT ![s] = more]
      BY <1>3, <1>7, <2>4 DEF leak
    <3> HIDE DEF more
    <3>3. SeRuns(r.iface, q, more, seLink[s], r.max)
      BY <2>0, <2>1, <2>2, <3>1 DEF SeRuns
    <3>b. SeBecomes(s, r.iface, q, more, seLink[s])
      BY <1>1, <1>3, <1>4, <1>5, <3>1, <3>2, <3>3 DEF SeBecomes
    <3> QED
      BY <1>0, <3>b, OneSession
  <2> QED
    BY <2>3, <2>4
<1> QED
  BY <1>6, <1>7

LEMMA SeAddListenerTcpInv == ASSUME SeInv, NEW s \in SeSessions, SeAddListenerTcp(s) PROVE SeInv'
<1> DEFINE p == seIface[s]
           q == seElem[s]
           leak == seLeaked[s]
           e == [kind |-> "tcp", group |-> SeNone, slot |-> 0, joint |-> FALSE]
<1>0. s \in seOpen
  BY DEF SeAddListenerTcp, SeValid
<1>1. /\ p \in SePool /\ q \in Seq(SeElement) /\ leak \in [SeSlot -> Nat] /\ seLink[s] \in SeLinks
      /\ seMax \in 0 .. SeSlots /\ seMax <= seMax /\ SeRuns(p, q, leak, seLink[s], seMax)
      /\ seIface = [seIface EXCEPT ![s] = p] /\ seElem = [seElem EXCEPT ![s] = q]
      /\ seLeaked = [seLeaked EXCEPT ![s] = leak] /\ seLink = [seLink EXCEPT ![s] = seLink[s]]
  BY <1>0, OpenFacts
<1>2. e \in SeElement /\ e.kind = "tcp" /\ e.slot = 0 /\ e.group = SeNone
  BY SeAssumption DEF SeElement
<1>3. /\ UNCHANGED <<seInited, seOpen, seMax, seIface, seLeaked, seLink>>
      /\ seElem' = seElem \/ seElem' = [seElem EXCEPT ![s] = Append(@, e)]
  BY DEF SeAddListenerTcp
<1>4. seListen' \in SeListens
  <2>1. seListen \in [SeSessions -> {"none", "listening", "stuck"}]
    BY DEF SeInv, SeTypeOK
  <2>2. CASE \E st \in {"none", "stuck"} : seListen' = [seListen EXCEPT ![s] = st]
    BY <2>1, <2>2 DEF SeListens
  <2>3. CASE seListen' = [seListen EXCEPT ![s] = IF @ = "none" THEN "listening" ELSE @]
    BY <2>1, <2>3 DEF SeListens
  <2> QED
    BY <2>2, <2>3 DEF SeAddListenerTcp, SeListens
<1>5. CASE seElem' = seElem
  <2> HIDE DEF p, q, leak
  <2>b. SeBecomes(s, p, q, leak, seLink[s])
    BY <1>1, <1>3, <1>4, <1>5 DEF SeBecomes
  <2> QED
    BY <1>0, <2>b, OneSession
<1>6. CASE seElem' = [seElem EXCEPT ![s] = Append(q, e)]
  <2> HIDE DEF p, q, leak, e
  <2>1. /\ Append(q, e) \in Seq(SeElement) /\ Len(Append(q, e)) = Len(q) + 1
        /\ Append(q, e)[Len(q) + 1] = e /\ \A i \in 1 .. Len(q) : Append(q, e)[i] = q[i]
    BY <1>1, <1>2, AppendProperties
  <2>2. SeCounts(Append(q, e), leak) = SeCounts(q, leak)
    BY <1>1, <1>2, CountsAppendTcp
  <2>3. SeServed(p, e)
    BY <1>2 DEF SeServed
  <2>4. \A i \in 1 .. Len(Append(q, e)) : SeServed(p, Append(q, e)[i])
    BY <1>1, <2>1, <2>3 DEF SeRuns
  <2>5. SeRuns(p, Append(q, e), leak, seLink[s], seMax)
    BY <1>1, <2>2, <2>4 DEF SeRuns
  <2>b. SeBecomes(s, p, Append(q, e), leak, seLink[s])
    BY <1>1, <1>3, <1>4, <1>6, <2>1, <2>5 DEF SeBecomes
  <2> QED
    BY <1>0, <2>b, OneSession
<1> QED
  BY <1>3, <1>5, <1>6

LEMMA SeRemoveInv == ASSUME SeInv, NEW s \in SeSessions, SeRemove(s) PROVE SeInv'
<1> DEFINE p == seIface[s]
           q == seElem[s]
           leak == seLeaked[s]
<1>0. s \in seOpen
  BY DEF SeRemove, SeValid
<1>1. /\ p \in SePool /\ q \in Seq(SeElement) /\ leak \in [SeSlot -> Nat] /\ seLink[s] \in SeLinks
      /\ seMax \in 0 .. SeSlots /\ seMax <= seMax /\ SeRuns(p, q, leak, seLink[s], seMax)
      /\ seIface = [seIface EXCEPT ![s] = p] /\ seElem = [seElem EXCEPT ![s] = q]
      /\ seLeaked = [seLeaked EXCEPT ![s] = leak] /\ seLink = [seLink EXCEPT ![s] = seLink[s]]
  BY <1>0, OpenFacts
<1>2. PICK i \in DOMAIN q :
        /\ seElem' = [seElem EXCEPT ![s] = RemoveAt(q, i)]
        /\ seIface' = IF q[i].slot = 0 THEN seIface ELSE [seIface EXCEPT ![s] = SeRelease(p, q[i].slot, 1)]
        /\ UNCHANGED <<seInited, seOpen, seMax, seListen, seLeaked, seLink>>
  BY DEF SeRemove
<1> HIDE DEF p, q, leak
<1>3. i \in 1 .. Len(q) /\ SeServed(p, q[i])
  BY <1>1 DEF SeRuns
<1>4. /\ RemoveAt(q, i) \in Seq(SeElement) /\ Len(RemoveAt(q, i)) = Len(q) - 1
      /\ \A j \in 1 .. Len(q) - 1 : RemoveAt(q, i)[j] = IF j < i THEN q[j] ELSE q[j + 1]
  BY <1>1, <1>3, RemovedFacts
<1>5. \A j \in 1 .. Len(RemoveAt(q, i)) : \E k \in 1 .. Len(q) : k # i /\ RemoveAt(q, i)[j] = q[k]
  <2> TAKE j \in 1 .. Len(RemoveAt(q, i))
  <2>1. CASE j < i
    BY <1>1, <1>3, <1>4, <2>1
  <2>2. CASE ~(j < i)
    <3>1. j + 1 \in 1 .. Len(q) /\ j + 1 # i /\ RemoveAt(q, i)[j] = q[j + 1]
      BY <1>1, <1>3, <1>4, <2>2
    <3> QED
      BY <3>1
  <2> QED
    BY <2>1, <2>2
<1>6. seListen' \in SeListens
  BY <1>2 DEF SeInv, SeTypeOK, SeListens
<1>7. CASE q[i].kind = "tcp"
  <2>1. seIface' = seIface
    BY <1>2, <1>3, <1>7 DEF SeServed
  <2>2. SeCounts(RemoveAt(q, i), leak) = SeCounts(q, leak)
    BY <1>1, <1>3, <1>7, CountsRemoveTcp
  <2>3. SeRuns(p, RemoveAt(q, i), leak, seLink[s], seMax)
    BY <1>1, <1>5, <2>2 DEF SeRuns
  <2>b. SeBecomes(s, p, RemoveAt(q, i), leak, seLink[s])
    BY <1>1, <1>2, <1>4, <1>6, <2>1, <2>3 DEF SeBecomes
  <2> QED
    BY <1>0, <2>b, OneSession
<1>8. CASE q[i].kind # "tcp"
  <2> DEFINE r == SeRelease(p, q[i].slot, 1)
  <2>1. seIface' = [seIface EXCEPT ![s] = r]
    BY <1>2, <1>3, <1>8 DEF SeServed
  <2>2. /\ r \in SePool /\ SeFits(r, SeCounts(RemoveAt(q, i), leak), seMax)
        /\ \A j \in 1 .. Len(q) : j # i => SeServed(r, q[j])
        /\ SeHeld(p) => SeHeld(r)
    BY <1>1, <1>3, <1>8, LeaveFacts
  <2> HIDE DEF r
  <2>3. SeRuns(r, RemoveAt(q, i), leak, seLink[s], seMax)
    BY <1>1, <1>5, <2>2 DEF SeRuns
  <2>b. SeBecomes(s, r, RemoveAt(q, i), leak, seLink[s])
    BY <1>1, <1>2, <1>4, <1>6, <2>1, <2>2, <2>3 DEF SeBecomes
  <2> QED
    BY <1>0, <2>b, OneSession
<1> QED
  BY <1>7, <1>8

LEMMA MovedFacts ==
  ASSUME NEW e \in SeElement, e.kind # "tcp", NEW g \in SeGroups, NEW l \in SeSlot, NEW f, f = SeMoved(e, g, l)
  PROVE  f \in SeElement /\ f.group = g /\ f.slot = l /\ f.kind # "tcp"
<1>1. l \in 0 .. SeSlots /\ g \in SeGroups \cup {SeNone}
  BY SeAssumption DEF SeSlot
<1>2. e.kind \in {"pub", "sub", "lis"} /\ e.joint \in BOOLEAN
  BY DEF SeElement
<1> QED
  BY <1>1, <1>2 DEF SeElement, SeMoved

\* An element moves to another group: its socket is given back, then one for the group is asked for.
LEMMA SeMoveInv == ASSUME SeInv, NEW s \in SeSessions, SeMove(s) PROVE SeInv'
<1> DEFINE p == seIface[s]
           q == seElem[s]
           leak == seLeaked[s]
<1>0. s \in seOpen
  BY DEF SeMove, SeValid
<1>1. /\ p \in SePool /\ q \in Seq(SeElement) /\ leak \in [SeSlot -> Nat] /\ seLink[s] \in SeLinks
      /\ seMax \in 0 .. SeSlots /\ seMax <= seMax /\ SeRuns(p, q, leak, seLink[s], seMax)
      /\ seIface = [seIface EXCEPT ![s] = p] /\ seElem = [seElem EXCEPT ![s] = q]
      /\ seLeaked = [seLeaked EXCEPT ![s] = leak] /\ seLink = [seLink EXCEPT ![s] = seLink[s]]
  BY <1>0, OpenFacts
<1>2. PICK i \in DOMAIN q, g \in SeGroups, ok \in BOOLEAN :
        LET e == q[i]
            req == SeRequest(SeRelease(p, e.slot, 1), SeKind[e.kind], TRUE, g, ok)
        IN  /\ e.kind \in {"sub", "lis"} /\ g # e.group
            /\ SeSetPool(s, req)
            /\ seElem' = [seElem EXCEPT ![s] = IF req.slot = 0 THEN RemoveAt(@, i)
                            ELSE ReplaceAt(@, i, SeMoved(e, g, req.slot))]
            /\ UNCHANGED <<seInited, seOpen, seListen, seLeaked, seLink>>
  BY DEF SeMove
<1> DEFINE p1 == SeRelease(p, q[i].slot, 1)
           type == SeKind[q[i].kind]
           r == SeRequest(p1, type, TRUE, g, ok)
           q1 == RemoveAt(q, i)
           n == SeCounts(q1, leak)
           e2 == SeMoved(q[i], g, r.slot)
<1>3. /\ q[i].kind \in {"sub", "lis"} /\ seMax' = r.max /\ seIface' = [seIface EXCEPT ![s] = r.iface]
      /\ seElem' = [seElem EXCEPT ![s] = IF r.slot = 0 THEN q1 ELSE ReplaceAt(q, i, e2)]
      /\ UNCHANGED <<seInited, seOpen, seListen, seLeaked, seLink>>
  BY <1>2 DEF SeSetPool
<1> HIDE DEF p, q, leak
<1>4. i \in 1 .. Len(q) /\ q[i] \in SeElement
  BY <1>1
<1>5. /\ p1 \in SePool /\ SeFits(p1, n, seMax)
      /\ \A j \in 1 .. Len(q) : j # i => SeServed(p1, q[j])
      /\ SeHeld(p) => SeHeld(p1)
  <2>1. q[i].kind # "tcp" /\ p1 = SeRelease(p, q[i].slot, 1)
    BY <1>3
  <2> HIDE DEF p1
  <2>2. /\ p1 \in SePool /\ SeFits(p1, SeCounts(RemoveAt(q, i), leak), seMax)
        /\ \A j \in 1 .. Len(q) : j # i => SeServed(p1, q[j])
        /\ SeHeld(p) => SeHeld(p1)
    BY <1>1, <1>4, <2>1, LeaveFacts
  <2> QED
    BY <2>2
<1>6. /\ q1 \in Seq(SeElement) /\ Len(q1) = Len(q) - 1
      /\ \A j \in 1 .. Len(q) - 1 : q1[j] = IF j < i THEN q[j] ELSE q[j + 1]
  BY <1>1, <1>4, RemovedFacts
<1>7. n \in [SeSlot -> Nat]
  BY <1>1, <1>6, CountsType
<1>8. type \in {"pd", "md"}
  BY <1>3 DEF SeKind
<1> HIDE DEF p1, q1, n, type
<1>9. SeGets(p1, n, g, r)
  <2>1. g \in SeGroups \cup {SeNone} /\ TRUE \in BOOLEAN /\ ok \in BOOLEAN
    OBVIOUS
  <2>2. r = SeRequest(p1, type, TRUE, g, ok)
    OBVIOUS
  <2> HIDE DEF r
  <2> QED
    BY <1>1, <1>5, <1>7, <1>8, <2>1, <2>2, RequestFacts
<1> HIDE DEF r
<1>10. /\ r.max \in 0 .. SeSlots /\ seMax <= r.max /\ r.iface \in SePool
       /\ seListen' \in SeListens
       /\ seLink[s] = "up" => SeHeld(r.iface)
  <2>1. r.max \in 0 .. SeSlots /\ r.max >= seMax /\ r.iface \in SePool /\ (SeHeld(p1) => SeHeld(r.iface))
    BY <1>9 DEF SeGets
  <2>2. seListen' \in SeListens
    BY <1>3 DEF SeInv, SeTypeOK, SeListens
  <2>3. seLink[s] = "up" => SeHeld(p)
    BY <1>1 DEF SeRuns
  <2> QED
    BY <1>1, <1>5, <2>1, <2>2, <2>3, SeAssumption
<1>11. CASE r.slot = 0
  <2>1. r.iface = p1
    BY <1>9, <1>11 DEF SeGets, SeSlot
  <2>2. \A j \in 1 .. Len(q1) : SeServed(p1, q1[j])
    <3> TAKE j \in 1 .. Len(q1)
    <3>1. CASE j < i
      BY <1>1, <1>4, <1>5, <1>6, <3>1
    <3>2. CASE ~(j < i)
      <4>1. j + 1 \in 1 .. Len(q) /\ j + 1 # i /\ q1[j] = q[j + 1]
        BY <1>1, <1>4, <1>6, <3>2
      <4> QED
        BY <1>5, <4>1
    <3> QED
      BY <3>1, <3>2
  <2>3. SeFits(p1, n, r.max)
    <3>1. \A l \in SeSlot : l \in Nat
      BY DEF SeSlot
    <3> QED
      BY <1>1, <1>5, <1>10, <3>1, SeAssumption DEF SeFits
  <2>4. SeRuns(r.iface, q1, leak, seLink[s], r.max)
    BY <1>10, <2>1, <2>2, <2>3 DEF SeRuns, n
  <2>b. SeBecomes(s, r.iface, q1, leak, seLink[s])
    BY <1>1, <1>3, <1>6, <1>10, <1>11, <2>4 DEF SeBecomes
  <2> QED
    BY <1>0, <2>b, OneSession
<1>12. CASE r.slot # 0
  <2> DEFINE q2 == ReplaceAt(q, i, e2)
  <2>1. /\ r.slot \in SeSlot /\ SeFits(r.iface, [n EXCEPT ![r.slot] = @ + 1], r.max)
        /\ \A l \in SeSlot : p1[l].groups \subseteq r.iface[l].groups
        /\ g \in r.iface[r.slot].groups
    <3>1. g # SeNone
      BY SeAssumption DEF SeNone
    <3> QED
      BY <1>9, <1>12, <3>1 DEF SeGets
  <2>2. /\ e2 \in SeElement /\ e2.slot = r.slot /\ e2.kind # "tcp" /\ e2.group = g
    <3>1. q[i].kind # "tcp"
      BY <1>3
    <3>2. e2 = SeMoved(q[i], g, r.slot)
      OBVIOUS
    <3> HIDE DEF e2
    <3> QED
      BY <1>4, <2>1, <3>1, <3>2, MovedFacts
  <2> HIDE DEF e2
  <2>3. q2 \in Seq(SeElement) /\ Len(q2) = Len(q) /\ q2[i] = e2 /\ \A j \in 1 .. Len(q) : j # i => q2[j] = q[j]
    BY <1>1, <1>4, <2>2 DEF ReplaceAt
  <2>4. SeCounts(q2, leak) = [n EXCEPT ![r.slot] = @ + 1]
    <3>1. e2.slot \in SeSlot
      BY <2>1, <2>2
    <3>2. SeCounts(ReplaceAt(q, i, e2), leak) = [SeCounts(RemoveAt(q, i), leak) EXCEPT ![e2.slot] = @ + 1]
      <4>1. q \in Seq(SeElement) /\ leak \in [SeSlot -> Nat] /\ i \in 1 .. Len(q)
        BY <1>1, <1>4
      <4>2. e2 \in SeElement /\ e2.slot \in SeSlot /\ e2.kind # "tcp"
        BY <2>2, <3>1
      <4> QED
        BY <4>1, <4>2, CountsMove
    <3> QED
      BY <2>2, <3>1, <3>2 DEF n, q1, q2
  <2> HIDE DEF q2
  <2>5. \A j \in 1 .. Len(q2) : SeServed(r.iface, q2[j])
    <3> TAKE j \in 1 .. Len(q2)
    <3>1. CASE j = i
      BY <2>1, <2>2, <2>3, <3>1, SeAssumption DEF SeServed, SeSlot
    <3>2. CASE j # i
      <4>1. q[j] \in SeElement /\ SeServed(p1, q[j]) /\ q2[j] = q[j]
        BY <1>1, <1>5, <2>3, <3>2
      <4>2. q[j].kind # "tcp" => q[j].slot \in SeSlot
        BY <4>1, SeAssumption DEF SeServed, SeElement, SeSlot
      <4> QED
        BY <2>1, <4>1, <4>2 DEF SeServed
    <3> QED
      BY <3>1, <3>2
  <2>6. SeRuns(r.iface, q2, leak, seLink[s], r.max)
    BY <1>10, <2>1, <2>4, <2>5 DEF SeRuns
  <2>7. seElem' = [seElem EXCEPT ![s] = q2]
    BY <1>3, <1>12 DEF q2
  <2>b. SeBecomes(s, r.iface, q2, leak, seLink[s])
    BY <1>1, <1>3, <1>10, <2>3, <2>6, <2>7 DEF SeBecomes
  <2> QED
    BY <1>0, <2>b, OneSession
<1> QED
  BY <1>11, <1>12

LEMMA SeMoveUnicastInv == ASSUME SeInv, NEW s \in SeSessions, SeMoveUnicast(s) PROVE SeInv'
<1> DEFINE p == seIface[s]
           q == seElem[s]
           leak == seLeaked[s]
<1>0. s \in seOpen
  BY DEF SeMoveUnicast, SeValid
<1>1. /\ p \in SePool /\ q \in Seq(SeElement) /\ leak \in [SeSlot -> Nat] /\ seLink[s] \in SeLinks
      /\ seMax \in 0 .. SeSlots /\ seMax <= seMax /\ SeRuns(p, q, leak, seLink[s], seMax)
      /\ seIface = [seIface EXCEPT ![s] = p] /\ seElem = [seElem EXCEPT ![s] = q]
      /\ seLeaked = [seLeaked EXCEPT ![s] = leak] /\ seLink = [seLink EXCEPT ![s] = seLink[s]]
  BY <1>0, OpenFacts
<1>2. PICK i \in DOMAIN q :
        /\ seElem' = [seElem EXCEPT ![s][i].group = SeNone]
        /\ UNCHANGED <<seInited, seOpen, seMax, seIface, seListen, seLeaked, seLink>>
  BY DEF SeMoveUnicast
<1> DEFINE e == [q[i] EXCEPT !.group = SeNone]
           q2 == [q EXCEPT ![i] = e]
<1>3. seElem' = [seElem EXCEPT ![s] = q2]
  BY <1>2
<1> HIDE DEF p, q, leak
<1>4. i \in 1 .. Len(q) /\ q[i] \in SeElement /\ SeServed(p, q[i])
  BY <1>1 DEF SeRuns
<1>5. e \in SeElement /\ e.slot = q[i].slot /\ e.kind = q[i].kind /\ e.group = SeNone
  BY <1>4 DEF SeElement
<1> HIDE DEF e
<1>6. q2 \in Seq(SeElement) /\ Len(q2) = Len(q) /\ q2[i] = e /\ \A j \in 1 .. Len(q) : j # i => q2[j] = q[j]
  BY <1>1, <1>4, <1>5
<1>7. SeCounts(q2, leak) = SeCounts(q, leak)
  BY <1>1, <1>4, <1>5, CountsReplace
<1> HIDE DEF q2
<1>8. \A j \in 1 .. Len(q2) : SeServed(p, q2[j])
  <2> TAKE j \in 1 .. Len(q2)
  <2>1. CASE j = i
    BY <1>4, <1>5, <1>6, <2>1 DEF SeServed
  <2>2. CASE j # i
    BY <1>1, <1>6, <2>2 DEF SeRuns
  <2> QED
    BY <2>1, <2>2
<1>9. SeRuns(p, q2, leak, seLink[s], seMax)
  BY <1>1, <1>7, <1>8 DEF SeRuns
<1>10. seListen' \in SeListens
  BY <1>2 DEF SeInv, SeTypeOK, SeListens
<1>b. SeBecomes(s, p, q2, leak, seLink[s])
  BY <1>1, <1>2, <1>3, <1>6, <1>9, <1>10 DEF SeBecomes
<1> QED
  BY <1>0, <1>b, OneSession

\* The kernel's groups change, and the link is no longer up: the pool's own books stay.
LEMMA KernelOnly ==
  ASSUME SeInv, NEW s \in seOpen, NEW heard \in [SeSlot -> SUBSET SeGroups], NEW link \in SeLinks, link # "up",
         seIface' = [seIface EXCEPT ![s] = [l \in SeSlot |-> [seIface[s][l] EXCEPT !.kernel = heard[l]]]],
         seLink' = [seLink EXCEPT ![s] = link],
         UNCHANGED <<seInited, seOpen, seMax, seElem, seListen, seLeaked>>,
         \A l \in SeSlot : ~seIface[s][l].open => heard[l] = {}
  PROVE  SeInv'
<1> DEFINE p == seIface[s]
           q == seElem[s]
           leak == seLeaked[s]
           k(l) == [p[l] EXCEPT !.kernel = heard[l]]
           p2 == [l \in SeSlot |-> k(l)]
<1>1. /\ p \in SePool /\ q \in Seq(SeElement) /\ leak \in [SeSlot -> Nat] /\ seLink[s] \in SeLinks
      /\ seMax \in 0 .. SeSlots /\ seMax <= seMax /\ SeRuns(p, q, leak, seLink[s], seMax)
      /\ seIface = [seIface EXCEPT ![s] = p] /\ seElem = [seElem EXCEPT ![s] = q]
      /\ seLeaked = [seLeaked EXCEPT ![s] = leak] /\ seLink = [seLink EXCEPT ![s] = seLink[s]]
  BY OpenFacts
<1>2. seIface' = [seIface EXCEPT ![s] = p2] /\ \A l \in SeSlot : ~p[l].open => heard[l] = {}
  OBVIOUS
<1> HIDE DEF p, q, leak
<1>3. ASSUME NEW l \in SeSlot
      PROVE  /\ k(l) \in SeSocket /\ k(l).open = p[l].open /\ k(l).usage = p[l].usage /\ k(l).groups = p[l].groups
             /\ p[l] = SeFree /\ heard[l] = {} => k(l) = SeFree
  <2>1. p[l] \in SeSocket /\ heard[l] \in SUBSET SeGroups
    BY <1>1 DEF SePool
  <2>2. k(l) \in SeSocket /\ k(l).open = p[l].open /\ k(l).usage = p[l].usage /\ k(l).groups = p[l].groups
    BY <2>1 DEF SeSocket
  <2>3. p[l] = SeFree /\ heard[l] = {} => k(l) = SeFree
    <3>1. SeFree \in SeSocket /\ SeFree.kernel = {}
      BY FreeSocket
    <3>2. [SeFree EXCEPT !.kernel = {}] = SeFree
      BY <3>1 DEF SeSocket
    <3> QED
      BY <3>2
  <2> QED
    BY <2>2, <2>3
<1> HIDE DEF k
<1>4. p2 \in SePool /\ \A l \in SeSlot : p2[l] = k(l)
  BY <1>3 DEF SePool
<1> HIDE DEF p2
<1>5. SeFits(p2, SeCounts(q, leak), seMax)
  BY <1>1, <1>2, <1>3, <1>4 DEF SeRuns, SeFits
<1>6. \A j \in 1 .. Len(q) : SeServed(p2, q[j])
  <2> TAKE j \in 1 .. Len(q)
  <2>1. q[j] \in SeElement /\ SeServed(p, q[j])
    BY <1>1 DEF SeRuns
  <2>2. q[j].kind # "tcp" => q[j].slot \in SeSlot
    BY <2>1, SeAssumption DEF SeServed, SeElement, SeSlot
  <2> QED
    BY <1>3, <1>4, <2>1, <2>2 DEF SeServed
<1>7. SeRuns(p2, q, leak, link, seMax)
  BY <1>5, <1>6 DEF SeRuns
<1>8. seListen' \in SeListens
  BY DEF SeInv, SeTypeOK, SeListens
<1>b. SeBecomes(s, p2, q, leak, link)
  BY <1>1, <1>2, <1>4, <1>7, <1>8 DEF SeBecomes
<1> QED
  BY <1>b, OneSession

LEMMA SeLinkLostInv == ASSUME SeInv, NEW s \in SeSessions, SeLinkLost(s) PROVE SeInv'
<1> DEFINE heard == [l \in SeSlot |-> {}]
<1>0. s \in seOpen
  BY DEF SeLinkLost, SeValid
<1>1. seIface' = [seIface EXCEPT ![s] = [l \in SeSlot |-> [seIface[s][l] EXCEPT !.kernel = heard[l]]]]
  BY <1>0, OpenFacts DEF SeLinkLost
<1>2. heard \in [SeSlot -> SUBSET SeGroups] /\ \A l \in SeSlot : heard[l] = {}
  OBVIOUS
<1> HIDE DEF heard
<1>3. /\ seLink' = [seLink EXCEPT ![s] = "lost"] /\ "lost" \in SeLinks /\ "lost" # "up"
      /\ UNCHANGED <<seInited, seOpen, seMax, seElem, seListen, seLeaked>>
  BY DEF SeLinkLost, SeLinks
<1> QED
  BY <1>0, <1>1, <1>2, <1>3, KernelOnly

LEMMA SeReinitInv == ASSUME SeInv, NEW s \in SeSessions, SeReinit(s) PROVE SeInv'
<1> DEFINE heard == [l \in SeSlot |-> seIface[s][l].kernel \cup SeJoins(s, l)]
<1>0. s \in seOpen
  BY DEF SeReinit, SeValid
<1>1. /\ seIface[s] \in SePool /\ seElem[s] \in Seq(SeElement) /\ s \in SeSessions
      /\ SeRuns(seIface[s], seElem[s], seLeaked[s], seLink[s], seMax)
  BY <1>0, OpenFacts
<1>2. seIface' = [seIface EXCEPT ![s] = [l \in SeSlot |-> [seIface[s][l] EXCEPT !.kernel = heard[l]]]]
  BY <1>1 DEF SeReinit
<1>3. ASSUME NEW l \in SeSlot
      PROVE  heard[l] \in SUBSET SeGroups /\ (~seIface[s][l].open => heard[l] = {})
  <2>1. \A d \in Range(seElem[s]) : d \in SeElement /\ SeServed(seIface[s], d)
    BY <1>1 DEF Range, SeRuns
  <2>2. seIface[s][l] \in SeSocket
    BY <1>1 DEF SePool
  <2>3. SeJoins(s, l) \in SUBSET SeGroups
    BY <2>1 DEF SeElement, SeJoins
  <2>4. seIface[s][l] = SeFree => SeJoins(s, l) = {}
    BY <2>1, FreeSocket DEF SeServed, SeJoins
  <2>5. ~seIface[s][l].open => seIface[s][l] = SeFree
    BY <1>1 DEF SeRuns, SeFits
  <2>6. heard[l] = seIface[s][l].kernel \cup SeJoins(s, l)
    OBVIOUS
  <2> HIDE DEF heard
  <2> QED
    BY <2>2, <2>3, <2>4, <2>5, <2>6, FreeSocket DEF SeSocket
<1>4. heard \in [SeSlot -> SUBSET SeGroups]
  BY <1>3
<1> HIDE DEF heard
<1>5. /\ seLink' = [seLink EXCEPT ![s] = "rejoined"] /\ "rejoined" \in SeLinks /\ "rejoined" # "up"
      /\ UNCHANGED <<seInited, seOpen, seMax, seElem, seListen, seLeaked>>
  BY DEF SeReinit, SeLinks
<1> QED
  BY <1>0, <1>2, <1>3, <1>4, <1>5, KernelOnly

LEMMA SeNextInv == ASSUME SeInv, [SeNext]_seVars PROVE SeInv'
<1>1. CASE SeTlcInit
  BY <1>1 DEF SeTlcInit, SeInv, SeTypeOK, SeFitting, SeClosed
<1>2. CASE SeTerminate
  BY <1>2, SeTerminateInv
<1>3. ASSUME NEW s \in SeSessions, SePublish(s) \/ SeSubscribe(s) \/ SeAddListener(s) PROVE SeInv'
  <2>1. SeNone \in SeGroups \cup {SeNone} /\ TRUE \in BOOLEAN
    OBVIOUS
  <2>2. CASE SePublish(s)
    BY <2>1, <2>2, SeAddInv DEF SePublish
  <2>3. CASE SeSubscribe(s)
    BY <2>3, SeAddInv DEF SeSubscribe
  <2>4. CASE SeAddListener(s)
    BY <2>1, <2>4, SeAddInv DEF SeAddListener
  <2> QED
    BY <1>3, <2>2, <2>3, <2>4
<1>4. ASSUME NEW s \in SeSessions,
             \/ SeOpenSession(s) \/ SeCloseSession(s) \/ SeAddListenerTcp(s)
             \/ SeRemove(s) \/ SeMove(s) \/ SeMoveUnicast(s) \/ SeLinkLost(s) \/ SeReinit(s)
      PROVE  SeInv'
  BY <1>4, SeOpenSessionInv, SeCloseSessionInv, SeAddListenerTcpInv, SeRemoveInv, SeMoveInv, SeMoveUnicastInv,
     SeLinkLostInv, SeReinitInv
<1>5. CASE UNCHANGED seVars
  BY <1>5 DEF seVars, SeInv, SeTypeOK, SeFitting, SeClosed
<1> QED
  BY <1>1, <1>2, <1>3, <1>4, <1>5 DEF SeNext

LEMMA SeInvHolds == SeSpec => []SeInv
<1>1. SeInit => SeInv
  BY SeStartsRight
<1>2. SeInv /\ [SeNext]_seVars => SeInv'
  BY SeNextInv
<1> QED
  BY <1>1, <1>2, PTL DEF SeSpec

LEMMA SeInvSound == ASSUME SeInv PROVE SeSound
<1>1. ASSUME NEW s \in SeSessions, NEW l \in SeSlot, s \in seOpen
      PROVE  LET n == SeUsers(s, l, {"pub", "sub", "lis"}) + seLeaked[s][l]
             IN  seIface[s][l].usage = n /\ (seIface[s][l].open <=> n > 0)
  <2>1. /\ SeFits(seIface[s], SeCounts(seElem[s], seLeaked[s]), seMax) /\ seElem[s] \in Seq(SeElement)
    BY <1>1, OpenFacts
  <2>2. SeUsers(s, l, {"pub", "sub", "lis"}) = Count(seElem[s], OfSlot(l))
    BY <2>1, UsersAreCounted
  <2> QED
    BY <2>1, <2>2 DEF SeFits, SeCounts
<1>2. SeUsageExact
  BY <1>1 DEF SeUsageExact, SeInv, SeFitting
<1>3. SeHears
  <2> SUFFICES ASSUME NEW s \in seOpen, NEW e \in Range(seElem[s]), seLink[s] = "up", e.group # SeNone
               PROVE  e.group \in seIface[s][e.slot].kernel
    BY DEF SeHears
  <2>1. /\ SeRuns(seIface[s], seElem[s], seLeaked[s], seLink[s], seMax) /\ seElem[s] \in Seq(SeElement)
    BY OpenFacts
  <2>2. e \in SeElement /\ SeServed(seIface[s], e)
    BY <2>1 DEF Range, SeRuns
  <2>3. e.slot \in SeSlot
    BY <2>2, SeAssumption DEF SeServed, SeElement, SeSlot
  <2> QED
    BY <2>1, <2>2, <2>3 DEF SeRuns, SeHeld, SeServed
<1> QED
  BY <1>2, <1>3 DEF SeSound

\* The types of the sessions' state: the pools, the queues and the usage counters
\* (TRDP_SOCKETS_T, trdp_private.h).
THEOREM SeTypes == SeSpec => []SeTypeOK
<1>1. SeInv => SeTypeOK
  BY DEF SeInv
<1> QED
  BY <1>1, SeInvHolds, PTL

\* However publishers, subscribers and listeners share, return and change the sockets of a session's pool,
\* and whatever fails meanwhile, a socket stays open for its last user, is closed after it, and every
\* element hears the group it asked for (trdp_requestSocket, trdp_releaseSocket, tlc_closeSession).
THEOREM SeAlwaysSound == SeSpec => []SeSound
<1>1. SeInv => SeSound
  BY SeInvSound
<1> QED
  BY <1>1, SeInvHolds, PTL

----------------------------------------------------------------------------
\* A set of naturals that is not empty has a least element.
LEMMA LeastOf ==
  ASSUME NEW S, S \subseteq Nat, S # {}
  PROVE  \E i \in S : \A j \in S : i <= j
<1>1. \E k \in S : \A j \in S : <<j, k>> \notin OpToRel(<, Nat)
  BY NatLessThanWellFounded, WFMin
<1>2. PICK k \in S : \A j \in S : <<j, k>> \notin OpToRel(<, Nat)
  BY <1>1
<1>3. \A j \in S : ~(j < k)
  BY <1>2 DEF OpToRel
<1>4. QED
  BY <1>3

----------------------------------------------------------------------------
(* Folds over sequences.  FoldLeft chooses a table of values, one for each set of indices, and takes the   *)
(* largest index off a set for its next value; that there is such a table is what a fold's proof starts from. *)

\* The table of a fold: what it yields for every set of indices below n + 1
FoldTable(G, base, n, t) ==
  \A s \in SUBSET (1..n) : t[s] = IF s = {} THEN base ELSE G[<<t[s \ {Max(s)}], Max(s)>>]

LEMMA MaxOf ==
  ASSUME NEW n \in Nat, NEW s \in SUBSET (1..n), s # {}
  PROVE  Max(s) \in s /\ \A i \in s : i <= Max(s)
<1> DEFINE Above(i) == \A j \in s : i >= j
           P == {i \in Nat : \A j \in s : j <= i}
<1>1. n \in P
  OBVIOUS
<1>2. PICK m \in P : \A i \in P : m <= i
  <2>1. P \subseteq Nat /\ P # {}
    BY <1>1
  <2> HIDE DEF P
  <2>2. \E m \in P : \A k \in P : <<k, m>> \notin OpToRel(<, Nat)
    BY <2>1, NatLessThanWellFounded, WFMin
  <2>3. PICK m \in P : \A k \in P : <<k, m>> \notin OpToRel(<, Nat)
    BY <2>2
  <2>4. \A k \in P : ~(k < m)
    BY <2>1, <2>3 DEF OpToRel
  <2>5. \A k \in P : m <= k
    BY <2>1, <2>4
  <2>6. QED
    BY <2>5
<1>3. m \in s
  <2>1. SUFFICES ASSUME m \notin s PROVE FALSE
    OBVIOUS
  <2>2. m \in Nat /\ m > 0
    <3>1. PICK j \in s : TRUE
      OBVIOUS
    <3>2. j \in 1..n /\ j <= m /\ m \in Nat
      BY <3>1
    <3>3. QED
      BY <3>2
  <2>3. m - 1 \in P
    BY <2>1, <2>2
  <2>4. QED
    BY <1>2, <2>2, <2>3
<1>4. Above(m)
  BY <1>3
<1>5. Max(s) \in s /\ Above(Max(s))
  <2>1. Max(s) = CHOOSE i \in s : Above(i)
    BY DEF Max
  <2> HIDE DEF Above
  <2>2. QED
    BY <1>3, <1>4, <2>1
<1>6. QED
  BY <1>5

LEMMA FoldTableExists ==
  ASSUME NEW n \in Nat, NEW X, NEW base \in X, NEW G \in [X \X (1..n) -> X]
  PROVE  \E t \in [SUBSET (1..n) -> X] : FoldTable(G, base, n, t)
<1> DEFINE Has(k) == \E t \in [SUBSET (1..k) -> X] : FoldTable(G, base, k, t)
           Bad == {k \in 0..n : ~Has(k)}
<1> HIDE DEF Has
<1> SUFFICES ASSUME Bad # {} PROVE FALSE
  <2>1. SUFFICES Has(n)
    BY DEF Has
  <2>2. n \in 0..n
    OBVIOUS
  <2>3. QED
    BY <2>2
<1>1. PICK k \in Bad : \A j \in Bad : k <= j
  <2>1. Bad \subseteq Nat
    OBVIOUS
  <2> HIDE DEF Bad
  <2>2. \E k \in Bad : \A j \in Bad : <<j, k>> \notin OpToRel(<, Nat)
    BY <2>1, NatLessThanWellFounded, WFMin
  <2>3. PICK k \in Bad : \A j \in Bad : <<j, k>> \notin OpToRel(<, Nat)
    BY <2>2
  <2>4. \A j \in Bad : ~(j < k)
    BY <2>1, <2>3 DEF OpToRel
  <2>5. \A j \in Bad : k <= j
    BY <2>1, <2>4
  <2>6. QED
    BY <2>5
<1>2. Has(0)
  <2> DEFINE t == [s \in SUBSET (1..0) |-> base]
  <2>1. t \in [SUBSET (1..0) -> X]
    OBVIOUS
  <2>2. \A s \in SUBSET (1..0) : s = {}
    OBVIOUS
  <2>3. FoldTable(G, base, 0, t)
    BY <2>2 DEF FoldTable
  <2>4. QED
    BY <2>1, <2>3 DEF Has
<1>3. k \in 1..n /\ ~Has(k)
  BY <1>2
<1>4. k - 1 \in 0..n /\ k - 1 \notin Bad
  BY <1>1, <1>3
<1>5. Has(k - 1)
  BY <1>4
<1>6. PICK t \in [SUBSET (1..(k - 1)) -> X] : FoldTable(G, base, k - 1, t)
  BY <1>5 DEF Has
<1> DEFINE u == [s \in SUBSET (1..k) |-> IF k \in s THEN G[<<t[s \ {k}], k>>] ELSE t[s]]
<1> HIDE DEF Bad
<1>7. \A s \in SUBSET (1..k) : (s \ {k}) \in SUBSET (1..(k - 1)) /\ (k \notin s => s \in SUBSET (1..(k - 1)))
  BY <1>3
<1>8. u \in [SUBSET (1..k) -> X]
  <2>1. ASSUME NEW s \in SUBSET (1..k) PROVE u[s] \in X
    <3>1. CASE k \in s
      BY <1>3, <1>6, <1>7, <3>1
    <3>2. CASE k \notin s
      BY <1>6, <1>7, <3>2
    <3>3. QED
      BY <3>1, <3>2
  <2>2. QED
    BY <2>1
<1>9. FoldTable(G, base, k, u)
  <2> SUFFICES ASSUME NEW s \in SUBSET (1..k)
               PROVE  u[s] = IF s = {} THEN base ELSE G[<<u[s \ {Max(s)}], Max(s)>>]
    BY DEF FoldTable
  <2>1. CASE s = {}
    BY <1>6, <1>7, <2>1 DEF FoldTable
  <2>2. CASE k \in s
    <3>1. Max(s) = k
      <4>1. k \in Nat /\ s # {}
        BY <1>3, <2>2
      <4>2. Max(s) \in s /\ k <= Max(s)
        BY <2>2, <4>1, MaxOf
      <4>3. Max(s) \in 1..k
        BY <4>2
      <4>4. QED
        BY <4>1, <4>2, <4>3
    <3>2. u[s \ {k}] = t[s \ {k}]
      BY <1>7
    <3>3. QED
      BY <2>2, <3>1, <3>2
  <2>3. CASE k \notin s /\ s # {}
    <3>1. s \in SUBSET (1..(k - 1)) /\ (s \ {Max(s)}) \in SUBSET (1..(k - 1)) /\ k \notin (s \ {Max(s)})
      BY <1>7, <2>3
    <3>2. u[s] = t[s] /\ u[s \ {Max(s)}] = t[s \ {Max(s)}]
      BY <2>3, <3>1, <1>3
    <3>3. QED
      BY <1>6, <2>3, <3>1, <3>2 DEF FoldTable
  <2>4. QED
    BY <2>1, <2>2, <2>3
<1>10. QED
  BY <1>3, <1>8, <1>9 DEF Has

----------------------------------------------------------------------------
(* Message data.  trdp_mdCloseSessions keeps the elements that are not to die, in their order.  *)

LEMMA MdCloseChain ==
  ASSUME NEW E, NEW q \in Seq(E)
  PROVE  \E f : /\ f \in [0..Len(q) -> Seq(E)] /\ f[0] = << >> /\ MdClose(q) = f[Len(q)]
                /\ \A i \in 1..Len(q) : f[i] = IF q[i].morituri THEN f[i - 1] ELSE Append(f[i - 1], q[i])
<1> DEFINE n == Len(q)
           Step(t, s) == IF s = {} THEN << >>
                         ELSE IF q[Max(s)].morituri THEN t[s \ {Max(s)}] ELSE Append(t[s \ {Max(s)}], q[Max(s)])
           G == [p \in Seq(E) \X (1..n) |-> IF q[p[2]].morituri THEN p[1] ELSE Append(p[1], q[p[2]])]
           T == CHOOSE t : t = [s \in SUBSET (1..n) |-> Step(t, s)]
<1>1. n \in Nat /\ DOMAIN q = 1..n /\ << >> \in Seq(E)
  OBVIOUS
<1>2. MdClose(q) = T[1..n]
  <2>1. MdClose(q) = (CHOOSE t : t = [s \in SUBSET DOMAIN q |-> Step(t, s)])[DOMAIN q]
    BY Zenon DEF MdClose, FoldLeft, MapThenFoldSet
  <2>2. QED
    BY <1>1, <2>1, Zenon
<1>3. G \in [Seq(E) \X (1..n) -> Seq(E)]
  <2>1. ASSUME NEW k \in Seq(E), NEW i \in 1..n PROVE (IF q[i].morituri THEN k ELSE Append(k, q[i])) \in Seq(E)
    <3>1. q[i] \in E
      BY <1>1
    <3>2. QED
      BY <3>1
  <2>2. QED
    BY <2>1
<1>4. PICK t \in [SUBSET (1..n) -> Seq(E)] : FoldTable(G, << >>, n, t)
  BY <1>1, <1>3, FoldTableExists
<1>5. \A s \in SUBSET (1..n) : t[s] = Step(t, s)
  <2> SUFFICES ASSUME NEW s \in SUBSET (1..n) PROVE t[s] = Step(t, s)
    OBVIOUS
  <2>1. CASE s = {}
    BY <1>4, <2>1 DEF FoldTable
  <2>2. CASE s # {}
    <3>1. Max(s) \in s /\ s \ {Max(s)} \in SUBSET (1..n)
      BY <1>1, <2>2, MaxOf
    <3>2. <<t[s \ {Max(s)}], Max(s)>> \in Seq(E) \X (1..n)
      BY <3>1
    <3>3. t[s] = G[<<t[s \ {Max(s)}], Max(s)>>]
      BY <1>4, <2>2 DEF FoldTable
    <3>4. QED
      BY <2>2, <3>2, <3>3
  <2>3. QED
    BY <2>1, <2>2
<1>6. t = [s \in SUBSET (1..n) |-> Step(t, s)]
  <2> HIDE DEF Step
  <2> QED BY <1>5
<1>7. T = [s \in SUBSET (1..n) |-> Step(T, s)]
  <2> HIDE DEF Step
  <2> QED BY <1>6, Zenon
<1> DEFINE f == [i \in 0..n |-> T[1..i]]
<1>8. \A s \in SUBSET (1..n) : T[s] = Step(T, s)
  <2> HIDE DEF T, Step
  <2> QED BY <1>7
<1> HIDE DEF T
<1>9. f[0] = << >> /\ f[n] = T[1..n]
  <2>1. {} \in SUBSET (1..n) /\ (1..0) = {}
    OBVIOUS
  <2>2. T[{}] = << >>
    BY <1>8, <2>1
  <2>3. QED
    BY <1>1, <2>1, <2>2
<1>10. ASSUME NEW i \in 1..n
       PROVE  f[i] = IF q[i].morituri THEN f[i - 1] ELSE Append(f[i - 1], q[i])
  <2>1. i \in Nat /\ (1..i) \in SUBSET (1..n) /\ (1..i) # {} /\ (1..i) \ {i} = 1..(i - 1) /\ i - 1 \in 0..n /\ i \in 0..n
    OBVIOUS
  <2>2. Max(1..i) = i
    <3>1. Max(1..i) \in 1..i /\ i <= Max(1..i)
      <4> HIDE DEF f, Step, n
      <4>1. i \in Nat /\ (1..i) \in SUBSET (1..i) /\ (1..i) # {} /\ i \in 1..i
        BY <2>1
      <4>2. QED
        BY <4>1, MaxOf
    <3>2. QED
      BY <3>1
  <2>3. T[1..i] = Step(T, 1..i)
    BY <1>8, <2>1
  <2>4. f[i] = T[1..i] /\ f[i - 1] = T[1..(i - 1)]
    BY <2>1
  <2> HIDE DEF f
  <2>5. QED
    BY <2>1, <2>2, <2>3, <2>4
<1>11. \A i \in 0..n : f[i] \in Seq(E)
  <2> DEFINE Bad == {i \in 0..n : f[i] \notin Seq(E)}
  <2> SUFFICES ASSUME Bad # {} PROVE FALSE
    OBVIOUS
  <2>1. Bad \subseteq Nat
    OBVIOUS
  <2>2. PICK i \in Bad : \A j \in Bad : i <= j
    BY <2>1, LeastOf
  <2> HIDE DEF f
  <2>3. i \in 1..n /\ f[i - 1] \in Seq(E)
    <3>1. i \in 0..n /\ i # 0
      BY <1>9, <1>1
    <3>2. i - 1 \in 0..n /\ ~(i <= i - 1)
      BY <3>1
    <3>3. QED
      BY <2>2, <3>1, <3>2
  <2>4. q[i] \in E
    BY <1>1, <2>3
  <2>5. f[i] \in Seq(E)
    <3>1. f[i] = IF q[i].morituri THEN f[i - 1] ELSE Append(f[i - 1], q[i])
      BY <1>10, <2>3
    <3>2. Append(f[i - 1], q[i]) \in Seq(E)
      BY <2>3, <2>4, AppendProperties
    <3>3. QED
      BY <2>3, <3>1, <3>2
  <2>6. QED
    BY <2>5
<1>12. f \in [0..n -> Seq(E)]
  BY <1>11
<1>13. QED
  <2> HIDE DEF f
  <2> QED BY <1>2, <1>9, <1>10, <1>12

\* What trdp_mdCloseSessions leaves of q: where each element was, in the order of q, and none that
\* was to stay is missing.
MdLeft(q, r, from) ==
  /\ from \in [1..Len(r) -> 1..Len(q)]
  /\ \A a \in 1..Len(r) : r[a] = q[from[a]]
  /\ \A a, b \in 1..Len(r) : a < b => from[a] < from[b]
  /\ \A j \in 1..Len(q) : q[j].morituri \/ \E a \in 1..Len(r) : from[a] = j

LEMMA MdCloseFacts ==
  ASSUME NEW E, NEW q \in Seq(E)
  PROVE  MdClose(q) \in Seq(E) /\ \E from : MdLeft(q, MdClose(q), from)
<1> DEFINE n == Len(q)
<1>1. PICK f : /\ f \in [0..n -> Seq(E)] /\ f[0] = << >> /\ MdClose(q) = f[n]
               /\ \A i \in 1..n : f[i] = IF q[i].morituri THEN f[i - 1] ELSE Append(f[i - 1], q[i])
  BY MdCloseChain
<1> DEFINE P(i, m) == /\ m \in [1..Len(f[i]) -> 1..i]
                      /\ \A a \in 1..Len(f[i]) : f[i][a] = q[m[a]]
                      /\ \A a, b \in 1..Len(f[i]) : a < b => m[a] < m[b]
                      /\ \A j \in 1..i : q[j].morituri \/ \E a \in 1..Len(f[i]) : m[a] = j
           Bad == {i \in 0..n : ~(\E m : P(i, m))}
<1>2. n \in Nat /\ f[n] \in Seq(E)
  BY <1>1
<1>3. ASSUME Bad # {} PROVE FALSE
  <2>1. Bad \subseteq Nat
    OBVIOUS
  <2>2. PICK i \in Bad : \A j \in Bad : i <= j
    <3> HIDE DEF Bad
    <3> QED BY <1>3, <2>1, LeastOf
  <2>3. i # 0
    <3> DEFINE m == [a \in {} |-> a]
    <3>1. Len(f[0]) = 0 /\ 1..0 = {} /\ m \in [{} -> {}]
      BY <1>1
    <3>2. P(0, m)
      BY <3>1
    <3>3. QED
      BY <2>2, <3>2
  <2>4. i \in 1..n /\ i - 1 \in 0..n /\ ~(i <= i - 1)
    BY <2>2, <2>3
  <2>5. PICK m : P(i - 1, m)
    <3> HIDE DEF P
    <3>1. i - 1 \notin Bad
      BY <2>2, <2>4
    <3>2. QED
      BY <2>4, <3>1
  <2>6. f[i] = IF q[i].morituri THEN f[i - 1] ELSE Append(f[i - 1], q[i])
    BY <1>1, <2>4
  <2>7. f[i - 1] \in Seq(E)
    BY <1>1, <2>4
  <2> DEFINE k == Len(f[i - 1])
  <2>8. k \in Nat
    BY <2>7
  <2>9. CASE q[i].morituri
    <3>1. f[i] = f[i - 1]
      BY <2>6, <2>9
    <3>2. P(i, m)
      <4>1. m \in [1..Len(f[i]) -> 1..i]
        BY <2>4, <2>5, <3>1
      <4>2. \A j \in 1..i : j = i \/ j \in 1..(i - 1)
        BY <2>4
      <4>3. \A j \in 1..i : q[j].morituri \/ \E a \in 1..Len(f[i]) : m[a] = j
        BY <2>5, <2>9, <3>1, <4>2
      <4>4. QED
        BY <2>5, <3>1, <4>1, <4>3
    <3>3. QED
      BY <2>2, <3>2
  <2>10. CASE ~q[i].morituri
    <3> DEFINE u == [a \in 1..(k + 1) |-> IF a = k + 1 THEN i ELSE m[a]]
    <3>1. f[i] = Append(f[i - 1], q[i])
      BY <2>6, <2>10
    <3>2. /\ Len(f[i]) = k + 1 /\ f[i][k + 1] = q[i]
          /\ \A a \in 1..k : f[i][a] = f[i - 1][a]
      <4> HIDE DEF k
      <4>1. k = Len(f[i - 1])
        BY DEF k
      <4>2. QED
        BY <2>7, <3>1, <4>1
    <3>3. m \in [1..k -> 1..(i - 1)] /\ \A a \in 1..k : f[i - 1][a] = q[m[a]]
      BY <2>5
    <3>4. /\ \A a, b \in 1..k : a < b => m[a] < m[b]
          /\ \A j \in 1..(i - 1) : q[j].morituri \/ \E a \in 1..k : m[a] = j
      BY <2>5
    <3> HIDE DEF k, P
    <3>5. /\ u[k + 1] = i /\ \A a \in 1..k : u[a] = m[a] /\ m[a] \in 1..(i - 1)
      BY <2>8, <3>3
    <3>6. u \in [1..(k + 1) -> 1..i]
      <4>1. ASSUME NEW a \in 1..(k + 1) PROVE u[a] \in 1..i
        <5>1. a = k + 1 \/ a \in 1..k
          BY <2>8
        <5> HIDE DEF u
        <5>2. i \in 1..i /\ 1..(i - 1) \subseteq 1..i
          BY <2>4
        <5>3. QED
          BY <3>5, <5>1, <5>2
      <4>2. QED
        BY <4>1
    <3>7. \A a \in 1..(k + 1) : f[i][a] = q[u[a]]
      <4> SUFFICES ASSUME NEW a \in 1..(k + 1) PROVE f[i][a] = q[u[a]]
        OBVIOUS
      <4>1. a = k + 1 \/ a \in 1..k
        BY <2>8
      <4> HIDE DEF u
      <4>2. QED
        BY <3>2, <3>3, <3>5, <4>1
    <3>8. \A a, b \in 1..(k + 1) : a < b => u[a] < u[b]
      <4> SUFFICES ASSUME NEW a \in 1..(k + 1), NEW b \in 1..(k + 1), a < b PROVE u[a] < u[b]
        OBVIOUS
      <4>1. a \in 1..k /\ (b = k + 1 \/ b \in 1..k)
        BY <2>8
      <4> HIDE DEF u
      <4>2. CASE b = k + 1
        BY <2>4, <3>5, <4>1, <4>2
      <4>3. CASE b \in 1..k
        BY <3>4, <3>5, <4>1, <4>3
      <4>4. QED
        BY <4>1, <4>2, <4>3
    <3>9. \A j \in 1..i : q[j].morituri \/ \E a \in 1..(k + 1) : u[a] = j
      <4> SUFFICES ASSUME NEW j \in 1..i, ~q[j].morituri PROVE \E a \in 1..(k + 1) : u[a] = j
        OBVIOUS
      <4>1. j = i \/ j \in 1..(i - 1)
        BY <2>4
      <4> HIDE DEF u
      <4>2. CASE j = i
        BY <2>8, <3>5, <4>2
      <4>3. CASE j \in 1..(i - 1)
        <5>1. PICK a \in 1..k : m[a] = j
          BY <3>4, <4>3
        <5>2. a \in 1..(k + 1) /\ u[a] = j
          BY <2>8, <3>5, <5>1
        <5>3. QED
          BY <5>2
      <4>4. QED
        BY <4>1, <4>2, <4>3
    <3>10. P(i, u)
      <4> HIDE DEF u
      <4> QED BY <3>2, <3>6, <3>7, <3>8, <3>9 DEF P
    <3>11. QED
      BY <2>2, <3>10
  <2>11. QED
    BY <2>9, <2>10
<1>4. n \in 0..n
  BY <1>2
<1>5. PICK m : P(n, m)
  <2> HIDE DEF P
  <2> QED BY <1>3, <1>4
<1>6. MdLeft(q, f[n], m)
  BY <1>5 DEF MdLeft
<1>7. QED
  BY <1>1, <1>2, <1>6

----------------------------------------------------------------------------
(* The elements of the queues.                                              *)

\* A caller's element bears the number of its retry as long as it asks for one reply, and has a
\* reply-query once it waits for a confirmation.
MdCounts(e) ==
  /\ e.max <= MdRetries /\ e.seq <= MdRetries
  /\ e.st \in {"tx_request_arm", "tx_request_w4reply"} /\ e.numExp = 1 => e.seq = e.retries
  /\ e.st \in {"tx_req_w4ap_confirm", "tx_confirm_arm"} => e.numQuery >= 1
MdOk == {e \in MdElement : MdCounts(e)}

\* The application knows the end of a session that is to die or that the next pass may close.
MdKnows(e, ended) ==
  e.morituri \/ e.st \in {"tx_reply_received", "tx_confirm_arm", "tx_notify_arm", "tx_reply_arm"} => e.id \in ended

MdTypes == {"MN", "MR", "MP", "MQ", "MC", "ME"}

LEMMA MdOkFields ==
  ASSUME NEW e \in MdOk
  PROVE  /\ e \in MdElement /\ e.id \in MdIds /\ e.sid \in MdIds /\ e.typ \in MdTypes /\ e.seq \in 0..MdRetries
         /\ e.tmo \in Nat /\ e.st \in MdState /\ e.ttg \in Int /\ e.interval \in Nat /\ e.numExp \in Nat
         /\ e.max \in Nat /\ e.retries \in Nat /\ e.numReplies \in Nat /\ e.numQuery \in Nat
         /\ e.numConf \in Nat /\ e.morituri \in BOOLEAN /\ e.max <= MdRetries
BY MdAssumption DEF MdOk, MdElement, MdCounts, MdTypes

LEMMA MdTimerInt == ASSUME NEW k \in Nat PROVE MdTimer(k) \in Int
BY DEF MdTimer

LEMMA MdFillIs ==
  ASSUME NEW type \in MdTypes
  PROVE  /\ MdFillState(type) \in MdState
         /\ (MdFillState(type) = "tx_confirm_arm" <=> type = "MC")
         /\ MdFillState(type) # "tx_req_w4ap_confirm" /\ MdFillState(type) # "tx_request_w4reply"
BY DEF MdFillState, MdTypes, MdState

LEMMA MdSenderOk ==
  ASSUME NEW type \in MdTypes \ {"MC"}, NEW id \in MdIds, NEW interval \in Nat, NEW numExp \in Nat,
         NEW max \in 0..MdRetries
  PROVE  /\ MdSender(type, id, interval, numExp, max) \in MdOk
         /\ MdSender(type, id, interval, numExp, max).id = id
         /\ ~MdSender(type, id, interval, numExp, max).morituri
         /\ MdSender(type, id, interval, numExp, max).st = MdFillState(type)
<1> DEFINE e == MdSender(type, id, interval, numExp, max)
           sid == IF type = "MN" THEN 0 ELSE id
<1>1. MdTimer(interval) \in Int /\ MdFillState(type) \in MdState /\ 0 \in MdIds /\ type \in MdTypes
      /\ MdRetries \in Nat /\ max \in Nat /\ max <= MdRetries
  BY MdTimerInt, MdFillIs, MdAssumption DEF MdIds
<1>2. sid \in MdIds
  BY <1>1
<1>3. e = [id |-> id, sid |-> sid, typ |-> type, seq |-> 0, tmo |-> interval,
           st |-> MdFillState(type), ttg |-> MdTimer(interval), interval |-> interval,
           numExp |-> numExp, max |-> max, retries |-> 0, numReplies |-> 0,
           numQuery |-> 0, numConf |-> 0, morituri |-> FALSE]
  BY DEF MdSender
<1> HIDE DEF e, sid
<1>4. e \in MdElement
  BY <1>1, <1>2, <1>3 DEF MdElement, MdTypes
<1>5. e.st \notin {"tx_req_w4ap_confirm", "tx_confirm_arm"}
  BY <1>3, MdFillIs
<1>6. MdCounts(e)
  BY <1>1, <1>3, <1>5 DEF MdCounts
<1>7. QED
  BY <1>3, <1>4, <1>6 DEF MdOk, e

\* trdp_mdSend leaves an element of the same session, which dies only if its end is known.
LEMMA MdSentOk ==
  ASSUME NEW e \in MdOk
  PROVE  /\ MdSent(e) \in MdOk /\ MdSent(e).id = e.id /\ MdSent(e).sid = e.sid
         /\ \A ended : MdKnows(e, ended) => MdKnows(MdSent(e), ended)
<1> USE MdOkFields
<1>0. MdRetries \in Nat
  BY MdAssumption
<1>1. CASE ~MdArmed(e)
  <2>1. MdSent(e) = e
    BY <1>1 DEF MdSent, MdArmed
  <2>2. QED
    BY <2>1
<1>2. CASE e.st \in {"tx_notify_arm", "tx_reply_arm"}
  <2> DEFINE u == [e EXCEPT !.st = "none", !.morituri = TRUE]
  <2>1. MdSent(e) = u
    BY <1>2 DEF MdSent, MdArmed
  <2>2. u \in MdElement /\ u.id = e.id /\ u.sid = e.sid /\ u.st = "none" /\ u.max = e.max /\ u.seq = e.seq
    BY DEF MdElement, MdState
  <2>3. MdCounts(u)
    BY <2>2 DEF MdCounts, MdOk
  <2> HIDE DEF u
  <2>4. QED
    BY <1>2, <2>1, <2>2, <2>3 DEF MdOk, MdKnows
<1>3. CASE e.st = "tx_request_arm"
  <2> DEFINE u == [e EXCEPT !.st = "tx_request_w4reply"]
  <2>1. MdSent(e) = u
    BY <1>3 DEF MdSent, MdArmed
  <2>2. /\ u \in MdElement /\ u.id = e.id /\ u.sid = e.sid /\ u.st = "tx_request_w4reply" /\ u.max = e.max
        /\ u.seq = e.seq /\ u.retries = e.retries /\ u.numExp = e.numExp /\ u.morituri = e.morituri
    BY DEF MdElement, MdState
  <2> HIDE DEF u
  <2>3. MdCounts(u)
    BY <1>3, <2>2 DEF MdCounts, MdOk
  <2>4. QED
    BY <1>3, <2>1, <2>2, <2>3 DEF MdOk, MdKnows
<1>4. CASE e.st = "tx_replyquery_arm"
  <2> DEFINE ttg == e.interval
             u == [e EXCEPT !.st = "rx_replyquery_w4c", !.ttg = ttg]
  <2>1. MdSent(e) = u
    BY <1>4 DEF MdSent, MdArmed
  <2>0. ttg \in Int
    OBVIOUS
  <2> HIDE DEF ttg
  <2>2. /\ u \in MdElement /\ u.id = e.id /\ u.sid = e.sid /\ u.st = "rx_replyquery_w4c" /\ u.max = e.max
        /\ u.seq = e.seq /\ u.morituri = e.morituri
    BY <2>0 DEF MdElement, MdState
  <2> HIDE DEF u
  <2>3. MdCounts(u)
    BY <2>2 DEF MdCounts, MdOk
  <2>4. QED
    BY <1>4, <2>1, <2>2, <2>3 DEF MdOk, MdKnows
<1>5. CASE e.st = "tx_confirm_arm"
  <2> DEFINE one == e.numConf + 1
             u == [e EXCEPT !.numConf = one, !.st = "none", !.morituri = TRUE]
             st == IF e.numConf + 1 < e.numQuery THEN "tx_req_w4ap_confirm" ELSE "tx_request_w4reply"
             w == [e EXCEPT !.numConf = one, !.st = st]
  <2>1. MdSent(e) = IF MdAllConfirmed(e) THEN u ELSE w
    BY <1>5 DEF MdSent, MdArmed
  <2>0. one \in Nat /\ st \in {"tx_req_w4ap_confirm", "tx_request_w4reply"}
    OBVIOUS
  <2>5. one = e.numConf + 1 /\ st = IF one < e.numQuery THEN "tx_req_w4ap_confirm" ELSE "tx_request_w4reply"
    OBVIOUS
  <2> HIDE DEF one, st
  <2>2. CASE MdAllConfirmed(e)
    <3>1. u \in MdElement /\ u.id = e.id /\ u.sid = e.sid /\ u.st = "none" /\ u.max = e.max /\ u.seq = e.seq
      BY <2>0 DEF MdElement, MdState
    <3> HIDE DEF u
    <3>2. MdCounts(u)
      BY <3>1 DEF MdCounts, MdOk
    <3>3. QED
      BY <1>5, <2>1, <2>2, <3>1, <3>2 DEF MdOk, MdKnows
  <2>3. CASE ~MdAllConfirmed(e)
    <3>1. /\ w \in MdElement /\ w.id = e.id /\ w.sid = e.sid /\ w.st = st /\ w.max = e.max /\ w.seq = e.seq
          /\ w.numExp = e.numExp /\ w.numQuery = e.numQuery /\ w.morituri = e.morituri
      BY <2>0 DEF MdElement, MdState
    <3>2. e.numQuery >= 1
      BY <1>5 DEF MdOk, MdCounts
    <3>3. e.numExp = 1 => st = "tx_req_w4ap_confirm"
      BY <2>3, <2>5, <3>2 DEF MdAllConfirmed
    <3>4. st \in {"tx_req_w4ap_confirm", "tx_request_w4reply"}
      BY <2>0
    <3> HIDE DEF w
    <3>5. MdCounts(w)
      BY <3>1, <3>2, <3>3, <3>4 DEF MdCounts, MdOk
    <3>6. QED
      BY <1>5, <2>1, <2>3, <3>1, <3>4, <3>5 DEF MdOk, MdKnows
  <2>4. QED
    BY <2>2, <2>3
<1>6. QED
  BY <1>1, <1>2, <1>3, <1>4, <1>5 DEF MdArmed

\* trdp_mdHandleConfirmReply
LEMMA MdAnsweredOk ==
  ASSUME NEW e \in MdOk, NEW m \in MdMsg, m.type \in {"MP", "MQ", "MC", "ME"}, m.sid = e.sid
  PROVE  /\ MdAnswered(e, m) \in MdOk /\ MdAnswered(e, m).id = e.id /\ MdAnswered(e, m).sid = e.sid
         /\ \A ended : m.type # "MC" /\ MdKnows(e, ended)
                         => MdKnows(MdAnswered(e, m), ended \cup MdTold(e, m))
<1> USE MdOkFields
<1>0. MdRetries \in Nat /\ m.seq \in 0..MdRetries /\ m.tmo \in Nat /\ m.sid \in MdIds
  BY MdAssumption DEF MdMsg
<1> DEFINE got == [e EXCEPT !.typ = m.type, !.sid = m.sid, !.seq = m.seq, !.tmo = m.tmo]
           all == \/ e.numExp = 1
                  \/ /\ e.numExp # 0
                     /\ e.numReplies + 1 + e.numQuery >= e.numExp
                     /\ e.numConf >= e.numQuery
           c == [got EXCEPT !.st = "rx_conf_received", !.morituri = TRUE]
           y == [got EXCEPT !.st = "tx_req_w4ap_confirm", !.numQuery = @ + 1, !.interval = m.tmo, !.ttg = m.tmo]
           p == [got EXCEPT !.st = "tx_reply_received", !.numReplies = @ + 1, !.morituri = @ \/ all]
<1>1. MdAnswered(e, m) = CASE m.type = "MC" -> c [] m.type = "MQ" -> y [] OTHER -> p
  BY DEF MdAnswered
<1>2. /\ got \in MdElement /\ got.id = e.id /\ got.sid = e.sid /\ got.seq = m.seq /\ got.max = e.max
      /\ got.numQuery = e.numQuery /\ got.numReplies = e.numReplies /\ got.morituri = e.morituri
  <2> DEFINE typ == m.type
             sid == m.sid
             seq == m.seq
             tmo == m.tmo
  <2>1. typ \in MdTypes /\ sid \in MdIds /\ seq \in Nat /\ tmo \in Nat /\ sid = e.sid
    BY <1>0 DEF MdTypes
  <2>2. got = [e EXCEPT !.typ = typ, !.sid = sid, !.seq = seq, !.tmo = tmo]
    OBVIOUS
  <2>3. seq = m.seq
    OBVIOUS
  <2> HIDE DEF typ, sid, seq, tmo, got
  <2>4. got \in MdElement
    BY <2>1, <2>2 DEF MdElement, MdTypes
  <2>5. /\ got.id = e.id /\ got.sid = sid /\ got.seq = seq /\ got.max = e.max
        /\ got.numQuery = e.numQuery /\ got.numReplies = e.numReplies /\ got.morituri = e.morituri
    BY <2>2 DEF MdElement
  <2>6. QED
    BY <2>1, <2>3, <2>4, <2>5
<1> HIDE DEF got
<1>3. CASE m.type = "MC"
  <2>1. MdAnswered(e, m) = c
    BY <1>1, <1>3
  <2>2. c \in MdElement /\ c.id = e.id /\ c.sid = e.sid /\ c.st = "rx_conf_received" /\ c.max = e.max /\ c.seq = m.seq
    BY <1>2 DEF MdElement, MdState
  <2> HIDE DEF c
  <2>3. MdCounts(c)
    BY <1>0, <2>2 DEF MdCounts
  <2>4. QED
    BY <1>3, <2>1, <2>2, <2>3 DEF MdOk
<1>4. CASE m.type = "MQ"
  <2>1. MdAnswered(e, m) = y
    BY <1>1, <1>4
  <2>2. /\ y \in MdElement /\ y.id = e.id /\ y.sid = e.sid /\ y.st = "tx_req_w4ap_confirm" /\ y.max = e.max
        /\ y.seq = m.seq /\ y.numQuery = e.numQuery + 1 /\ y.morituri = e.morituri
    <3> DEFINE num == got.numQuery + 1
               tmo == m.tmo
    <3>1. num \in Nat /\ tmo \in Nat /\ tmo \in Int /\ num = e.numQuery + 1
      BY <1>0, <1>2
    <3>2. y = [got EXCEPT !.st = "tx_req_w4ap_confirm", !.numQuery = num, !.interval = tmo, !.ttg = tmo]
      OBVIOUS
    <3> HIDE DEF num, tmo, y
    <3>3. y \in MdElement
      BY <1>2, <3>1, <3>2 DEF MdElement, MdState
    <3>4. /\ y.id = got.id /\ y.sid = got.sid /\ y.st = "tx_req_w4ap_confirm" /\ y.max = got.max
          /\ y.seq = got.seq /\ y.numQuery = num /\ y.morituri = got.morituri
      BY <1>2, <3>2 DEF MdElement
    <3>5. QED
      BY <1>2, <3>1, <3>3, <3>4
  <2> HIDE DEF y
  <2>3. MdCounts(y)
    BY <1>0, <2>2 DEF MdCounts
  <2>4. QED
    BY <2>1, <2>2, <2>3 DEF MdOk, MdKnows
<1>5. CASE m.type \in {"MP", "ME"}
  <2>1. MdAnswered(e, m) = p
    BY <1>1, <1>5
  <2>2. (got.morituri \/ all) \in BOOLEAN
    BY <1>2
  <2>3. /\ p \in MdElement /\ p.id = e.id /\ p.sid = e.sid /\ p.st = "tx_reply_received" /\ p.max = e.max
        /\ p.seq = m.seq
    <3> DEFINE num == got.numReplies + 1
               die == got.morituri \/ all
    <3>1. num \in Nat /\ die \in BOOLEAN
      BY <1>2, <2>2
    <3>2. p = [got EXCEPT !.st = "tx_reply_received", !.numReplies = num, !.morituri = die]
      OBVIOUS
    <3> HIDE DEF num, die, p
    <3>3. p \in MdElement
      BY <1>2, <3>1, <3>2 DEF MdElement, MdState
    <3>4. p.id = got.id /\ p.sid = got.sid /\ p.st = "tx_reply_received" /\ p.max = got.max /\ p.seq = got.seq
      BY <1>2, <3>2 DEF MdElement
    <3>5. QED
      BY <1>2, <3>3, <3>4
  <2> HIDE DEF p
  <2>4. MdCounts(p)
    BY <1>0, <2>3 DEF MdCounts
  <2>5. e.id \in MdTold(e, m)
    BY <1>5 DEF MdTold
  <2>6. QED
    BY <2>1, <2>3, <2>4, <2>5 DEF MdOk, MdKnows
<1>6. QED
  BY <1>3, <1>4, <1>5

\* An element that ended, or may end without being reported, was known to have ended.
LEMMA MdTimeOutOk ==
  ASSUME NEW e \in MdOk
  PROVE  /\ MdTimeOut(e).e \in MdOk /\ MdTimeOut(e).e.id = e.id /\ MdTimeOut(e).e.sid = e.sid
         /\ MdTimeOut(e).code # "unknown" \/ ~MdTimeOut(e).to
         /\ \A ended : MdKnows(e, ended) => MdTimeOut(e).to \/ MdKnows(MdTimeOut(e).e, ended)
<1> USE MdOkFields
<1>0. MdRetries \in Nat
  BY MdAssumption
<1> DEFINE u == [e EXCEPT !.morituri = TRUE]
<1>1. /\ u \in MdElement /\ u.id = e.id /\ u.sid = e.sid /\ u.st = e.st /\ u.max = e.max /\ u.seq = e.seq
      /\ u.retries = e.retries /\ u.numExp = e.numExp /\ u.numQuery = e.numQuery
  BY DEF MdElement
<1> HIDE DEF u
<1>2. MdCounts(u)
  BY <1>1 DEF MdCounts, MdOk
<1>3. u \in MdOk
  BY <1>1, <1>2 DEF MdOk
<1>4. \A to, code : MdEnd(e, to, code).e = u /\ MdEnd(e, to, code).to = to /\ MdEnd(e, to, code).code = code
  BY DEF MdEnd, u
<1>5. CASE e.st \in {"rx_req_w4ap_reply", "tx_req_w4ap_confirm"}
  <2> DEFINE code == IF e.st = "tx_req_w4ap_confirm" THEN "app_confirmto" ELSE "app_replyto"
  <2>1. MdTimeOut(e) = MdEnd(e, TRUE, code)
    BY <1>5 DEF MdTimeOut, MdAppTimeOut
  <2>2. code # "unknown"
    OBVIOUS
  <2> HIDE DEF code
  <2>3. MdTimeOut(e).e = u /\ MdTimeOut(e).code = code
    BY <2>1 DEF MdEnd, u
  <2>4. MdTimeOut(e).to
    BY <2>1 DEF MdEnd
  <2>5. QED
    BY <1>1, <1>3, <2>2, <2>3, <2>4
<1>6. CASE e.st = "tx_request_w4reply"
  <2>1. MdTimeOut(e) = MdReplyTimeOut(e)
    BY <1>6 DEF MdTimeOut
  <2>2. CASE MdRetry(e)
    <3> DEFINE seq == e.seq + 1
               retries == e.retries + 1
               ttg == e.ttg + e.interval
               w == [e EXCEPT !.st = "tx_request_arm", !.retries = retries, !.seq = seq, !.ttg = ttg]
    <3>1. MdReplyTimeOut(e) = [e |-> w, to |-> FALSE, code |-> "unknown"]
      BY <2>2 DEF MdReplyTimeOut
    <3>2. /\ seq \in Nat /\ retries \in Nat /\ ttg \in Int /\ seq = e.seq + 1 /\ retries = e.retries + 1
      OBVIOUS
    <3>3. ~e.morituri /\ e.numExp = 1 /\ e.retries < e.max /\ e.seq = e.retries
      BY <1>6, <2>2 DEF MdRetry, MdOk, MdCounts
    <3>4. seq <= MdRetries /\ seq = retries
      BY <1>0, <3>2, <3>3
    <3> HIDE DEF seq, retries, ttg
    <3>5. w \in MdElement
      BY <3>2 DEF MdElement, MdState
    <3>6. /\ w.id = e.id /\ w.sid = e.sid /\ w.st = "tx_request_arm" /\ w.max = e.max /\ w.seq = seq
          /\ w.retries = retries /\ w.morituri = e.morituri
      BY DEF MdElement
    <3> HIDE DEF w
    <3>7. MdCounts(w)
      BY <3>4, <3>6 DEF MdCounts
    <3>8. w \in MdOk /\ \A ended : MdKnows(w, ended)
      BY <3>3, <3>5, <3>6, <3>7 DEF MdOk, MdKnows
    <3>9. MdTimeOut(e).e = w /\ ~MdTimeOut(e).to
      BY <2>1, <3>1
    <3>10. QED
      BY <3>6, <3>8, <3>9
  <2>3. CASE ~MdRetry(e)
    <3> DEFINE code == IF e.morituri THEN "unknown" ELSE "replyto"
    <3>1. MdTimeOut(e) = MdEnd(e, ~e.morituri, code)
      BY <2>1, <2>3 DEF MdReplyTimeOut
    <3>2. /\ MdTimeOut(e).e = u /\ MdTimeOut(e).code = code
      BY <3>1, <1>4
    <3>3. MdTimeOut(e).to <=> ~e.morituri
      BY <3>1, <1>4
    <3>4. code # "unknown" \/ e.morituri
      OBVIOUS
    <3>5. \A ended : MdKnows(e, ended) /\ e.morituri => MdKnows(u, ended)
      BY <1>1 DEF MdKnows
    <3> HIDE DEF code
    <3>6. QED
      BY <1>1, <1>3, <3>2, <3>3, <3>4, <3>5
  <2>4. QED
    BY <2>2, <2>3
<1>7. CASE e.st = "rx_replyquery_w4c"
  <2>1. MdTimeOut(e) = MdEnd(e, TRUE, "confirmto")
    BY <1>7 DEF MdTimeOut
  <2>2. MdTimeOut(e).e = u /\ MdTimeOut(e).code = "confirmto"
    BY <2>1 DEF MdEnd, u
  <2>3. MdTimeOut(e).to
    BY <2>1 DEF MdEnd
  <2>4. QED
    BY <1>1, <1>3, <2>2, <2>3
<1>8. CASE e.st = "tx_reply_received"
  <2> DEFINE few == e.numExp = 0 \/ e.numReplies < e.numExp
             code == IF few THEN "replyto" ELSE "unknown"
  <2>1. MdTimeOut(e) = MdEnd(e, few, code)
    BY <1>8 DEF MdTimeOut, MdMoreReplies
  <2>2. MdTimeOut(e).e = u /\ MdTimeOut(e).code = code
    BY <2>1, <1>4
  <2>3. MdTimeOut(e).to <=> few
    BY <2>1, <1>4
  <2>4. code # "unknown" \/ ~few
    OBVIOUS
  <2>5. \A ended : MdKnows(e, ended) => MdKnows(u, ended)
    BY <1>1, <1>8 DEF MdKnows
  <2> HIDE DEF code, few
  <2>6. QED
    BY <1>1, <1>3, <2>2, <2>3, <2>4, <2>5
<1>9. CASE e.st \notin {"rx_req_w4ap_reply", "tx_req_w4ap_confirm", "tx_request_w4reply", "rx_replyquery_w4c",
                        "tx_reply_received"}
  <2>1. MdTimeOut(e) = [e |-> e, to |-> FALSE, code |-> "unknown"]
    BY <1>9 DEF MdTimeOut
  <2>2. MdTimeOut(e).e = e /\ ~MdTimeOut(e).to
    BY <2>1
  <2>3. QED
    BY <2>2
<1>10. QED
  BY <1>5, <1>6, <1>7, <1>8, <1>9

\* An element whose timer, or whose order to die, is set
LEMMA MdSetOk ==
  ASSUME NEW e \in MdOk
  PROVE  /\ \A t \in Int : [e EXCEPT !.ttg = t] \in MdOk /\ [e EXCEPT !.ttg = t].id = e.id
                           /\ [e EXCEPT !.ttg = t].sid = e.sid
                           /\ \A ended : MdKnows(e, ended) => MdKnows([e EXCEPT !.ttg = t], ended)
         /\ [e EXCEPT !.morituri = TRUE] \in MdOk /\ [e EXCEPT !.morituri = TRUE].id = e.id
         /\ [e EXCEPT !.morituri = TRUE].sid = e.sid
         /\ \A ended : e.id \in ended => MdKnows([e EXCEPT !.morituri = TRUE], ended)
<1> USE MdOkFields
<1>1. ASSUME NEW t \in Int
      PROVE  /\ [e EXCEPT !.ttg = t] \in MdOk /\ [e EXCEPT !.ttg = t].id = e.id /\ [e EXCEPT !.ttg = t].sid = e.sid
             /\ \A ended : MdKnows(e, ended) => MdKnows([e EXCEPT !.ttg = t], ended)
  <2> DEFINE u == [e EXCEPT !.ttg = t]
  <2>1. /\ u \in MdElement /\ u.id = e.id /\ u.sid = e.sid /\ u.st = e.st /\ u.max = e.max /\ u.seq = e.seq
        /\ u.retries = e.retries /\ u.numExp = e.numExp /\ u.numQuery = e.numQuery /\ u.morituri = e.morituri
    BY DEF MdElement
  <2> HIDE DEF u
  <2>2. MdCounts(u)
    BY <2>1 DEF MdCounts, MdOk
  <2>3. u \in MdOk /\ \A ended : MdKnows(e, ended) => MdKnows(u, ended)
    BY <2>1, <2>2 DEF MdOk, MdKnows
  <2>4. QED
    BY <2>1, <2>3 DEF u
<1>2. /\ [e EXCEPT !.morituri = TRUE] \in MdOk /\ [e EXCEPT !.morituri = TRUE].id = e.id
      /\ [e EXCEPT !.morituri = TRUE].sid = e.sid
      /\ \A ended : e.id \in ended => MdKnows([e EXCEPT !.morituri = TRUE], ended)
  <2> DEFINE u == [e EXCEPT !.morituri = TRUE]
  <2>1. /\ u \in MdElement /\ u.id = e.id /\ u.sid = e.sid /\ u.st = e.st /\ u.max = e.max /\ u.seq = e.seq
        /\ u.retries = e.retries /\ u.numExp = e.numExp /\ u.numQuery = e.numQuery
    BY DEF MdElement
  <2> HIDE DEF u
  <2>2. MdCounts(u)
    BY <2>1 DEF MdCounts, MdOk
  <2>3. u \in MdOk /\ \A ended : e.id \in ended => MdKnows(u, ended)
    BY <2>1, <2>2 DEF MdOk, MdKnows
  <2>4. QED
    BY <2>1, <2>3 DEF u
<1>3. QED
  BY <1>1, <1>2

----------------------------------------------------------------------------
(* The queues: what a pass over one, a new element and a search do to it.    *)

MdAllKnown(q, ended) == \A i \in DOMAIN q : MdKnows(q[i], ended)
MdDistinct(q) == \A i, j \in DOMAIN q : q[i].sid = q[j].sid => i = j
MdKept(q, r, ended) == \A id \in MdIds : MdHas(q, id) => MdHas(r, id) \/ id \in ended

\* g has an element of the same session in the place of every element of q.
MdSame(q, g) == \A i \in DOMAIN q : g[i].id = q[i].id /\ g[i].sid = q[i].sid

LEMMA MdMapOk ==
  ASSUME NEW q \in Seq(MdOk), NEW g \in [DOMAIN q -> MdOk], MdSame(q, g)
  PROVE  /\ g \in Seq(MdOk) /\ Len(g) = Len(q) /\ DOMAIN g = DOMAIN q
         /\ \A ended : MdKept(q, g, ended)
         /\ MdDistinct(q) => MdDistinct(g)
<1>1. DOMAIN q = 1..Len(q) /\ Len(q) \in Nat /\ DOMAIN g = DOMAIN q
  OBVIOUS
<1>2. g \in Seq(MdOk) /\ Len(g) = Len(q)
  <2> HIDE DEF MdOk
  <2>1. g \in [1..Len(q) -> MdOk]
    BY <1>1
  <2>2. QED
    BY <1>1, <2>1
<1>3. \A ended : MdKept(q, g, ended)
  BY <1>1 DEF MdKept, MdHas, MdSame
<1>4. MdDistinct(q) => MdDistinct(g)
  BY <1>1 DEF MdDistinct, MdSame
<1>5. QED
  BY <1>1, <1>2, <1>3, <1>4

\* Closing the sessions that are to die: what stays is in order, and the end of the rest is known.
LEMMA MdPassOk ==
  ASSUME NEW q \in Seq(MdOk), NEW g \in [DOMAIN q -> MdOk], MdSame(q, g)
  PROVE  /\ MdClose(g) \in Seq(MdOk)
         /\ \A ended : MdAllKnown(g, ended) => MdAllKnown(MdClose(g), ended) /\ MdKept(q, MdClose(g), ended)
         /\ MdDistinct(q) => MdDistinct(MdClose(g))
<1>1. /\ g \in Seq(MdOk) /\ Len(g) = Len(q) /\ DOMAIN g = DOMAIN q /\ DOMAIN g = 1..Len(g) /\ Len(g) \in Nat
      /\ MdDistinct(q) => MdDistinct(g)
  BY MdMapOk
<1>2. MdClose(g) \in Seq(MdOk)
  BY <1>1, MdCloseFacts
<1>3. PICK from : MdLeft(g, MdClose(g), from)
  BY <1>1, MdCloseFacts
<1> DEFINE r == MdClose(g)
<1>4. DOMAIN r = 1..Len(r) /\ Len(r) \in Nat
  BY <1>2
<1> HIDE DEF r
<1>5. /\ \A a \in DOMAIN r : from[a] \in DOMAIN g /\ r[a] = g[from[a]]
      /\ \A a, b \in DOMAIN r : a < b => from[a] < from[b]
      /\ \A j \in DOMAIN g : g[j].morituri \/ \E a \in DOMAIN r : from[a] = j
  BY <1>1, <1>3, <1>4 DEF MdLeft, r
<1>6. \A a, b \in DOMAIN r : from[a] = from[b] => a = b
  <2> SUFFICES ASSUME NEW a \in DOMAIN r, NEW b \in DOMAIN r, from[a] = from[b] PROVE a = b
    OBVIOUS
  <2>1. from[a] \in Nat /\ from[b] \in Nat /\ a \in Nat /\ b \in Nat
    BY <1>1, <1>4, <1>5
  <2>2. ~(a < b) /\ ~(b < a)
    BY <1>5, <2>1
  <2>3. QED
    BY <2>1, <2>2
<1>7. ASSUME NEW ended, MdAllKnown(g, ended) PROVE MdAllKnown(r, ended) /\ MdKept(q, r, ended)
  <2>1. MdAllKnown(r, ended)
    BY <1>5, <1>7 DEF MdAllKnown
  <2>2. ASSUME NEW id \in MdIds, NEW i \in DOMAIN q, q[i].id = id PROVE MdHas(r, id) \/ id \in ended
    <3>1. g[i].id = id /\ i \in DOMAIN g
      BY <1>1, <2>2 DEF MdSame
    <3>2. CASE g[i].morituri
      BY <1>7, <3>1, <3>2 DEF MdAllKnown, MdKnows
    <3>3. CASE ~g[i].morituri
      <4>1. PICK a \in DOMAIN r : from[a] = i
        BY <1>5, <3>1, <3>3
      <4>2. QED
        BY <1>5, <3>1, <4>1 DEF MdHas
    <3>4. QED
      BY <3>2, <3>3
  <2>3. QED
    BY <2>1, <2>2 DEF MdKept, MdHas
<1>8. MdDistinct(q) => MdDistinct(r)
  BY <1>1, <1>5, <1>6 DEF MdDistinct
<1>9. QED
  BY <1>2, <1>7, <1>8 DEF r

\* A new element at the head of a queue
LEMMA MdPushOk ==
  ASSUME NEW q \in Seq(MdOk), NEW u \in MdOk
  PROVE  /\ <<u>> \o q \in Seq(MdOk)
         /\ MdHas(<<u>> \o q, u.id)
         /\ \A ended : MdKept(q, <<u>> \o q, ended)
         /\ \A ended : MdKnows(u, ended) /\ MdAllKnown(q, ended) => MdAllKnown(<<u>> \o q, ended)
         /\ (\A i \in DOMAIN q : q[i].sid # u.sid) /\ MdDistinct(q) => MdDistinct(<<u>> \o q)
<1> DEFINE r == <<u>> \o q
<1>1. DOMAIN q = 1..Len(q) /\ Len(q) \in Nat
  OBVIOUS
<1>2. r \in Seq(MdOk) /\ Len(r) = Len(q) + 1 /\ DOMAIN r = 1..(Len(q) + 1)
  <2>1. <<u>> \in Seq(MdOk) /\ Len(<<u>>) = 1
    OBVIOUS
  <2>2. r \in Seq(MdOk) /\ Len(r) = 1 + Len(q)
    BY <2>1, ConcatProperties
  <2>3. QED
    BY <1>1, <2>2
<1>3. r[1] = u /\ \A i \in 1..Len(q) : r[i + 1] = q[i]
  <2>1. <<u>> \in Seq(MdOk) /\ Len(<<u>>) = 1 /\ <<u>>[1] = u
    OBVIOUS
  <2>2. \A k \in 1..(1 + Len(q)) : r[k] = IF k <= 1 THEN <<u>>[k] ELSE q[k - 1]
    BY <2>1, ConcatProperties
  <2>3. QED
    BY <1>1, <2>1, <2>2
<1>4. \A k \in DOMAIN r : k = 1 \/ (k - 1 \in DOMAIN q /\ r[k] = q[k - 1])
  <2> SUFFICES ASSUME NEW k \in DOMAIN r, k # 1 PROVE k - 1 \in DOMAIN q /\ r[k] = q[k - 1]
    OBVIOUS
  <2>1. k - 1 \in 1..Len(q) /\ (k - 1) + 1 = k
    BY <1>1, <1>2
  <2> HIDE DEF r
  <2>2. QED
    BY <1>1, <1>3, <2>1
<1>5. 1 \in DOMAIN r /\ \A i \in DOMAIN q : i + 1 \in DOMAIN r
  BY <1>1, <1>2
<1> HIDE DEF r
<1>6. MdHas(r, u.id)
  BY <1>3, <1>5 DEF MdHas
<1>7. \A ended : MdKept(q, r, ended)
  <2>1. ASSUME NEW i \in DOMAIN q PROVE r[i + 1] = q[i] /\ i + 1 \in DOMAIN r
    BY <1>1, <1>3, <1>5
  <2>2. QED
    BY <2>1 DEF MdKept, MdHas
<1>8. \A ended : MdKnows(u, ended) /\ MdAllKnown(q, ended) => MdAllKnown(r, ended)
  BY <1>3, <1>4 DEF MdAllKnown
<1>9. (\A i \in DOMAIN q : q[i].sid # u.sid) /\ MdDistinct(q) => MdDistinct(r)
  <2> SUFFICES ASSUME \A i \in DOMAIN q : q[i].sid # u.sid, MdDistinct(q),
                      NEW i \in DOMAIN r, NEW j \in DOMAIN r, r[i].sid = r[j].sid
               PROVE  i = j
    BY DEF MdDistinct
  <2>1. i \in Nat /\ j \in Nat
    BY <1>1, <1>2
  <2>2. CASE i = 1
    <3>1. j = 1
      BY <1>3, <1>4, <2>2
    <3>2. QED
      BY <2>2, <3>1
  <2>3. CASE i # 1
    <3>1. j # 1 /\ i - 1 \in DOMAIN q /\ j - 1 \in DOMAIN q /\ q[i - 1].sid = q[j - 1].sid
      BY <1>3, <1>4, <2>3
    <3>2. i - 1 = j - 1
      BY <3>1 DEF MdDistinct
    <3>3. QED
      BY <2>1, <3>2
  <2>4. QED
    BY <2>2, <2>3
<1>10. QED
  BY <1>2, <1>6, <1>7, <1>8, <1>9 DEF r

\* The first element with an identifier, or with a session and a state
LEMMA MdFirstOf ==
  ASSUME NEW q \in Seq(MdOk), NEW sid
  PROVE  LET i == SelectInSeq(q, LAMBDA e : e.sid = sid)
         IN  \/ i = 0 /\ \A j \in DOMAIN q : q[j].sid # sid
             \/ i # 0 /\ i \in DOMAIN q /\ q[i].sid = sid
<1> DEFINE I == {i \in 1..Len(q) : q[i].sid = sid}
           i == SelectInSeq(q, LAMBDA e : e.sid = sid)
<1>1. i = IF I # {} THEN Min(I) ELSE 0
  BY DEF SelectInSeq
<1>2. DOMAIN q = 1..Len(q)
  OBVIOUS
<1>3. I \subseteq Nat
  OBVIOUS
<1>4. I # {} => Min(I) \in I
  <2> HIDE DEF I
  <2> SUFFICES ASSUME I # {} PROVE Min(I) \in I
    OBVIOUS
  <2>1. PICK k \in I : \A j \in I : k <= j
    BY <1>3, LeastOf
  <2>2. QED
    BY <2>1 DEF Min
<1> HIDE DEF i
<1>5. QED
  BY <1>1, <1>2, <1>4 DEF i

LEMMA MdLookupIs ==
  ASSUME NEW q \in Seq(MdOk), NEW id, NEW st, MdLookup(q, id, st) # 0
  PROVE  LET i == MdLookup(q, id, st) IN i \in DOMAIN q /\ q[i].id = id /\ q[i].st = st
<1> DEFINE I == {i \in 1..Len(q) : q[i].id = id /\ q[i].st = st}
           i == MdLookup(q, id, st)
<1>1. i = IF I # {} THEN Min(I) ELSE 0
  BY DEF MdLookup, SelectInSeq
<1>2. DOMAIN q = 1..Len(q)
  OBVIOUS
<1>3. I \subseteq Nat
  OBVIOUS
<1>4. I # {} => Min(I) \in I
  <2> HIDE DEF I
  <2> SUFFICES ASSUME I # {} PROVE Min(I) \in I
    OBVIOUS
  <2>1. PICK k \in I : \A j \in I : k <= j
    BY <1>3, LeastOf
  <2>2. QED
    BY <2>1 DEF Min
<1> HIDE DEF i
<1>5. QED
  BY <1>1, <1>2, <1>4 DEF i

----------------------------------------------------------------------------
(* The invariant of the message data: the end of every session that is to die is known, every session *)
(* the caller opened is in its queue or its end is known, and the replier's sessions differ.          *)

MdTyped ==
  /\ mdSnd \in [MdNodes -> Seq(MdOk)] /\ mdRcv \in [MdNodes -> Seq(MdOk)]
  /\ mdNet \subseteq MdMsg /\ mdOpened \in 0..MdSessions
MdTracked == MdAllKnown(mdSnd["c"], mdEnded) /\ MdEndReported
MdInv == MdTyped /\ MdTracked /\ MdDistinct(mdRcv["r"])

LEMMA MdInvInit == MdInit => MdInv
<1> SUFFICES ASSUME MdInit PROVE MdInv
  OBVIOUS
<1>1. << >> \in Seq(MdOk) /\ DOMAIN << >> = {}
  OBVIOUS
<1>2. /\ mdSnd \in [MdNodes -> Seq(MdOk)] /\ mdRcv \in [MdNodes -> Seq(MdOk)]
      /\ mdSnd["c"] = << >> /\ mdRcv["r"] = << >>
  BY <1>1 DEF MdInit, MdNodes
<1>3. mdNet \subseteq MdMsg /\ mdOpened \in 0..MdSessions /\ 1..mdOpened = {}
  BY MdAssumption DEF MdInit
<1>4. QED
  BY <1>1, <1>2, <1>3 DEF MdInv, MdTyped, MdTracked, MdAllKnown, MdEndReported, MdDistinct

\* What a step has to do for the sessions of the caller when it opens none
LEMMA MdTrackedStep ==
  ASSUME MdTyped, MdTracked, mdOpened' = mdOpened, mdEnded \subseteq mdEnded',
         MdKept(mdSnd["c"], mdSnd'["c"], mdEnded'), MdAllKnown(mdSnd'["c"], mdEnded')
  PROVE  MdTracked'
<1>1. ASSUME NEW id \in 1..mdOpened PROVE MdHas(mdSnd'["c"], id) \/ id \in mdEnded'
  <2>1. id \in MdIds
    BY <1>1, MdAssumption DEF MdTyped, MdIds
  <2>2. QED
    BY <1>1, <2>1 DEF MdTracked, MdEndReported, MdKept
<1>2. QED
  BY <1>1 DEF MdTracked, MdEndReported

\* A queue of which the caller's part is left alone
LEMMA MdTrackedSame ==
  ASSUME MdTyped, MdTracked, mdOpened' = mdOpened, mdEnded \subseteq mdEnded', mdSnd'["c"] = mdSnd["c"]
  PROVE  MdTracked'
<1>1. MdKept(mdSnd["c"], mdSnd'["c"], mdEnded')
  BY DEF MdKept
<1>2. MdAllKnown(mdSnd'["c"], mdEnded')
  BY DEF MdTracked, MdAllKnown, MdKnows
<1>3. QED
  BY <1>1, <1>2, MdTrackedStep

\* trdp_mdCall
LEMMA MdCallStep ==
  ASSUME MdInv, NEW type \in {"MN", "MR"}, NEW group \in BOOLEAN, NEW replies \in Nat, NEW interval \in Nat,
         MdCall(type, group, replies, interval)
  PROVE  MdInv'
<1> DEFINE id == mdOpened + 1
           max == IF replies = 1 /\ ~group THEN MdRetries ELSE 0
           exp == IF type = "MN" THEN 0 ELSE IF group THEN replies ELSE 1
           u == MdSender(type, id, interval, exp, max)
           q == mdSnd["c"]
<1>1. id \in MdIds /\ mdOpened' = id /\ id \in 0..MdSessions /\ id \in Nat /\ mdOpened \in Nat
      /\ \A k \in 1..id : k = id \/ k \in 1..mdOpened
  <2>1. mdOpened \in 0..MdSessions /\ mdOpened < MdSessions /\ mdOpened' = id
    BY DEF MdCall, MdInv, MdTyped, MdNewId
  <2>2. QED
    BY <2>1, MdAssumption DEF MdIds
<1>2. exp \in Nat /\ max \in 0..MdRetries /\ type \in MdTypes \ {"MC"}
  BY MdAssumption DEF MdTypes
<1>3. u \in MdOk /\ u.id = id /\ ~u.morituri /\ u.st = MdFillState(type)
  <2> HIDE DEF id, exp, max
  <2> QED BY <1>1, <1>2, MdSenderOk
<1>4. q \in Seq(MdOk)
  BY DEF MdInv, MdTyped, MdNodes
<1>5. mdSnd' = [mdSnd EXCEPT !["c"] = <<u>> \o q]
  BY <1>1 DEF MdCall, MdNewId
<1>6. mdSnd'["c"] = <<u>> \o q /\ mdSnd \in [MdNodes -> Seq(MdOk)] /\ "c" \in MdNodes
  BY <1>5 DEF MdInv, MdTyped, MdNodes
<1>7. mdEnded' = (IF type = "MN" THEN mdEnded \cup {id} ELSE mdEnded) /\ mdRcv' = mdRcv /\ mdNet' = mdNet
  BY <1>1 DEF MdCall
<1> HIDE DEF u, q, id, max, exp
<1>8. /\ <<u>> \o q \in Seq(MdOk) /\ MdHas(<<u>> \o q, id) /\ MdKept(q, <<u>> \o q, mdEnded')
      /\ MdKnows(u, mdEnded') /\ MdAllKnown(q, mdEnded') => MdAllKnown(<<u>> \o q, mdEnded')
  BY <1>3, <1>4, MdPushOk
<1>9. MdTyped'
  BY <1>1, <1>5, <1>6, <1>7, <1>8 DEF MdTyped, MdInv
<1>10. MdKnows(u, mdEnded')
  <2>1. CASE type = "MN"
    BY <1>3, <1>7, <2>1 DEF MdKnows
  <2>2. CASE type = "MR"
    BY <1>3, <2>2 DEF MdKnows, MdFillState
  <2>3. QED
    BY <2>1, <2>2
<1>11. MdAllKnown(q, mdEnded')
  BY <1>7 DEF MdInv, MdTracked, MdAllKnown, MdKnows, q
<1>12. \A k \in 1..mdOpened' : MdHas(mdSnd'["c"], k) \/ k \in mdEnded'
  <2> SUFFICES ASSUME NEW k \in 1..id PROVE MdHas(<<u>> \o q, k) \/ k \in mdEnded'
    BY <1>1, <1>6
  <2>1. CASE k = id
    BY <1>8, <2>1
  <2>2. CASE k \in 1..mdOpened
    <3>1. k \in MdIds
      BY <2>2, MdAssumption DEF MdIds, MdInv, MdTyped
    <3>2. MdHas(q, k) \/ k \in mdEnded
      BY <2>2 DEF MdInv, MdTracked, MdEndReported, q
    <3>3. QED
      BY <1>7, <1>8, <3>1, <3>2 DEF MdKept
  <2>3. QED
    BY <1>1, <2>1, <2>2
<1>13. MdTracked'
  BY <1>6, <1>8, <1>10, <1>11, <1>12 DEF MdTracked, MdEndReported
<1>14. QED
  BY <1>7, <1>9, <1>13 DEF MdInv

\* An element of the replier's queue is replaced by one of the same session.
LEMMA MdRcvReplaced ==
  ASSUME MdInv, NEW i \in DOMAIN mdRcv["r"], NEW u \in MdOk, u.id = mdRcv["r"][i].id, u.sid = mdRcv["r"][i].sid,
         mdRcv' = [mdRcv EXCEPT !["r"][i] = u], mdNet' \subseteq mdNet, UNCHANGED <<mdSnd, mdOpened, mdEnded>>
  PROVE  MdInv'
<1> DEFINE q == mdRcv["r"]
           g == [q EXCEPT ![i] = u]
<1>1. q \in Seq(MdOk) /\ mdRcv \in [MdNodes -> Seq(MdOk)] /\ "r" \in MdNodes
  BY DEF MdInv, MdTyped, MdNodes
<1>2. mdRcv' = [mdRcv EXCEPT !["r"] = g]
  BY <1>1
<1>3. \A j \in DOMAIN q : q[j] \in MdOk
  BY <1>1, ElementOfSeq
<1>4. g \in [DOMAIN q -> MdOk] /\ MdSame(q, g)
  <2> HIDE DEF MdOk
  <2>1. \A j \in DOMAIN q : g[j] = IF j = i THEN u ELSE q[j]
    OBVIOUS
  <2>2. QED
    BY <1>3, <2>1 DEF MdSame
<1> HIDE DEF q, g
<1>5. g \in Seq(MdOk) /\ (MdDistinct(q) => MdDistinct(g))
  BY <1>1, <1>4, MdMapOk
<1>6. mdRcv' \in [MdNodes -> Seq(MdOk)] /\ mdRcv'["r"] = g
  BY <1>1, <1>2, <1>5
<1>7. MdTyped'
  BY <1>6 DEF MdTyped, MdInv
<1>8. MdTracked'
  BY MdTrackedSame DEF MdInv
<1>9. MdDistinct(g)
  BY <1>5 DEF MdInv, q
<1>10. QED
  BY <1>6, <1>7, <1>8, <1>9 DEF MdInv

\* An element of the caller's queue is replaced by one of the same session.
LEMMA MdSndReplaced ==
  ASSUME MdInv, NEW i \in DOMAIN mdSnd["c"], NEW u \in MdOk, u.id = mdSnd["c"][i].id, u.sid = mdSnd["c"][i].sid,
         mdSnd' = [mdSnd EXCEPT !["c"][i] = u], mdNet' \subseteq mdNet, UNCHANGED <<mdRcv, mdOpened>>,
         mdEnded \subseteq mdEnded', MdKnows(u, mdEnded')
  PROVE  MdInv'
<1> DEFINE q == mdSnd["c"]
           g == [q EXCEPT ![i] = u]
<1>1. q \in Seq(MdOk) /\ mdSnd \in [MdNodes -> Seq(MdOk)] /\ "c" \in MdNodes
  BY DEF MdInv, MdTyped, MdNodes
<1>2. mdSnd' = [mdSnd EXCEPT !["c"] = g]
  BY <1>1
<1>3. \A j \in DOMAIN q : q[j] \in MdOk
  BY <1>1, ElementOfSeq
<1>4. g \in [DOMAIN q -> MdOk] /\ MdSame(q, g) /\ \A j \in DOMAIN q : g[j] = IF j = i THEN u ELSE q[j]
  <2> HIDE DEF MdOk
  <2>1. \A j \in DOMAIN q : g[j] = IF j = i THEN u ELSE q[j]
    OBVIOUS
  <2>2. QED
    BY <1>3, <2>1 DEF MdSame
<1> HIDE DEF q, g
<1>5. g \in Seq(MdOk) /\ DOMAIN g = DOMAIN q /\ MdKept(q, g, mdEnded')
  BY <1>1, <1>4, MdMapOk
<1>6. mdSnd' \in [MdNodes -> Seq(MdOk)] /\ mdSnd'["c"] = g
  BY <1>1, <1>2, <1>5
<1>7. MdTyped'
  BY <1>6 DEF MdTyped, MdInv
<1>8. MdAllKnown(g, mdEnded')
  BY <1>4, <1>5 DEF MdInv, MdTracked, MdAllKnown, MdKnows, q
<1>9. MdTracked'
  BY <1>5, <1>6, <1>8, MdTrackedStep DEF MdInv, q
<1>10. QED
  BY <1>7, <1>9 DEF MdInv

\* An element of the queue searched is one of the queue's elements.
LEMMA MdElementOk ==
  ASSUME NEW q \in Seq(MdOk), NEW i \in DOMAIN q
  PROVE  q[i] \in MdOk
BY ElementOfSeq

\* trdp_mdReply
LEMMA MdReplyStep == ASSUME MdInv, NEW type \in {"MP", "MQ"}, MdReply(type) PROVE MdInv'
<1>1. PICK id \in MdIds :
        /\ MdLookup(mdRcv["r"], id, "rx_req_w4ap_reply") # 0
        /\ LET i == MdLookup(mdRcv["r"], id, "rx_req_w4ap_reply")
               e == mdRcv["r"][i]
               armed == [e EXCEPT !.typ = type, !.st = MdFillState(type), !.numReplies = 0, !.morituri = FALSE]
           IN  mdRcv' = [mdRcv EXCEPT !["r"][i] =
                           IF type = "MQ"
                           THEN [armed EXCEPT !.interval = MdConfTo, !.ttg = MdTimer(MdConfTo), !.tmo = MdConfTo]
                           ELSE [armed EXCEPT !.tmo = 0]]
        /\ UNCHANGED <<mdSnd, mdNet, mdCopied, mdOpened, mdEnded>>
  BY DEF MdReply
<1> DEFINE i == MdLookup(mdRcv["r"], id, "rx_req_w4ap_reply")
           e == mdRcv["r"][i]
           st == MdFillState(type)
           ttg == MdTimer(MdConfTo)
           armed == [e EXCEPT !.typ = type, !.st = st, !.numReplies = 0, !.morituri = FALSE]
           query == [armed EXCEPT !.interval = MdConfTo, !.ttg = ttg, !.tmo = MdConfTo]
           plain == [armed EXCEPT !.tmo = 0]
           u == IF type = "MQ" THEN query ELSE plain
<1>2. mdRcv["r"] \in Seq(MdOk)
  BY DEF MdInv, MdTyped, MdNodes
<1>3. i \in DOMAIN mdRcv["r"]
  BY <1>1, <1>2, MdLookupIs
<1>4. e \in MdOk
  <2> HIDE DEF i
  <2> QED BY <1>2, <1>3, MdElementOk
<1>5. mdRcv' = [mdRcv EXCEPT !["r"][i] = u]
  BY <1>1
<1>6. /\ st \in MdState \ {"tx_confirm_arm", "tx_req_w4ap_confirm", "tx_request_arm", "tx_request_w4reply"}
      /\ ttg \in Int /\ MdConfTo \in Nat /\ type \in MdTypes
  BY MdAssumption, MdTimerInt DEF MdFillState, MdState, MdTypes
<1> HIDE DEF i, st, ttg
<1>7. u \in MdOk /\ u.id = e.id /\ u.sid = e.sid
  <2> HIDE DEF e
  <2>1. e \in MdElement /\ e.max <= MdRetries /\ e.seq <= MdRetries
    BY <1>4 DEF MdOk, MdCounts
  <2>2. /\ armed \in MdElement /\ armed.id = e.id /\ armed.sid = e.sid /\ armed.st = st /\ armed.max = e.max
        /\ armed.seq = e.seq
    BY <1>6, <2>1 DEF MdElement, MdTypes
  <2> HIDE DEF armed
  <2>3. /\ query \in MdElement /\ query.id = e.id /\ query.sid = e.sid /\ query.st = st /\ query.max = e.max
        /\ query.seq = e.seq
    BY <1>6, <2>2 DEF MdElement, MdTypes
  <2>4. /\ plain \in MdElement /\ plain.id = e.id /\ plain.sid = e.sid /\ plain.st = st /\ plain.max = e.max
        /\ plain.seq = e.seq
    BY <2>2 DEF MdElement
  <2> HIDE DEF query, plain
  <2>5. u \in MdElement /\ u.id = e.id /\ u.sid = e.sid /\ u.st = st /\ u.max = e.max /\ u.seq = e.seq
    BY <2>3, <2>4
  <2> HIDE DEF u
  <2>6. MdCounts(u)
    BY <1>6, <2>1, <2>5 DEF MdCounts
  <2>7. QED
    BY <2>5, <2>6 DEF MdOk
<1> HIDE DEF u
<1>8. QED
  BY <1>1, <1>3, <1>5, <1>7, MdRcvReplaced DEF e

\* trdp_mdConfirm
LEMMA MdConfirmStep == ASSUME MdInv, MdConfirm PROVE MdInv'
<1>1. PICK id \in MdIds :
        /\ MdLookup(mdSnd["c"], id, "tx_req_w4ap_confirm") # 0
        /\ LET i == MdLookup(mdSnd["c"], id, "tx_req_w4ap_confirm")
           IN  mdSnd' = [mdSnd EXCEPT !["c"][i] =
                           [mdSnd["c"][i] EXCEPT !.typ = "MC", !.seq = 0, !.tmo = 0, !.st = MdFillState("MC"),
                                                 !.numReplies = 0, !.morituri = FALSE]]
        /\ mdEnded' = mdEnded \cup {id}
        /\ UNCHANGED <<mdRcv, mdNet, mdCopied, mdOpened>>
  BY DEF MdConfirm, MdInv, MdTyped, MdNodes
<1> DEFINE i == MdLookup(mdSnd["c"], id, "tx_req_w4ap_confirm")
           e == mdSnd["c"][i]
           u == [e EXCEPT !.typ = "MC", !.seq = 0, !.tmo = 0, !.st = "tx_confirm_arm",
                          !.numReplies = 0, !.morituri = FALSE]
<1>2. mdSnd["c"] \in Seq(MdOk)
  BY DEF MdInv, MdTyped, MdNodes
<1>3. i \in DOMAIN mdSnd["c"] /\ e.id = id /\ e.st = "tx_req_w4ap_confirm"
  BY <1>1, <1>2, MdLookupIs
<1>4. e \in MdOk
  <2> HIDE DEF i
  <2> QED BY <1>2, <1>3, MdElementOk
<1>5. mdSnd' = [mdSnd EXCEPT !["c"][i] = u]
  BY <1>1 DEF MdFillState
<1> HIDE DEF i
<1>6. u \in MdOk /\ u.id = e.id /\ u.sid = e.sid
  <2> HIDE DEF e
  <2>1. e \in MdElement /\ e.max <= MdRetries /\ e.numQuery >= 1
    BY <1>3, <1>4 DEF MdOk, MdCounts
  <2>2. /\ u \in MdElement /\ u.id = e.id /\ u.sid = e.sid /\ u.st = "tx_confirm_arm" /\ u.max = e.max
        /\ u.seq = 0 /\ u.numQuery = e.numQuery
    BY <2>1 DEF MdElement, MdState
  <2> HIDE DEF u
  <2>3. MdCounts(u)
    BY <2>1, <2>2, MdAssumption DEF MdCounts
  <2>4. QED
    BY <2>2, <2>3 DEF MdOk
<1>7. MdKnows(u, mdEnded')
  BY <1>1, <1>3, <1>6 DEF MdKnows
<1> HIDE DEF u
<1>8. QED
  BY <1>1, <1>3, <1>5, <1>6, <1>7, MdSndReplaced DEF e

\* trdp_mdHandleRequest, a repetition
LEMMA MdRecvRepeatedStep == ASSUME MdInv, MdRecvRepeated PROVE MdInv'
<1>1. PICK m \in mdNet :
        /\ MdKnown(m) # 0 /\ mdNet' = mdNet \ {m}
        /\ LET i == MdKnown(m)
               e == mdRcv["r"][i]
           IN  mdRcv' = IF m.seq # e.seq /\ e.st = "rx_replyquery_w4c"
                        THEN [mdRcv EXCEPT !["r"][i] =
                                [e EXCEPT !.st = "tx_replyquery_arm", !.retries = @ + 1,
                                          !.seq = m.seq, !.ttg = @ + e.interval]]
                        ELSE mdRcv
        /\ UNCHANGED <<mdSnd, mdCopied, mdOpened, mdEnded>>
  BY DEF MdRecvRepeated, MdTake
<1> DEFINE i == MdKnown(m)
           e == mdRcv["r"][i]
           retries == e.retries + 1
           seq == m.seq
           ttg == e.ttg + e.interval
           u == [e EXCEPT !.st = "tx_replyquery_arm", !.retries = retries, !.seq = seq, !.ttg = ttg]
<1>2. mdRcv["r"] \in Seq(MdOk) /\ m \in MdMsg
  BY DEF MdInv, MdTyped, MdNodes
<1>3. i \in DOMAIN mdRcv["r"]
  <2> DEFINE q == mdRcv["r"]
             sid == m.sid
             j == SelectInSeq(q, LAMBDA x : x.sid = sid)
  <2>1. q \in Seq(MdOk)
    BY <1>2
  <2>2. i = j /\ i # 0
    BY <1>1 DEF MdKnown
  <2> HIDE DEF q, sid
  <2>3. j = 0 \/ (j # 0 /\ j \in DOMAIN q /\ q[j].sid = sid)
    BY <2>1, MdFirstOf
  <2> HIDE DEF j, i
  <2>4. QED
    BY <2>2, <2>3 DEF q, sid
<1>4. e \in MdOk
  <2> HIDE DEF i
  <2> QED BY <1>2, <1>3, MdElementOk
<1>5. CASE m.seq # e.seq /\ e.st = "rx_replyquery_w4c"
  <2>1. mdRcv' = [mdRcv EXCEPT !["r"][i] = u]
    BY <1>1, <1>5
  <2> HIDE DEF i
  <2>2. retries \in Nat /\ seq \in Nat /\ seq <= MdRetries /\ ttg \in Int
    <3>1. m.seq \in 0..MdRetries /\ MdRetries \in Nat
      BY <1>2, MdAssumption DEF MdMsg
    <3> HIDE DEF e
    <3>2. e.retries \in Nat /\ e.ttg \in Int /\ e.interval \in Nat
      BY <1>4, MdOkFields
    <3>3. QED
      BY <3>1, <3>2
  <2> HIDE DEF retries, seq, ttg
  <2>3. u \in MdOk /\ u.id = e.id /\ u.sid = e.sid
    <3> HIDE DEF e
    <3>1. e \in MdElement /\ e.max <= MdRetries
      BY <1>4 DEF MdOk, MdCounts
    <3>2. /\ u \in MdElement /\ u.id = e.id /\ u.sid = e.sid /\ u.st = "tx_replyquery_arm" /\ u.max = e.max
          /\ u.seq = seq
      BY <2>2, <3>1 DEF MdElement, MdState
    <3> HIDE DEF u
    <3>3. MdCounts(u)
      BY <2>2, <3>1, <3>2 DEF MdCounts
    <3>4. QED
      BY <3>2, <3>3 DEF MdOk
  <2> HIDE DEF u
  <2>4. mdNet' \subseteq mdNet
    BY <1>1
  <2>5. QED
    BY <1>1, <1>3, <2>1, <2>3, <2>4, MdRcvReplaced DEF e
<1>6. CASE ~(m.seq # e.seq /\ e.st = "rx_replyquery_w4c")
  <2>1. mdRcv' = mdRcv /\ mdNet' \subseteq mdNet
    BY <1>1, <1>6
  <2>2. MdTracked'
    BY <1>1, MdTrackedSame DEF MdInv
  <2>3. QED
    BY <1>1, <2>1, <2>2 DEF MdInv, MdTyped
<1>7. QED
  BY <1>5, <1>6

\* trdp_mdHandleConfirmReply on an element of the caller's queue
LEMMA MdAnsweredStep ==
  ASSUME MdInv, NEW m \in mdNet, m.type \in {"MP", "MQ", "ME"}, NEW i \in DOMAIN mdSnd["c"],
         mdSnd["c"][i].sid = m.sid, mdSnd' = [mdSnd EXCEPT !["c"][i] = MdAnswered(@, m)],
         mdEnded' = MdTold(mdSnd["c"][i], m), mdNet' \subseteq mdNet, UNCHANGED <<mdRcv, mdOpened>>
  PROVE  MdInv'
<1> DEFINE e == mdSnd["c"][i]
           u == MdAnswered(e, m)
<1>1. mdSnd["c"] \in Seq(MdOk) /\ m \in MdMsg /\ mdSnd \in [MdNodes -> Seq(MdOk)] /\ "c" \in MdNodes
  BY DEF MdInv, MdTyped, MdNodes
<1>2. e \in MdOk
  BY <1>1, MdElementOk
<1>3. mdSnd' = [mdSnd EXCEPT !["c"][i] = u]
  BY <1>1
<1>4. MdKnows(e, mdEnded)
  BY DEF MdInv, MdTracked, MdAllKnown
<1>5. mdEnded \subseteq mdEnded' /\ mdEnded \cup MdTold(e, m) = mdEnded'
  BY DEF MdTold
<1>6. u \in MdOk /\ u.id = e.id /\ u.sid = e.sid /\ MdKnows(u, mdEnded \cup MdTold(e, m))
  <2> HIDE DEF e
  <2>1. m.sid = e.sid /\ m.type \in {"MP", "MQ", "MC", "ME"} /\ m.type # "MC"
    BY DEF e
  <2>2. QED
    BY <1>1, <1>2, <1>4, <2>1, MdAnsweredOk
<1>7. MdKnows(u, mdEnded')
  BY <1>5, <1>6
<1> HIDE DEF u
<1>8. QED
  BY <1>3, <1>5, <1>6, <1>7, MdSndReplaced DEF e

\* trdp_mdRecv of an answer
LEMMA MdRecvAnswerStep == ASSUME MdInv, MdRecvAnswer PROVE MdInv'
<1>1. PICK m \in mdNet :
        LET q == IF m.type = "MC" THEN mdRcv["r"] ELSE mdSnd["c"]
            i == SelectInSeq(q, LAMBDA e : e.sid = m.sid)
        IN  /\ m.type \notin {"MN", "MR"}
            /\ MdTake(m)
            /\ IF i = 0
               THEN UNCHANGED <<mdSnd, mdRcv, mdEnded>>
               ELSE IF m.type = "MC"
               THEN /\ mdRcv' = [mdRcv EXCEPT !["r"][i] = MdAnswered(@, m)]
                    /\ UNCHANGED <<mdSnd, mdEnded>>
               ELSE /\ mdSnd' = [mdSnd EXCEPT !["c"][i] = MdAnswered(@, m)]
                    /\ mdEnded' = MdTold(q[i], m)
                    /\ UNCHANGED mdRcv
            /\ UNCHANGED <<mdCopied, mdOpened>>
  BY DEF MdRecvAnswer
<1> DEFINE q == IF m.type = "MC" THEN mdRcv["r"] ELSE mdSnd["c"]
           i == SelectInSeq(q, LAMBDA e : e.sid = m.sid)
<1>2. /\ mdRcv["r"] \in Seq(MdOk) /\ mdSnd["c"] \in Seq(MdOk) /\ m \in MdMsg /\ m.type \in {"MP", "MQ", "MC", "ME"}
      /\ mdRcv \in [MdNodes -> Seq(MdOk)] /\ "r" \in MdNodes
  BY <1>1 DEF MdInv, MdTyped, MdNodes, MdMsg
<1>3. mdNet' \subseteq mdNet /\ UNCHANGED mdOpened
  BY <1>1 DEF MdTake
<1>4. i = 0 \/ (i # 0 /\ i \in DOMAIN q /\ q[i].sid = m.sid)
  <2>1. q \in Seq(MdOk)
    BY <1>2
  <2> HIDE DEF q
  <2>2. QED
    BY <2>1, MdFirstOf
<1>5. CASE i = 0
  <2>1. UNCHANGED <<mdSnd, mdRcv, mdEnded>>
    BY <1>1, <1>5
  <2> HIDE DEF i, q
  <2>2. MdTracked'
    BY <1>3, <2>1, MdTrackedSame DEF MdInv
  <2>3. QED
    BY <1>3, <2>1, <2>2 DEF MdInv, MdTyped
<1>6. CASE i # 0 /\ m.type = "MC"
  <2> DEFINE u == MdAnswered(mdRcv["r"][i], m)
  <2>1. /\ mdRcv' = [mdRcv EXCEPT !["r"][i] = MdAnswered(@, m)] /\ UNCHANGED <<mdSnd, mdEnded>> /\ q = mdRcv["r"]
    BY <1>1, <1>6
  <2> HIDE DEF i, q
  <2>2. mdRcv' = [mdRcv EXCEPT !["r"][i] = u]
    BY <1>2, <2>1
  <2>3. i \in DOMAIN mdRcv["r"] /\ mdRcv["r"][i].sid = m.sid
    BY <1>4, <1>6, <2>1
  <2>4. mdRcv["r"][i] \in MdOk
    BY <1>2, <2>3, MdElementOk
  <2>5. u \in MdOk /\ u.id = mdRcv["r"][i].id /\ u.sid = mdRcv["r"][i].sid
    BY <1>2, <2>3, <2>4, MdAnsweredOk
  <2> HIDE DEF u
  <2>6. QED
    BY <1>3, <2>1, <2>2, <2>3, <2>5, MdRcvReplaced
<1>7. CASE i # 0 /\ m.type # "MC"
  <2>1. /\ mdSnd' = [mdSnd EXCEPT !["c"][i] = MdAnswered(@, m)] /\ mdEnded' = MdTold(q[i], m) /\ UNCHANGED mdRcv
        /\ q = mdSnd["c"]
    BY <1>1, <1>7
  <2> HIDE DEF i, q
  <2>2. QED
    BY <1>2, <1>3, <1>4, <1>7, <2>1, MdAnsweredStep
<1>8. QED
  BY <1>5, <1>6, <1>7

\* A copy of an answer arrives.
LEMMA MdTwiceStep == ASSUME MdInv, MdTwice PROVE MdInv'
<1>1. PICK m \in mdNet :
        LET i == SelectInSeq(mdSnd["c"], LAMBDA e : e.sid = m.sid)
        IN  /\ m.type \in {"MQ", "MP"} /\ i # 0
            /\ mdSnd' = [mdSnd EXCEPT !["c"][i] = MdAnswered(@, m)]
            /\ mdEnded' = MdTold(mdSnd["c"][i], m)
  BY DEF MdTwice
<1> DEFINE i == SelectInSeq(mdSnd["c"], LAMBDA e : e.sid = m.sid)
<1>2. mdSnd["c"] \in Seq(MdOk)
  BY DEF MdInv, MdTyped, MdNodes
<1>3. i \in DOMAIN mdSnd["c"] /\ mdSnd["c"][i].sid = m.sid
  <2> DEFINE q == mdSnd["c"]
             sid == m.sid
             j == SelectInSeq(q, LAMBDA e : e.sid = sid)
  <2>1. q \in Seq(MdOk)
    BY <1>2
  <2>2. i = j /\ i # 0
    BY <1>1
  <2> HIDE DEF q, sid
  <2>3. j = 0 \/ (j # 0 /\ j \in DOMAIN q /\ q[j].sid = sid)
    BY <2>1, MdFirstOf
  <2> HIDE DEF j, i
  <2>4. QED
    BY <2>2, <2>3 DEF q, sid
<1>4. mdSnd' = [mdSnd EXCEPT !["c"][i] = MdAnswered(@, m)] /\ mdEnded' = MdTold(mdSnd["c"][i], m)
  BY <1>1
<1> HIDE DEF i
<1>5. UNCHANGED <<mdRcv, mdNet, mdOpened>>
  BY DEF MdTwice
<1>6. QED
  BY <1>1, <1>3, <1>4, <1>5, MdAnsweredStep

\* What a step of one node has to do with its queues
LEMMA MdNodeStep ==
  ASSUME MdInv, NEW n \in MdNodes, NEW A \in Seq(MdOk), NEW B \in Seq(MdOk),
         mdSnd' = [mdSnd EXCEPT ![n] = A], mdRcv' = [mdRcv EXCEPT ![n] = B],
         mdNet' \subseteq MdMsg, mdOpened' = mdOpened, mdEnded \subseteq mdEnded',
         n = "c" => MdKept(mdSnd[n], A, mdEnded') /\ MdAllKnown(A, mdEnded'),
         MdDistinct(mdRcv[n]) => MdDistinct(B)
  PROVE  MdInv'
<1>1. mdSnd \in [MdNodes -> Seq(MdOk)] /\ mdRcv \in [MdNodes -> Seq(MdOk)] /\ "c" \in MdNodes /\ "r" \in MdNodes
  BY DEF MdInv, MdTyped, MdNodes
<1>2. mdSnd' \in [MdNodes -> Seq(MdOk)] /\ mdRcv' \in [MdNodes -> Seq(MdOk)]
  BY <1>1
<1>3. MdTyped'
  BY <1>2 DEF MdInv, MdTyped
<1>4. MdTracked'
  <2>1. CASE n = "c"
    BY <1>1, <2>1, MdTrackedStep DEF MdInv
  <2>2. CASE n # "c"
    <3>1. mdSnd'["c"] = mdSnd["c"]
      BY <1>1, <2>2
    <3>2. QED
      BY <3>1, MdTrackedSame DEF MdInv
  <2>3. QED
    BY <2>1, <2>2
<1>5. MdDistinct(mdRcv'["r"])
  <2>1. mdRcv'["r"] = IF n = "r" THEN B ELSE mdRcv["r"]
    BY <1>1
  <2>2. QED
    BY <2>1 DEF MdInv
<1>6. QED
  BY <1>3, <1>4, <1>5 DEF MdInv

\* trdp_mdHandleRequest, a new session, or the answer that there can be none
LEMMA MdRecvNewStep == ASSUME MdInv, MdRecvNew PROVE MdInv'
<1>1. PICK m \in mdNet :
        /\ m.type \in {"MN", "MR"} /\ MdKnown(m) = 0 /\ mdNet' = mdNet \ {m}
        /\ \/ mdRcv' = [mdRcv EXCEPT !["r"] = <<MdReceiver(m)>> \o @] /\ UNCHANGED mdSnd
           \/ MdSendME(m.sid) /\ UNCHANGED mdRcv
        /\ UNCHANGED <<mdCopied, mdOpened, mdEnded>>
  BY DEF MdRecvNew, MdTake
<1>2. /\ mdRcv["r"] \in Seq(MdOk) /\ mdSnd["r"] \in Seq(MdOk) /\ m \in MdMsg
      /\ mdRcv \in [MdNodes -> Seq(MdOk)] /\ mdSnd \in [MdNodes -> Seq(MdOk)] /\ "r" \in MdNodes
  BY DEF MdInv, MdTyped, MdNodes
<1>3. m.sid \in MdIds /\ m.seq \in 0..MdRetries /\ m.tmo \in Nat /\ MdRetries \in Nat
  BY <1>2, MdAssumption DEF MdMsg
<1>4. mdNet' \subseteq MdMsg
  BY <1>1 DEF MdInv, MdTyped
<1>5. CASE mdRcv' = [mdRcv EXCEPT !["r"] = <<MdReceiver(m)>> \o @] /\ UNCHANGED mdSnd
  <2> DEFINE e == MdSender("MR", m.sid, m.tmo, 0, 0)
             typ == m.type
             seq == m.seq
             ttg == IF m.type = "MN" THEN m.tmo ELSE MdTimer(m.tmo)
             st == IF m.type = "MN" THEN "rx_notify_received" ELSE "rx_req_w4ap_reply"
             die == m.type = "MN"
             u == [e EXCEPT !.typ = typ, !.seq = seq, !.ttg = ttg, !.st = st, !.morituri = die]
             q == mdRcv["r"]
  <2>1. /\ typ \in MdTypes /\ seq \in Nat /\ seq <= MdRetries /\ ttg \in Int /\ die \in BOOLEAN
        /\ st \in {"rx_notify_received", "rx_req_w4ap_reply"}
    BY <1>1, <1>3, MdTimerInt DEF MdTypes
  <2>2. e \in MdElement /\ e.sid = m.sid /\ e.max = 0
    <3>1. 0 \in 0..MdRetries /\ "MR" \in MdTypes \ {"MC"} /\ 0 \in Nat
      BY <1>3 DEF MdTypes
    <3>2. e \in MdOk
      BY <1>3, <3>1, MdSenderOk
    <3>3. e.sid = m.sid /\ e.max = 0
      BY DEF MdSender
    <3>4. QED
      BY <3>2, <3>3 DEF MdOk
  <2>3. MdReceiver(m) = u
    BY DEF MdReceiver
  <2> HIDE DEF e, typ, seq, ttg, st, die
  <2>4. u \in MdElement /\ u.sid = m.sid /\ u.max = 0 /\ u.seq = seq /\ u.st = st
    BY <2>1, <2>2 DEF MdElement, MdTypes, MdState
  <2> HIDE DEF u
  <2>5. MdCounts(u)
    BY <1>3, <2>1, <2>4 DEF MdCounts
  <2>6. u \in MdOk
    BY <2>4, <2>5 DEF MdOk
  <2>7. \A j \in DOMAIN q : q[j].sid # u.sid
    <3> DEFINE sid == m.sid
               j == SelectInSeq(q, LAMBDA e_1 : e_1.sid = sid)
    <3>1. q \in Seq(MdOk)
      BY <1>2
    <3>2. j = 0
      BY <1>1 DEF MdKnown
    <3> HIDE DEF q, sid
    <3>3. (j = 0 /\ \A k \in DOMAIN q : q[k].sid # sid) \/ (j # 0 /\ j \in DOMAIN q /\ q[j].sid = sid)
      BY <3>1, MdFirstOf
    <3> HIDE DEF j
    <3>4. QED
      BY <2>4, <3>2, <3>3 DEF sid
  <2>8. PICK r : r = <<u>> \o q
    OBVIOUS
  <2>9. q \in Seq(MdOk)
    BY <1>2
  <2> HIDE DEF q
  <2>10. r \in Seq(MdOk) /\ (MdDistinct(q) => MdDistinct(r))
    BY <2>6, <2>7, <2>8, <2>9, MdPushOk
  <2>11. mdRcv' = [mdRcv EXCEPT !["r"] = r] /\ mdSnd' = [mdSnd EXCEPT !["r"] = mdSnd["r"]]
    BY <1>2, <1>5, <2>3, <2>8 DEF q
  <2>12. PICK a : a = mdSnd["r"]
    OBVIOUS
  <2>13. a \in Seq(MdOk) /\ mdSnd' = [mdSnd EXCEPT !["r"] = a]
    BY <1>2, <2>11, <2>12
  <2>14. MdDistinct(mdRcv["r"]) => MdDistinct(r)
    BY <2>10 DEF q
  <2>15. QED
    BY <1>1, <1>2, <1>4, <2>10, <2>11, <2>13, <2>14, MdNodeStep
<1>6. CASE MdSendME(m.sid) /\ UNCHANGED mdRcv
  <2>1. MdSender("ME", m.sid, 0, 0, 0) \in MdOk
    <3>1. 0 \in 0..MdRetries /\ "ME" \in MdTypes \ {"MC"} /\ 0 \in Nat
      BY <1>3 DEF MdTypes
    <3>2. QED
      BY <1>3, <3>1, MdSenderOk
  <2>2. PICK a : a = <<MdSender("ME", m.sid, 0, 0, 0)>> \o mdSnd["r"]
    OBVIOUS
  <2>3. a \in Seq(MdOk)
    BY <1>2, <2>1, <2>2, MdPushOk
  <2>4. PICK b : b = mdRcv["r"]
    OBVIOUS
  <2>5. mdSnd' = [mdSnd EXCEPT !["r"] = a] /\ mdRcv' = [mdRcv EXCEPT !["r"] = b] /\ b \in Seq(MdOk)
    BY <1>2, <1>6, <2>2, <2>4 DEF MdSendME
  <2>6. QED
    BY <1>1, <1>2, <1>4, <2>3, <2>4, <2>5, MdNodeStep
<1>7. QED
  BY <1>1, <1>5, <1>6

\* A packet is lost, or thrown away.
LEMMA MdRecvBadStep == ASSUME MdInv, MdRecvBad PROVE MdInv'
<1>1. mdNet' \subseteq mdNet /\ UNCHANGED <<mdSnd, mdRcv, mdOpened, mdEnded>>
  BY DEF MdRecvBad, MdTake
<1>2. MdTracked'
  BY <1>1, MdTrackedSame DEF MdInv
<1>3. QED
  BY <1>1, <1>2 DEF MdInv, MdTyped

\* tlm_abortSession
LEMMA MdAbortStep == ASSUME MdInv, NEW n \in MdNodes, MdAbort(n) PROVE MdInv'
<1> DEFINE Kill(q, id) == [i \in DOMAIN q |-> IF q[i].id = id THEN [q[i] EXCEPT !.morituri = TRUE] ELSE q[i]]
<1>1. PICK id \in MdIds :
        /\ \/ mdSnd' = [mdSnd EXCEPT ![n] = Kill(@, id)] /\ UNCHANGED mdRcv
           \/ mdRcv' = [mdRcv EXCEPT ![n] = Kill(@, id)] /\ UNCHANGED mdSnd
        /\ mdEnded' = IF n = "c" THEN mdEnded \cup {id} ELSE mdEnded
        /\ UNCHANGED <<mdNet, mdCopied, mdOpened>>
  BY DEF MdAbort
<1>2. /\ mdRcv[n] \in Seq(MdOk) /\ mdSnd[n] \in Seq(MdOk) /\ mdNet' \subseteq MdMsg
      /\ mdRcv \in [MdNodes -> Seq(MdOk)] /\ mdSnd \in [MdNodes -> Seq(MdOk)]
  BY <1>1 DEF MdInv, MdTyped
<1>3. ASSUME NEW q \in Seq(MdOk)
      PROVE  /\ Kill(q, id) \in [DOMAIN q -> MdOk] /\ MdSame(q, Kill(q, id))
             /\ \A ended : id \in ended /\ MdAllKnown(q, ended) => MdAllKnown(Kill(q, id), ended)
  <2>1. ASSUME NEW i \in DOMAIN q
        PROVE  /\ Kill(q, id)[i] \in MdOk /\ Kill(q, id)[i].id = q[i].id /\ Kill(q, id)[i].sid = q[i].sid
               /\ \A ended : id \in ended /\ MdKnows(q[i], ended) => MdKnows(Kill(q, id)[i], ended)
    <3>1. PICK e : e = q[i]
      OBVIOUS
    <3>2. e \in MdOk
      BY <3>1, MdElementOk
    <3> DEFINE u == [e EXCEPT !.morituri = TRUE]
    <3>3. u \in MdOk /\ u.id = e.id /\ u.sid = e.sid /\ \A ended : e.id \in ended => MdKnows(u, ended)
      BY <3>2, MdSetOk
    <3>4. Kill(q, id)[i] = IF e.id = id THEN u ELSE e
      BY <3>1
    <3> HIDE DEF Kill, u
    <3>5. QED
      BY <3>1, <3>2, <3>3, <3>4
  <2>2. DOMAIN Kill(q, id) = DOMAIN q
    OBVIOUS
  <2>3. Kill(q, id) \in [DOMAIN q -> MdOk]
    BY <2>1
  <2> HIDE DEF Kill
  <2>4. QED
    BY <2>1, <2>2, <2>3 DEF MdSame, MdAllKnown
<1>4. ASSUME NEW q \in Seq(MdOk)
      PROVE  /\ Kill(q, id) \in Seq(MdOk) /\ (MdDistinct(q) => MdDistinct(Kill(q, id)))
             /\ \A ended : MdKept(q, Kill(q, id), ended)
  <2> HIDE DEF Kill
  <2> QED BY <1>3, MdMapOk
<1> HIDE DEF Kill
<1>5. mdEnded \subseteq mdEnded' /\ (n = "c" => id \in mdEnded')
  BY <1>1
<1>6. n = "c" => MdAllKnown(mdSnd[n], mdEnded')
  BY <1>5 DEF MdInv, MdTracked, MdAllKnown, MdKnows
<1>7. CASE mdSnd' = [mdSnd EXCEPT ![n] = Kill(@, id)] /\ UNCHANGED mdRcv
  <2>1. PICK a : a = Kill(mdSnd[n], id)
    OBVIOUS
  <2>2. PICK b : b = mdRcv[n]
    OBVIOUS
  <2>3. a \in Seq(MdOk) /\ b \in Seq(MdOk)
    BY <1>2, <1>4, <2>1, <2>2
  <2>4. mdSnd' = [mdSnd EXCEPT ![n] = a] /\ mdRcv' = [mdRcv EXCEPT ![n] = b]
    BY <1>2, <1>7, <2>1, <2>2
  <2>5. n = "c" => MdKept(mdSnd[n], a, mdEnded') /\ MdAllKnown(a, mdEnded')
    BY <1>2, <1>3, <1>4, <1>5, <1>6, <2>1
  <2>6. QED
    BY <1>1, <1>2, <1>5, <2>2, <2>3, <2>4, <2>5, MdNodeStep
<1>8. CASE mdRcv' = [mdRcv EXCEPT ![n] = Kill(@, id)] /\ UNCHANGED mdSnd
  <2>1. PICK a : a = mdSnd[n]
    OBVIOUS
  <2>2. PICK b : b = Kill(mdRcv[n], id)
    OBVIOUS
  <2>3. a \in Seq(MdOk) /\ b \in Seq(MdOk) /\ (MdDistinct(mdRcv[n]) => MdDistinct(b))
    BY <1>2, <1>4, <2>1, <2>2
  <2>4. mdSnd' = [mdSnd EXCEPT ![n] = a] /\ mdRcv' = [mdRcv EXCEPT ![n] = b]
    BY <1>2, <1>8, <2>1, <2>2
  <2>5. n = "c" => MdKept(mdSnd[n], a, mdEnded') /\ MdAllKnown(a, mdEnded')
    BY <1>6, <2>1 DEF MdKept
  <2>6. QED
    BY <1>1, <1>2, <1>5, <2>3, <2>4, <2>5, MdNodeStep
<1>9. QED
  BY <1>1, <1>7, <1>8

\* trdp_mdSend, when the socket refuses
LEMMA MdSendFailsStep == ASSUME MdInv, NEW n \in MdNodes, MdSendFails(n) PROVE MdInv'
<1>1. /\ mdRcv[n] \in Seq(MdOk) /\ mdSnd[n] \in Seq(MdOk) /\ mdNet' \subseteq MdMsg
      /\ mdRcv \in [MdNodes -> Seq(MdOk)] /\ mdSnd \in [MdNodes -> Seq(MdOk)]
  BY DEF MdSendFails, MdInv, MdTyped
<1>2. PICK b : b = MdClose(mdRcv[n])
  OBVIOUS
<1>3. b \in Seq(MdOk) /\ (MdDistinct(mdRcv[n]) => MdDistinct(b))
  <2>1. PICK q : q = mdRcv[n]
    OBVIOUS
  <2>2. q \in Seq(MdOk) /\ q \in [DOMAIN q -> MdOk] /\ MdSame(q, q)
    <3>1. q \in Seq(MdOk)
      BY <1>1, <2>1
    <3> HIDE DEF MdOk
    <3>2. QED
      BY <3>1 DEF MdSame
  <2>3. QED
    BY <1>2, <2>1, <2>2, MdPassOk
<1>4. PICK a : a = << >>
  OBVIOUS
<1>5. a \in Seq(MdOk) /\ DOMAIN a = {}
  BY <1>4
<1>6. mdSnd' = [mdSnd EXCEPT ![n] = a] /\ mdRcv' = [mdRcv EXCEPT ![n] = b] /\ mdOpened' = mdOpened
  BY <1>1, <1>2, <1>4 DEF MdSendFails
<1>7. mdEnded \subseteq mdEnded'
  BY DEF MdSendFails
<1>8. n = "c" => MdKept(mdSnd[n], a, mdEnded') /\ MdAllKnown(a, mdEnded')
  <2> SUFFICES ASSUME n = "c" PROVE MdKept(mdSnd[n], a, mdEnded') /\ MdAllKnown(a, mdEnded')
    OBVIOUS
  <2>1. MdAllKnown(a, mdEnded')
    BY <1>5 DEF MdAllKnown
  <2>2. ASSUME NEW i \in DOMAIN mdSnd[n] PROVE mdSnd[n][i].id \in mdEnded'
    <3>1. mdSnd[n][i] \in Range(mdSnd[n])
      BY DEF Range
    <3>2. QED
      BY <3>1 DEF MdSendFails
  <2>3. QED
    BY <2>1, <2>2 DEF MdKept, MdHas
<1>9. QED
  BY <1>1, <1>3, <1>5, <1>6, <1>7, <1>8, MdNodeStep

\* A pass over a queue that ends with the closing of sessions.
LEMMA MdPassed ==
  ASSUME NEW q \in Seq(MdOk), NEW g, g \in [DOMAIN q -> MdOk], MdSame(q, g), NEW r, r = MdClose(g)
  PROVE  /\ r \in Seq(MdOk) /\ (MdDistinct(q) => MdDistinct(r))
         /\ \A ended : MdAllKnown(g, ended) => MdAllKnown(r, ended) /\ MdKept(q, r, ended)
BY MdPassOk

\* trdp_mdSend
LEMMA MdSendStep == ASSUME MdInv, NEW n \in MdNodes, MdSend(n) PROVE MdInv'
<1> DEFINE Sent(q) == [i \in DOMAIN q |-> MdSent(q[i])]
           armed == {e \in Range(mdSnd[n] \o mdRcv[n]) : MdArmed(e)}
<1>1. /\ mdRcv[n] \in Seq(MdOk) /\ mdSnd[n] \in Seq(MdOk)
      /\ mdRcv \in [MdNodes -> Seq(MdOk)] /\ mdSnd \in [MdNodes -> Seq(MdOk)]
  BY DEF MdInv, MdTyped
<1>2. ASSUME NEW q \in Seq(MdOk)
      PROVE  /\ Sent(q) \in [DOMAIN q -> MdOk] /\ MdSame(q, Sent(q))
             /\ \A ended : MdAllKnown(q, ended) => MdAllKnown(Sent(q), ended)
  <2>1. ASSUME NEW i \in DOMAIN q
        PROVE  /\ Sent(q)[i] \in MdOk /\ Sent(q)[i].id = q[i].id /\ Sent(q)[i].sid = q[i].sid
               /\ \A ended : MdKnows(q[i], ended) => MdKnows(Sent(q)[i], ended)
    <3>1. PICK e : e = q[i]
      OBVIOUS
    <3>2. e \in MdOk
      BY <3>1, MdElementOk
    <3>3. Sent(q)[i] = MdSent(e)
      BY <3>1
    <3> HIDE DEF Sent
    <3>4. QED
      BY <3>1, <3>2, <3>3, MdSentOk
  <2>2. DOMAIN Sent(q) = DOMAIN q
    OBVIOUS
  <2>3. Sent(q) \in [DOMAIN q -> MdOk]
    BY <2>1
  <2> HIDE DEF Sent
  <2>4. QED
    BY <2>1, <2>2, <2>3 DEF MdSame, MdAllKnown
<1>3. PICK a : a = MdClose(Sent(mdSnd[n]))
  OBVIOUS
<1>4. PICK b : b = MdClose(Sent(mdRcv[n]))
  OBVIOUS
<1>5. /\ mdSnd' = [mdSnd EXCEPT ![n] = a] /\ mdRcv' = [mdRcv EXCEPT ![n] = b]
      /\ mdOpened' = mdOpened /\ mdEnded' = mdEnded /\ mdNet' = mdNet \cup {MdPacket(n, e) : e \in armed}
  BY <1>1, <1>3, <1>4 DEF MdSend
<1>6. mdNet' \subseteq MdMsg
  <2>1. ASSUME NEW e \in armed PROVE MdPacket(n, e) \in MdMsg
    <3>1. e \in Range(mdSnd[n] \o mdRcv[n])
      OBVIOUS
    <3>2. mdSnd[n] \o mdRcv[n] \in Seq(MdOk)
      BY <1>1, ConcatProperties
    <3>3. PICK i \in DOMAIN (mdSnd[n] \o mdRcv[n]) : e = (mdSnd[n] \o mdRcv[n])[i]
      BY <3>1 DEF Range
    <3>4. e \in MdOk
      BY <3>2, <3>3, MdElementOk
    <3> HIDE DEF armed
    <3>5. e.typ \in MdTypes /\ e.sid \in MdIds /\ e.seq \in 0..MdRetries /\ e.tmo \in Nat /\ MdPeer(n) \in MdNodes
      BY <3>4, MdOkFields DEF MdPeer, MdNodes
    <3>6. QED
      BY <3>5 DEF MdPacket, MdMsg, MdTypes
  <2> HIDE DEF armed
  <2>2. QED
    BY <1>5, <2>1 DEF MdInv, MdTyped
<1> HIDE DEF Sent, armed
<1>7. a \in Seq(MdOk) /\ \A ended : MdAllKnown(mdSnd[n], ended) => MdAllKnown(a, ended) /\ MdKept(mdSnd[n], a, ended)
  BY <1>1, <1>2, <1>3, MdPassed
<1>8. b \in Seq(MdOk) /\ (MdDistinct(mdRcv[n]) => MdDistinct(b))
  BY <1>1, <1>2, <1>4, MdPassed
<1>9. n = "c" => MdAllKnown(mdSnd[n], mdEnded')
  BY <1>5 DEF MdInv, MdTracked
<1>10. QED
  BY <1>5, <1>6, <1>7, <1>8, <1>9, MdNodeStep

\* trdp_mdCheckTimeouts tells the application the end of every session it ends.
LEMMA MdReportsExpired ==
  ASSUME NEW q \in Seq(MdOk), NEW i \in DOMAIN q, MdExpired(q[i]), MdTimeOut(q[i]).to
  PROVE  i \in {k \in MdReports(q) : MdCode(q[k]) # "unknown"}
<1> DEFINE hit == {j \in 1..i : MdExpired(q[j])}
<1>1. i \in Nat /\ i \in 1..i /\ hit \in SUBSET (1..i)
  OBVIOUS
<1>2. i \in hit
  BY <1>1
<1>3. Max(hit) = i
  <2> HIDE DEF hit
  <2>1. Max(hit) \in hit /\ i <= Max(hit)
    BY <1>1, <1>2, MaxOf
  <2>2. Max(hit) \in 1..i
    BY <1>1, <2>1
  <2>3. QED
    BY <1>1, <2>1, <2>2
<1>4. i \in MdReports(q)
  BY <1>2, <1>3 DEF MdReports
<1>5. q[i] \in MdOk
  BY MdElementOk
<1>6. MdTimeOut(q[i]).code # "unknown"
  BY <1>5, MdTimeOutOk
<1>7. QED
  BY <1>4, <1>6 DEF MdCode

LEMMA MdCheckTimeoutsStep == ASSUME MdInv, NEW n \in MdNodes, MdCheckTimeouts(n) PROVE MdInv'
<1> DEFINE Passed(q) == [i \in DOMAIN q |-> IF MdExpired(q[i]) THEN MdTimeOut(q[i]).e ELSE q[i]]
           all == mdSnd[n] \o mdRcv[n]
           told == {all[i].id : i \in {k \in MdReports(all) : MdCode(all[k]) # "unknown"}}
<1>1. /\ mdRcv[n] \in Seq(MdOk) /\ mdSnd[n] \in Seq(MdOk)
      /\ mdRcv \in [MdNodes -> Seq(MdOk)] /\ mdSnd \in [MdNodes -> Seq(MdOk)]
  BY DEF MdInv, MdTyped
<1>2. ASSUME NEW q \in Seq(MdOk)
      PROVE  /\ Passed(q) \in [DOMAIN q -> MdOk] /\ MdSame(q, Passed(q)) /\ DOMAIN Passed(q) = DOMAIN q
             /\ \A i \in DOMAIN q : \A ended :
                  MdKnows(q[i], ended) => MdKnows(Passed(q)[i], ended) \/ (MdExpired(q[i]) /\ MdTimeOut(q[i]).to)
             /\ \A i \in DOMAIN q : \A ended : q[i].id \in ended => MdKnows(Passed(q)[i], ended)
  <2>1. ASSUME NEW i \in DOMAIN q
        PROVE  /\ Passed(q)[i] \in MdOk /\ Passed(q)[i].id = q[i].id /\ Passed(q)[i].sid = q[i].sid
               /\ \A ended : MdKnows(q[i], ended)
                               => MdKnows(Passed(q)[i], ended) \/ (MdExpired(q[i]) /\ MdTimeOut(q[i]).to)
    <3>1. PICK e : e = q[i]
      OBVIOUS
    <3>2. e \in MdOk
      BY <3>1, MdElementOk
    <3>3. Passed(q)[i] = IF MdExpired(e) THEN MdTimeOut(e).e ELSE e
      BY <3>1
    <3> HIDE DEF Passed
    <3>4. QED
      BY <3>1, <3>2, <3>3, MdTimeOutOk
  <2>2. DOMAIN Passed(q) = DOMAIN q
    OBVIOUS
  <2>3. Passed(q) \in [DOMAIN q -> MdOk]
    BY <2>1
  <2> HIDE DEF Passed
  <2>4. \A i \in DOMAIN q : \A ended : q[i].id \in ended => MdKnows(Passed(q)[i], ended)
    BY <2>1 DEF MdKnows
  <2>5. QED
    BY <2>1, <2>2, <2>3, <2>4 DEF MdSame
<1>3. PICK a : a = MdClose(Passed(mdSnd[n]))
  OBVIOUS
<1>4. PICK b : b = MdClose(Passed(mdRcv[n]))
  OBVIOUS
<1>5. /\ mdSnd' = [mdSnd EXCEPT ![n] = a] /\ mdRcv' = [mdRcv EXCEPT ![n] = b]
      /\ mdOpened' = mdOpened /\ mdNet' \subseteq MdMsg /\ mdEnded \subseteq mdEnded'
      /\ (n = "c" => mdEnded' = mdEnded \cup told)
  BY <1>1, <1>3, <1>4 DEF MdCheckTimeouts, MdInv, MdTyped
<1> HIDE DEF Passed, told
<1>6. ASSUME n = "c" PROVE MdAllKnown(Passed(mdSnd[n]), mdEnded')
  <2>1. PICK q : q = mdSnd[n]
    OBVIOUS
  <2>2. q \in Seq(MdOk)
    BY <1>1, <2>1
  <2> SUFFICES ASSUME NEW i \in DOMAIN q PROVE MdKnows(Passed(q)[i], mdEnded')
    BY <1>2, <2>1, <2>2 DEF MdAllKnown
  <2>3. MdKnows(q[i], mdEnded')
    BY <1>5, <1>6, <2>1 DEF MdInv, MdTracked, MdAllKnown, MdKnows
  <2>4. CASE MdExpired(q[i]) /\ MdTimeOut(q[i]).to
    <3>1. all \in Seq(MdOk) /\ i \in DOMAIN all /\ all[i] = q[i]
      <4>1. i \in 1..Len(q) /\ Len(q) \in Nat
        BY <2>2
      <4>2. /\ all \in Seq(MdOk) /\ Len(all) = Len(mdSnd[n]) + Len(mdRcv[n])
            /\ \A k \in 1..(Len(mdSnd[n]) + Len(mdRcv[n])) :
                 all[k] = IF k <= Len(mdSnd[n]) THEN mdSnd[n][k] ELSE mdRcv[n][k - Len(mdSnd[n])]
        BY <1>1, ConcatProperties
      <4>3. Len(mdRcv[n]) \in Nat
        BY <1>1
      <4>4. i \in 1..(Len(mdSnd[n]) + Len(mdRcv[n])) /\ i <= Len(mdSnd[n])
        <5>1. PICK k : k = Len(mdRcv[n])
          OBVIOUS
        <5>2. Len(mdSnd[n]) = Len(q) /\ k \in Nat
          BY <2>1, <4>3, <5>1
        <5>3. i \in 1..(Len(q) + k) /\ i <= Len(q)
          BY <4>1, <5>2
        <5>4. QED
          BY <5>1, <5>2, <5>3
      <4> HIDE DEF all
      <4>5. all[i] = q[i]
        BY <2>1, <4>2, <4>4
      <4>6. DOMAIN all = 1..Len(all)
        BY <4>2
      <4>7. QED
        BY <4>2, <4>4, <4>5, <4>6
    <3>2. PICK z : z = all
      OBVIOUS
    <3>3. i \in {k \in MdReports(z) : MdCode(z[k]) # "unknown"}
      <4> HIDE DEF all
      <4> QED BY <2>4, <3>1, <3>2, MdReportsExpired
    <3>4. q[i].id \in told
      BY <3>1, <3>2, <3>3 DEF told
    <3>5. q[i].id \in mdEnded'
      BY <1>5, <1>6, <3>4
    <3>6. QED
      BY <1>2, <2>2, <3>5
  <2>5. CASE ~(MdExpired(q[i]) /\ MdTimeOut(q[i]).to)
    BY <1>2, <2>2, <2>3, <2>5
  <2>6. QED
    BY <2>4, <2>5
<1>7. a \in Seq(MdOk) /\ (n = "c" => MdAllKnown(a, mdEnded') /\ MdKept(mdSnd[n], a, mdEnded'))
  BY <1>1, <1>2, <1>3, <1>6, MdPassed
<1>8. b \in Seq(MdOk) /\ (MdDistinct(mdRcv[n]) => MdDistinct(b))
  BY <1>1, <1>2, <1>4, MdPassed
<1>9. QED
  BY <1>5, <1>7, <1>8, MdNodeStep

\* Time passes.
LEMMA MdTickStep == ASSUME MdInv, MdTick PROVE MdInv'
<1> DEFINE Older(q) == [i \in DOMAIN q |-> [q[i] EXCEPT !.ttg = IF @ >= 0 THEN @ - 1 ELSE @]]
<1>1. mdRcv \in [MdNodes -> Seq(MdOk)] /\ mdSnd \in [MdNodes -> Seq(MdOk)] /\ "c" \in MdNodes /\ "r" \in MdNodes
  BY DEF MdInv, MdTyped, MdNodes
<1>2. ASSUME NEW q \in Seq(MdOk)
      PROVE  /\ Older(q) \in [DOMAIN q -> MdOk] /\ MdSame(q, Older(q))
             /\ \A ended : MdAllKnown(q, ended) => MdAllKnown(Older(q), ended)
  <2>1. ASSUME NEW i \in DOMAIN q
        PROVE  /\ Older(q)[i] \in MdOk /\ Older(q)[i].id = q[i].id /\ Older(q)[i].sid = q[i].sid
               /\ \A ended : MdKnows(q[i], ended) => MdKnows(Older(q)[i], ended)
    <3>1. PICK e : e = q[i]
      OBVIOUS
    <3>2. e \in MdOk
      BY <3>1, MdElementOk
    <3>3. PICK t : t = IF e.ttg >= 0 THEN e.ttg - 1 ELSE e.ttg
      OBVIOUS
    <3>4. t \in Int
      <4>1. e.ttg \in Int
        BY <3>2, MdOkFields
      <4>2. QED
        BY <3>3, <4>1
    <3>5. Older(q)[i] = [e EXCEPT !.ttg = t]
      BY <3>1, <3>3
    <3>6. PICK u : u = [e EXCEPT !.ttg = t]
      OBVIOUS
    <3>7. u \in MdOk /\ u.id = e.id /\ u.sid = e.sid /\ \A ended : MdKnows(e, ended) => MdKnows(u, ended)
      BY <3>2, <3>4, <3>6, MdSetOk
    <3> HIDE DEF Older
    <3>8. QED
      BY <3>1, <3>5, <3>6, <3>7
  <2>2. DOMAIN Older(q) = DOMAIN q
    OBVIOUS
  <2>3. Older(q) \in [DOMAIN q -> MdOk]
    BY <2>1
  <2> HIDE DEF Older
  <2>4. QED
    BY <2>1, <2>2, <2>3 DEF MdSame, MdAllKnown
<1>3. ASSUME NEW q \in Seq(MdOk)
      PROVE  /\ Older(q) \in Seq(MdOk) /\ (MdDistinct(q) => MdDistinct(Older(q)))
             /\ \A ended : MdKept(q, Older(q), ended)
  <2> HIDE DEF Older
  <2> QED BY <1>2, MdMapOk
<1>4. /\ mdSnd' = [n \in MdNodes |-> Older(mdSnd[n])] /\ mdRcv' = [n \in MdNodes |-> Older(mdRcv[n])]
      /\ UNCHANGED <<mdNet, mdOpened, mdEnded>>
  BY DEF MdTick
<1> HIDE DEF Older
<1>5. MdTyped'
  <2>1. mdSnd' \in [MdNodes -> Seq(MdOk)] /\ mdRcv' \in [MdNodes -> Seq(MdOk)]
    BY <1>1, <1>3, <1>4
  <2>2. QED
    BY <1>4, <2>1 DEF MdInv, MdTyped
<1>6. mdSnd'["c"] = Older(mdSnd["c"]) /\ mdSnd["c"] \in Seq(MdOk)
      /\ mdRcv'["r"] = Older(mdRcv["r"]) /\ mdRcv["r"] \in Seq(MdOk)
  BY <1>1, <1>4
<1>7. MdTracked'
  <2>1. MdAllKnown(mdSnd["c"], mdEnded')
    BY <1>4 DEF MdInv, MdTracked
  <2>2. MdKept(mdSnd["c"], mdSnd'["c"], mdEnded') /\ MdAllKnown(mdSnd'["c"], mdEnded')
    BY <1>2, <1>3, <1>6, <2>1
  <2>3. QED
    BY <1>4, <2>2, MdTrackedStep DEF MdInv
<1>8. MdDistinct(mdRcv'["r"])
  BY <1>3, <1>6 DEF MdInv
<1>9. QED
  BY <1>5, <1>7, <1>8 DEF MdInv

\* Every step of the message data keeps the invariant.
LEMMA MdInvNext == MdInv /\ [MdNext]_mdVars => MdInv'
<1> SUFFICES ASSUME MdInv, [MdNext]_mdVars PROVE MdInv'
  OBVIOUS
<1>1. CASE MdNotify \/ MdRequest \/ MdRequestInfinite
  <2>1. PICK type \in {"MN", "MR"}, group \in BOOLEAN, replies \in Nat, interval \in Nat :
          MdCall(type, group, replies, interval)
    <3>1. MdReplyTo \in Nat /\ 0..2 \subseteq Nat /\ 0 \in Nat /\ 1 \in Nat
      BY MdAssumption
    <3>2. QED
      BY <1>1, <3>1 DEF MdNotify, MdRequest, MdRequestInfinite
  <2>2. QED
    BY <2>1, MdCallStep
<1>2. CASE MdReply("MP") \/ MdReply("MQ")
  BY <1>2, MdReplyStep
<1>3. CASE MdConfirm
  BY <1>3, MdConfirmStep
<1>4. CASE \E n \in MdNodes : MdAbort(n) \/ MdSend(n) \/ MdSendFails(n) \/ MdCheckTimeouts(n)
  BY <1>4, MdAbortStep, MdSendStep, MdSendFailsStep, MdCheckTimeoutsStep
<1>5. CASE MdRecvRepeated \/ MdRecvNew \/ MdRecvAnswer \/ MdRecvBad
  BY <1>5, MdRecvRepeatedStep, MdRecvNewStep, MdRecvAnswerStep, MdRecvBadStep
<1>6. CASE MdTwice \/ MdTick
  BY <1>6, MdTwiceStep, MdTickStep
<1>7. CASE UNCHANGED mdVars
  <2>1. UNCHANGED <<mdSnd, mdRcv, mdNet, mdOpened, mdEnded>>
    BY <1>7 DEF mdVars
  <2>2. MdTracked'
    BY <2>1, MdTrackedSame DEF MdInv
  <2>3. QED
    BY <2>1, <2>2 DEF MdInv, MdTyped
<1>8. QED
  BY <1>1, <1>2, <1>3, <1>4, <1>5, <1>6, <1>7 DEF MdNext

\* A request never has two sessions at once with its replier, and one end that its caller learns of,
\* though packets are lost, repeated and sent again (trdp_mdHandleRequest, trdp_mdCheckTimeouts).
\* It is not served at most once: a retry after a lost reply is a session of its own.
THEOREM MdAlwaysSound == MdSpec => []MdSound
<1>1. MdInv => MdSound
  <2> SUFFICES ASSUME MdInv PROVE MdSound
    OBVIOUS
  <2>1. mdSnd \in [MdNodes -> Seq(MdOk)] /\ mdRcv \in [MdNodes -> Seq(MdOk)] /\ mdNet \subseteq MdMsg
        /\ MdEndReported /\ MdDistinct(mdRcv["r"])
    BY DEF MdInv, MdTyped, MdTracked
  <2>2. ASSUME NEW q \in Seq(MdOk) PROVE Range(q) \subseteq MdElement
    <3> SUFFICES ASSUME NEW i \in DOMAIN q PROVE q[i] \in MdElement
      BY DEF Range
    <3>1. q[i] \in MdOk
      BY MdElementOk
    <3>2. QED
      BY <3>1 DEF MdOk
  <2>3. MdTypeOK
    BY <2>1, <2>2 DEF MdTypeOK
  <2>4. MdOneSession
    BY <2>1 DEF MdOneSession, IsInjective, MdDistinct
  <2>5. QED
    BY <2>1, <2>3, <2>4 DEF MdSound
<1>2. QED
  BY <1>1, MdInvInit, MdInvNext, PTL DEF MdSpec

----------------------------------------------------------------------------
(* Message data over TCP.  The units on a connection are whole messages and the one that is being  *)
(* sent: the stream is what the replier holds of a message and what it has not read yet.           *)

TcpUnit == Nat \X (1..TcpLen)
TcpStream == tcUnc \o tcWire

TcpFlow(s) ==
  \A k \in 1..Len(s) :
    IF k > 1 /\ s[k - 1][2] < TcpLen THEN s[k] = <<s[k - 1][1], s[k - 1][2] + 1>> ELSE s[k][2] = 1

\* How much has been sent of the last message, when that is not whole
TcpRest(s) == IF s = << >> \/ s[Len(s)][2] = TcpLen THEN 0 ELSE s[Len(s)][2]

\* A session with this much of its message sent is the one the stream ends with.
TcpEndsWith(s, id, sent) == sent = TcpRest(s) /\ (sent > 0 => s[Len(s)][1] = id)

LEMMA TcpConsts == TcpLen \in Nat /\ TcpHdr \in Nat /\ 0 < TcpHdr /\ TcpHdr < TcpLen
BY TcpAssumption

LEMMA TcpEmpty == ASSUME NEW S, NEW s \in Seq(S) PROVE s = << >> <=> Len(s) = 0
OBVIOUS

LEMMA TcpUnitIs == ASSUME NEW s \in Seq(TcpUnit), NEW k \in 1..Len(s)
  PROVE s[k] \in TcpUnit /\ s[k] = <<s[k][1], s[k][2]>> /\ s[k][1] \in Nat /\ s[k][2] \in 1..TcpLen
<1>1. s[k] \in TcpUnit
  BY ElementOfSeq
<1>2. QED
  BY <1>1 DEF TcpUnit

LEMMA TcpRestIs ==
  ASSUME NEW s \in Seq(TcpUnit)
  PROVE  TcpRest(s) \in 0..(TcpLen - 1)
<1>1. CASE s = << >>
  BY <1>1, TcpConsts DEF TcpRest
<1>2. CASE s # << >>
  <2>1. Len(s) \in 1..Len(s)
    BY <1>2, TcpEmpty, LenProperties
  <2>2. s[Len(s)][2] \in 1..TcpLen
    BY <2>1, TcpUnitIs
  <2>3. QED
    BY <1>2, <2>2, TcpConsts DEF TcpRest
<1>3. QED
  BY <1>1, <1>2

LEMMA TcpUnitsAre ==
  ASSUME NEW e, e.id \in Nat, e.sent \in Nat, NEW n \in Nat, e.sent + n <= TcpLen
  PROVE  /\ TcpUnits(e, n) \in Seq(TcpUnit) /\ Len(TcpUnits(e, n)) = n
         /\ \A j \in 1..n : TcpUnits(e, n)[j] = <<e.id, e.sent + j>>
<1>1. \A j \in 1..n : <<e.id, e.sent + j>> \in TcpUnit
  BY TcpConsts DEF TcpUnit
<1>2. QED
  BY <1>1 DEF TcpUnits

\* The stream goes on with the rest of its last message, or with a new one.
LEMMA TcpFlowsOn ==
  ASSUME NEW s \in Seq(TcpUnit), TcpFlow(s), NEW e, e.id \in Nat, e.sent \in Nat, TcpEndsWith(s, e.id, e.sent),
         NEW n \in Nat, e.sent + n <= TcpLen
  PROVE  /\ (s \o TcpUnits(e, n)) \in Seq(TcpUnit) /\ TcpFlow(s \o TcpUnits(e, n))
         /\ e.sent + n < TcpLen => TcpEndsWith(s \o TcpUnits(e, n), e.id, e.sent + n)
         /\ e.sent + n = TcpLen => TcpRest(s \o TcpUnits(e, n)) = 0
<1> DEFINE u == TcpUnits(e, n)
           w == s \o u
<1>1. u \in Seq(TcpUnit) /\ Len(u) = n /\ \A j \in 1..n : u[j] = <<e.id, e.sent + j>>
  BY TcpUnitsAre
<1> HIDE DEF u
<1>2. /\ w \in Seq(TcpUnit) /\ Len(w) = Len(s) + n /\ Len(s) \in Nat
      /\ \A k \in 1..(Len(s) + n) : w[k] = IF k <= Len(s) THEN s[k] ELSE u[k - Len(s)]
  BY <1>1, ConcatProperties, LenProperties
<1> HIDE DEF w
<1>3. e.sent \in 0..(TcpLen - 1) /\ e.sent = TcpRest(s)
  BY TcpRestIs DEF TcpEndsWith
<1>4. Len(s) > 0 => Len(s) \in 1..Len(s) /\ s[Len(s)] = <<s[Len(s)][1], s[Len(s)][2]>> /\ s[Len(s)][2] \in 1..TcpLen
  <2>1. SUFFICES ASSUME Len(s) > 0 PROVE Len(s) \in 1..Len(s)
    BY TcpUnitIs
  <2>2. QED
    BY <1>2, <2>1
<1>5. s = << >> <=> Len(s) = 0
  BY TcpEmpty
<1>6. CASE e.sent = 0
  <2>1. Len(s) > 0 => s[Len(s)][2] = TcpLen
    BY <1>3, <1>4, <1>5, <1>6 DEF TcpRest
  <2>2. ASSUME NEW k \in 1..Len(w)
        PROVE  IF k > 1 /\ w[k - 1][2] < TcpLen THEN w[k] = <<w[k - 1][1], w[k - 1][2] + 1>> ELSE w[k][2] = 1
    <3>1. CASE k <= Len(s)
      <4>1. w[k] = s[k] /\ k \in 1..Len(s) /\ (k > 1 => w[k - 1] = s[k - 1])
        BY <1>2, <2>2, <3>1
      <4>2. QED
        BY <4>1 DEF TcpFlow
    <3>2. CASE k = Len(s) + 1
      <4>a. k \in 1..(Len(s) + n) /\ ~(k <= Len(s)) /\ k - Len(s) = 1 /\ 1 \in 1..n
        BY <1>2, <2>2, <3>2
      <4>b. w[k] = u[1] /\ u[1] = <<e.id, e.sent + 1>> /\ e.sent + 1 = 1
        BY <1>1, <1>2, <1>6, <4>a
      <4>c. k > 1 => k - 1 = Len(s) /\ Len(s) > 0 /\ k - 1 \in 1..(Len(s) + n)
        BY <1>2, <3>2
      <4>1. w[k] = <<e.id, 1>> /\ (k > 1 => w[k - 1] = s[Len(s)] /\ Len(s) > 0)
        BY <1>2, <4>b, <4>c
      <4>2. QED
        BY <4>1, <2>1, TcpConsts
    <3>3. CASE k > Len(s) + 1
      <4>1. /\ k - Len(s) \in 1..n /\ k - 1 - Len(s) \in 1..n /\ ~(k <= Len(s)) /\ ~(k - 1 <= Len(s)) /\ k - 1 \in 1..(Len(s) + n)
            /\ k > 1 /\ k \in 1..(Len(s) + n)
        BY <1>2, <2>2, <3>3
      <4>a. w[k] = <<e.id, e.sent + (k - Len(s))>> /\ w[k - 1] = <<e.id, e.sent + (k - 1 - Len(s))>>
        BY <1>1, <1>2, <4>1
      <4>b. e.sent + (k - Len(s)) = k - Len(s) /\ e.sent + (k - 1 - Len(s)) = k - 1 - Len(s)
        BY <1>2, <1>6, <2>2
      <4>2. w[k] = <<e.id, k - Len(s)>> /\ w[k - 1] = <<e.id, k - 1 - Len(s)>>
        BY <4>a, <4>b
      <4>3. k - 1 - Len(s) < TcpLen /\ k - 1 - Len(s) + 1 = k - Len(s)
        BY <1>2, <1>6, <2>2, TcpConsts
      <4>4. QED
        BY <4>1, <4>2, <4>3
    <3>4. QED
      BY <1>2, <2>2, <3>1, <3>2, <3>3
  <2>3. TcpFlow(w)
    BY <2>2 DEF TcpFlow
  <2>4. QED
    <3>1. CASE n = 0
      <4>1. w = s
        BY <1>1, <1>2, <3>1, TcpEmpty
      <4>2. TcpEndsWith(w, e.id, e.sent + n) /\ ~(e.sent + n = TcpLen)
        <5>1. e.sent + n = e.sent
          BY <1>6, <3>1
        <5>2. QED
          BY <1>6, <4>1, <5>1, TcpConsts
      <4>3. QED
        BY <1>2, <2>3, <4>2 DEF w, u
    <3>2. CASE n > 0
      <4>1. w[Len(w)] = <<e.id, n>> /\ w # << >>
        <5>1. Len(w) \in 1..(Len(s) + n) /\ ~(Len(w) <= Len(s)) /\ Len(w) - Len(s) = n /\ n \in 1..n
          BY <1>2, <3>2
        <5>2. QED
          BY <1>1, <1>2, <1>6, <5>1, TcpEmpty
      <4>2. TcpRest(w) = IF n = TcpLen THEN 0 ELSE n
        BY <4>1 DEF TcpRest
      <4>a. e.sent + n = n
        BY <1>6
      <4>b. n < TcpLen => TcpEndsWith(w, e.id, n)
        BY <4>1, <4>2, TcpConsts DEF TcpEndsWith
      <4>3. QED
        BY <1>2, <2>3, <4>2, <4>a, <4>b DEF w, u
    <3>3. QED
      BY <3>1, <3>2
<1>7. CASE e.sent > 0
  <2>a. TcpRest(s) > 0 /\ s[Len(s)][1] = e.id
    BY <1>3, <1>7 DEF TcpEndsWith
  <2>b. s # << >> /\ TcpRest(s) = s[Len(s)][2]
    BY <2>a DEF TcpRest
  <2>c. Len(s) > 0
    BY <1>2, <1>5, <2>b
  <2>1. Len(s) > 0 /\ s[Len(s)] = <<e.id, e.sent>> /\ e.sent < TcpLen
    BY <1>3, <1>4, <2>a, <2>b, <2>c, TcpConsts
  <2>2. ASSUME NEW k \in 1..Len(w)
        PROVE  IF k > 1 /\ w[k - 1][2] < TcpLen THEN w[k] = <<w[k - 1][1], w[k - 1][2] + 1>> ELSE w[k][2] = 1
    <3>1. CASE k <= Len(s)
      <4>1. w[k] = s[k] /\ k \in 1..Len(s) /\ (k > 1 => w[k - 1] = s[k - 1])
        BY <1>2, <2>2, <3>1
      <4>2. QED
        BY <4>1 DEF TcpFlow
    <3>2. CASE k = Len(s) + 1
      <4>a. k \in 1..(Len(s) + n) /\ ~(k <= Len(s)) /\ k - Len(s) = 1 /\ 1 \in 1..n
        BY <1>2, <2>2, <3>2
      <4>b. w[k] = u[1] /\ u[1] = <<e.id, e.sent + 1>>
        BY <1>1, <1>2, <4>a
      <4>c. k > 1 /\ k - 1 = Len(s) /\ k - 1 \in 1..(Len(s) + n) /\ Len(s) <= Len(s)
        BY <1>2, <2>1, <3>2
      <4>1. w[k] = <<e.id, e.sent + 1>> /\ k > 1 /\ w[k - 1] = s[Len(s)]
        BY <1>2, <4>b, <4>c
      <4>2. QED
        BY <4>1, <2>1
    <3>3. CASE k > Len(s) + 1
      <4>1. /\ k - Len(s) \in 1..n /\ k - 1 - Len(s) \in 1..n /\ ~(k <= Len(s)) /\ ~(k - 1 <= Len(s)) /\ k - 1 \in 1..(Len(s) + n)
            /\ k > 1 /\ k \in 1..(Len(s) + n)
        BY <1>2, <2>2, <3>3
      <4>2. w[k] = <<e.id, e.sent + (k - Len(s))>> /\ w[k - 1] = <<e.id, e.sent + (k - 1 - Len(s))>>
        BY <1>1, <1>2, <4>1
      <4>3. e.sent + (k - 1 - Len(s)) < TcpLen /\ e.sent + (k - 1 - Len(s)) + 1 = e.sent + (k - Len(s))
        BY <1>2, <2>2, TcpConsts
      <4>4. QED
        BY <4>1, <4>2, <4>3
    <3>4. QED
      BY <1>2, <2>2, <3>1, <3>2, <3>3
  <2>3. TcpFlow(w)
    BY <2>2 DEF TcpFlow
  <2>4. w[Len(w)] = <<e.id, e.sent + n>> /\ w # << >>
    <3>1. CASE n = 0
      BY <1>2, <2>1, <3>1, TcpEmpty
    <3>2. CASE n > 0
      <4>1. Len(w) \in 1..(Len(s) + n) /\ ~(Len(w) <= Len(s)) /\ Len(w) - Len(s) = n /\ n \in 1..n
        BY <1>2, <3>2
      <4>2. QED
        BY <1>1, <1>2, <4>1, TcpEmpty
    <3>3. QED
      BY <3>1, <3>2
  <2>5. TcpRest(w) = IF e.sent + n = TcpLen THEN 0 ELSE e.sent + n
    BY <2>4 DEF TcpRest
  <2>6. QED
    BY <1>2, <2>3, <2>4, <2>5, TcpConsts DEF TcpEndsWith, w, u
<1>8. QED
  BY <1>6, <1>7

\* The first message of a stream, as far as it is there
LEMMA TcpFirst ==
  ASSUME NEW s \in Seq(TcpUnit), TcpFlow(s), NEW j \in 1..Len(s), j <= TcpLen
  PROVE  s[j] = <<s[1][1], j>>
<1> DEFINE Bad == {k \in 1..Len(s) : k <= TcpLen /\ s[k] # <<s[1][1], k>>}
<1> SUFFICES ASSUME Bad # {} PROVE FALSE
  OBVIOUS
<1>1. Bad \subseteq Nat /\ Len(s) \in Nat
  BY LenProperties
<1>2. PICK k \in Bad : \A i \in Bad : k <= i
  <2> HIDE DEF Bad
  <2> QED BY <1>1, LeastOf
<1>3. k \in 1..Len(s) /\ k <= TcpLen /\ s[k] # <<s[1][1], k>> /\ 1 \in 1..Len(s)
  BY <1>1, <1>2
<1>4. CASE k = 1
  <2>1. s[1][2] = 1
    BY <1>3 DEF TcpFlow
  <2>2. QED
    BY <1>3, <1>4, <2>1, TcpUnitIs
<1>5. CASE k > 1
  <2>1. k - 1 \in 1..Len(s) /\ k - 1 <= TcpLen /\ ~(k <= k - 1)
    BY <1>3, <1>5, TcpConsts
  <2>2. s[k - 1] = <<s[1][1], k - 1>>
    BY <1>2, <2>1
  <2>3. s[k - 1][2] < TcpLen
    BY <1>3, <2>2, TcpConsts
  <2>4. s[k] = <<s[k - 1][1], s[k - 1][2] + 1>>
    BY <1>3, <1>5, <2>3 DEF TcpFlow
  <2>5. k - 1 + 1 = k
    BY <1>3
  <2>6. QED
    BY <1>3, <2>2, <2>4, <2>5
<1>6. QED
  BY <1>3, <1>4, <1>5

\* A stream that ends with a message is empty or has a message at least.
LEMMA TcpWholeFirst ==
  ASSUME NEW s \in Seq(TcpUnit), TcpFlow(s), TcpRest(s) = 0, s # << >>
  PROVE  Len(s) >= TcpLen
<1> SUFFICES ASSUME Len(s) < TcpLen PROVE FALSE
  BY TcpConsts, LenProperties
<1>1. Len(s) \in 1..Len(s) /\ Len(s) \in Nat /\ Len(s) > 0
  BY TcpEmpty, LenProperties
<1>2. s[Len(s)] = <<s[1][1], Len(s)>>
  BY <1>1, TcpFirst, TcpConsts
<1>3. TcpRest(s) = Len(s)
  BY <1>2, TcpConsts, <1>1 DEF TcpRest
<1>4. QED
  BY <1>1, <1>3

\* Without its first message the stream is one, and ends as before.
LEMMA TcpFlowsBehind ==
  ASSUME NEW s \in Seq(TcpUnit), TcpFlow(s), Len(s) >= TcpLen, NEW w \in Seq(TcpUnit), Len(w) = Len(s) - TcpLen,
         \A k \in 1..Len(w) : w[k] = s[TcpLen + k]
  PROVE  /\ TcpFlow(w) /\ TcpRest(w) = TcpRest(s) /\ \A id, sent : TcpEndsWith(s, id, sent) => TcpEndsWith(w, id, sent)
<1>1. Len(s) \in Nat /\ Len(w) \in Nat /\ TcpLen \in Nat /\ TcpLen > 0
  BY TcpConsts, LenProperties
<1>2. s[TcpLen] = <<s[1][1], TcpLen>> /\ s[TcpLen][2] = TcpLen
  <2>1. TcpLen \in 1..Len(s) /\ TcpLen <= TcpLen
    BY <1>1
  <2>2. s[TcpLen] = <<s[1][1], TcpLen>>
    BY <2>1, TcpFirst
  <2>3. QED
    BY <2>2
<1>3. TcpFlow(w)
  <2> SUFFICES ASSUME NEW k \in 1..Len(w)
      PROVE  IF k > 1 /\ w[k - 1][2] < TcpLen THEN w[k] = <<w[k - 1][1], w[k - 1][2] + 1>> ELSE w[k][2] = 1
    BY DEF TcpFlow
  <2>1. TcpLen + k \in 1..Len(s) /\ TcpLen + k > 1 /\ w[k] = s[TcpLen + k]
    BY <1>1
  <2>2. IF s[(TcpLen + k) - 1][2] < TcpLen THEN s[TcpLen + k] = <<s[(TcpLen + k) - 1][1], s[(TcpLen + k) - 1][2] + 1>> ELSE s[TcpLen + k][2] = 1
    BY <2>1 DEF TcpFlow
  <2>3. CASE k = 1
    <3>1. (TcpLen + k) - 1 = TcpLen
      BY <1>1, <2>3
    <3>2. ~(s[(TcpLen + k) - 1][2] < TcpLen)
      BY <1>1, <1>2, <3>1
    <3>3. QED
      BY <2>1, <2>2, <2>3, <3>2
  <2>4. CASE k > 1
    <3>1. k - 1 \in 1..Len(w) /\ TcpLen + (k - 1) = (TcpLen + k) - 1
      BY <1>1, <2>4
    <3>2. w[k - 1] = s[(TcpLen + k) - 1]
      BY <3>1
    <3>3. QED
      BY <2>1, <2>2, <2>4, <3>2
  <2>5. QED
    BY <2>3, <2>4, <1>1
<1>4. TcpRest(w) = TcpRest(s) /\ (TcpRest(s) > 0 => w # << >> /\ w[Len(w)] = s[Len(s)])
  <2>1. CASE w = << >>
    <3>1. Len(w) = 0 /\ Len(s) = TcpLen /\ s # << >>
      BY <1>1, <2>1, TcpEmpty
    <3>2. TcpRest(s) = 0 /\ TcpRest(w) = 0
      BY <1>2, <2>1, <3>1 DEF TcpRest
    <3>3. QED
      BY <3>2
  <2>2. CASE w # << >>
    <3>1. Len(w) \in 1..Len(w) /\ TcpLen + Len(w) = Len(s) /\ Len(s) > 0
      BY <1>1, <2>2, TcpEmpty
    <3>2. w[Len(w)] = s[Len(s)] /\ s # << >>
      BY <3>1, TcpEmpty
    <3>3. QED
      BY <2>2, <3>2 DEF TcpRest
  <2>3. QED
    BY <2>1, <2>2
<1>5. QED
  BY <1>3, <1>4 DEF TcpEndsWith

TcpEles == [id : Nat, sent : 0..TcpLen, doConnect : BOOLEAN, part : BOOLEAN,
            st : {"arm", "wait", "replied"}, morituri : BOOLEAN]
TcpSocks == [open : BOOLEAN, usage : Nat, notSend : BOOLEAN, sendNotOk : {"off", "running", "over"},
             unused : {"off", "running", "over"}]
TcpPairs == [queue : Seq(TcpEles), sock : TcpSocks]

\* A run of values, each made of the one before
LEMMA RunStays ==
  ASSUME NEW n \in Nat, NEW X, NEW g, g[0] \in X[0], \A i \in 1..n : g[i - 1] \in X[i - 1] => g[i] \in X[i]
  PROVE  g[n] \in X[n]
<1> DEFINE Bad == {i \in 0..n : g[i] \notin X[i]}
<1> SUFFICES ASSUME Bad # {} PROVE FALSE
  OBVIOUS
<1>1. Bad \subseteq Nat
  OBVIOUS
<1>2. PICK i \in Bad : \A j \in Bad : i <= j
  <2> HIDE DEF Bad
  <2> QED BY <1>1, LeastOf
<1>3. i \in 0..n /\ g[i] \notin X[i]
  BY <1>2
<1>4. i \in 1..n /\ i - 1 \in 0..n /\ ~(i <= i - 1)
  BY <1>3
<1>5. g[i - 1] \in X[i - 1]
  BY <1>2, <1>4
<1>6. QED
  BY <1>3, <1>4, <1>5

LEMMA TcpClosedIs ==
  ASSUME NEW st \in TcpPairs, NEW e \in TcpEles
  PROVE  TcpClosed(st, e) \in TcpPairs
<1>1. st.queue \in Seq(TcpEles) /\ st.sock \in TcpSocks
  BY DEF TcpPairs
<1>2. Append(st.queue, e) \in Seq(TcpEles)
  BY <1>1, AppendProperties
<1>3. TcpRelease(st.sock) \in TcpSocks
  <2>1. st.sock.usage > 1 => st.sock.usage - 1 \in Nat
    BY <1>1 DEF TcpSocks
  <2>2. QED
    BY <1>1, <2>1 DEF TcpRelease, TcpSocks
<1>4. QED
  BY <1>1, <1>2, <1>3 DEF TcpClosed, TcpPairs

\* trdp_mdCloseSessions takes one session after the other.
LEMMA TcpClosingRun ==
  ASSUME NEW q \in Seq(TcpEles), NEW sock \in TcpSocks
  PROVE  \E g : /\ g[0] = [queue |-> << >>, sock |-> sock] /\ TcpClosing(q, sock) = g[Len(q)]
                /\ \A i \in 1..Len(q) : g[i] = TcpClosed(g[i - 1], q[i])
<1> DEFINE n == Len(q)
           base == [queue |-> << >>, sock |-> sock]
           Step(t, z) == IF z = {} THEN base ELSE TcpClosed(t[z \ {Max(z)}], q[Max(z)])
           G == [k \in TcpPairs \X (1..n) |-> TcpClosed(k[1], q[k[2]])]
           T == CHOOSE t : t = [z \in SUBSET (1..n) |-> Step(t, z)]
<1>1. n \in Nat /\ DOMAIN q = 1..n /\ \A i \in 1..n : q[i] \in TcpEles
  BY ElementOfSeq
<1>2. TcpClosing(q, sock) = T[1..n]
  <2>1. TcpClosing(q, sock) = (CHOOSE t : t = [z \in SUBSET DOMAIN q |-> Step(t, z)])[DOMAIN q]
    BY Zenon DEF TcpClosing, FoldLeft, MapThenFoldSet
  <2> HIDE DEF Step
  <2>2. QED
    BY <1>1, <2>1
<1>3. G \in [TcpPairs \X (1..n) -> TcpPairs] /\ base \in TcpPairs
  <2>1. ASSUME NEW d \in TcpPairs, NEW i \in 1..n PROVE TcpClosed(d, q[i]) \in TcpPairs
    BY <1>1, TcpClosedIs
  <2>2. base \in TcpPairs
    BY DEF TcpPairs
  <2>3. QED
    BY <2>1, <2>2
<1>4. PICK t \in [SUBSET (1..n) -> TcpPairs] : FoldTable(G, base, n, t)
  <2> HIDE DEF G, n, base
  <2> QED BY <1>1, <1>3, FoldTableExists
<1> HIDE DEF base
<1>5. \A z \in SUBSET (1..n) : t[z] = Step(t, z)
  <2> SUFFICES ASSUME NEW z \in SUBSET (1..n) PROVE t[z] = Step(t, z)
    OBVIOUS
  <2>1. CASE z = {}
    BY <1>4, <2>1 DEF FoldTable
  <2>2. CASE z # {}
    <3>1. Max(z) \in z /\ z \ {Max(z)} \in SUBSET (1..n)
      <4> HIDE DEF n
      <4> QED BY <1>1, <2>2, MaxOf
    <3>2. <<t[z \ {Max(z)}], Max(z)>> \in TcpPairs \X (1..n)
      BY <3>1
    <3>3. t[z] = G[<<t[z \ {Max(z)}], Max(z)>>]
      BY <1>4, <2>2 DEF FoldTable
    <3>4. QED
      BY <2>2, <3>2, <3>3
  <2>3. QED
    BY <2>1, <2>2
<1>6. t = [z \in SUBSET (1..n) |-> Step(t, z)]
  <2> HIDE DEF Step
  <2> QED BY <1>5
<1>7. T = [z \in SUBSET (1..n) |-> Step(T, z)]
  <2> HIDE DEF Step
  <2> QED BY <1>6, Zenon
<1>8. \A z \in SUBSET (1..n) : T[z] = Step(T, z)
  <2> HIDE DEF T, Step
  <2> QED BY <1>7
<1> HIDE DEF T
<1> DEFINE g == [i \in 0..n |-> T[1..i]]
<1>9. g[0] = base
  <2>1. (1..0) = {} /\ {} \in SUBSET (1..n) /\ g[0] = T[1..0]
    BY <1>1
  <2>2. T[{}] = base
    BY <1>8, <2>1
  <2>3. QED
    BY <2>1, <2>2
<1>10. ASSUME NEW i \in 1..n PROVE g[i] = TcpClosed(g[i - 1], q[i])
  <2>1. (1..i) \in SUBSET (1..n) /\ (1..i) # {} /\ (1..i) \ {i} = 1..(i - 1) /\ i \in 1..i
    <3> HIDE DEF n
    <3>1. n \in Nat
      BY <1>1
    <3>2. i \in 1..n
      OBVIOUS
    <3>3. (1..i) \subseteq (1..n) /\ i \in 1..i
      BY ONLY <3>1, <3>2
    <3>4. (1..i) \ {i} = 1..(i - 1)
      BY ONLY <3>1, <3>2
    <3>5. QED
      BY <3>3, <3>4
  <2>2. Max(1..i) = i
    <3>1. Max(1..i) \in 1..i /\ i <= Max(1..i)
      <4> HIDE DEF n
      <4> QED BY <1>1, <2>1, MaxOf
    <3>2. QED
      BY <3>1
  <2>3. T[1..i] = TcpClosed(T[1..(i - 1)], q[i])
    BY <1>8, <2>1, <2>2
  <2>4. g[i] = T[1..i] /\ g[i - 1] = T[1..(i - 1)]
    BY <1>1
  <2>5. QED
    BY <2>3, <2>4
<1>11. g[n] = T[1..n]
  BY <1>1
<1> HIDE DEF g
<1>12. QED
  BY <1>2, <1>9, <1>10, <1>11 DEF base

TcpOnePart(q) == \A i, j \in DOMAIN q : q[i].part /\ q[j].part => i = j

\* What is left when i sessions of q have been seen: sessions of q, and each of them uses the socket.
TcpLeaves(q, sock, i, r) ==
  /\ r.sock.open = sock.open /\ r.sock.notSend = sock.notSend
  /\ ~sock.open => r.sock = sock
  /\ sock.open /\ sock.usage = Len(q) => r.sock.usage = Len(r.queue) + (Len(q) - i)
  /\ \A a \in 1..Len(r.queue) : \E j \in 1..i : r.queue[a] = q[j]
  /\ TcpOnePart(q) => TcpOnePart(r.queue)
  /\ (\A j \in 1..i : q[j].morituri) => r.queue = << >>

LEMMA TcpLeavesOn ==
  ASSUME NEW q \in Seq(TcpEles), NEW sock \in TcpSocks, NEW i \in 1..Len(q), NEW r \in TcpPairs,
         TcpLeaves(q, sock, i - 1, r)
  PROVE  TcpLeaves(q, sock, i, TcpClosed(r, q[i]))
<1>1. r.queue \in Seq(TcpEles) /\ r.sock \in TcpSocks /\ q[i] \in TcpEles /\ Len(q) \in Nat /\ Len(r.queue) \in Nat
  BY ElementOfSeq, LenProperties DEF TcpPairs
<1>2. CASE q[i].morituri
  <2> DEFINE s == TcpRelease(r.sock)
  <2>1. TcpClosed(r, q[i]) = [r EXCEPT !.sock = s]
    BY <1>2 DEF TcpClosed
  <2>2. TcpClosed(r, q[i]).sock = s /\ TcpClosed(r, q[i]).queue = r.queue
    BY <2>1 DEF TcpPairs
  <2>3. s.open = r.sock.open /\ s.notSend = r.sock.notSend /\ (~r.sock.open => s = r.sock)
    BY <1>1 DEF TcpRelease, TcpSocks
  <2>4. sock.open /\ sock.usage = Len(q) => s.usage = Len(r.queue) + (Len(q) - i)
    <3> SUFFICES ASSUME sock.open, sock.usage = Len(q) PROVE s.usage = Len(r.queue) + (Len(q) - i)
      OBVIOUS
    <3>1. r.sock.usage = Len(r.queue) + (Len(q) - (i - 1)) /\ r.sock.open
      BY DEF TcpLeaves
    <3>2. s.usage = IF r.sock.usage > 1 THEN r.sock.usage - 1 ELSE 0
      BY <1>1, <3>1 DEF TcpRelease, TcpSocks
    <3>3. ASSUME NEW u, NEW l \in Nat, NEW m \in Nat, NEW k \in 1..m, u = l + (m - (k - 1))
          PROVE  (IF u > 1 THEN u - 1 ELSE 0) = l + (m - k)
      BY <3>3
    <3> HIDE DEF s
    <3> DEFINE u == r.sock.usage
               l == Len(r.queue)
               m == Len(q)
    <3>4. l \in Nat /\ m \in Nat /\ i \in 1..m /\ u = l + (m - (i - 1))
      BY <1>1, <3>1
    <3> HIDE DEF u, l, m
    <3>5. (IF u > 1 THEN u - 1 ELSE 0) = l + (m - i)
      BY <3>3, <3>4
    <3>6. QED
      BY <3>2, <3>5 DEF u, l, m
  <2> HIDE DEF s
  <2>5. \A a \in 1..Len(r.queue) : \E j \in 1..i : r.queue[a] = q[j]
    <3>1. \A j \in 1..(i - 1) : j \in 1..i
      OBVIOUS
    <3>2. QED
      BY <3>1 DEF TcpLeaves
  <2>6. (\A j \in 1..i : q[j].morituri) => r.queue = << >>
    <3>1. \A j \in 1..(i - 1) : j \in 1..i
      OBVIOUS
    <3>2. QED
      BY <3>1 DEF TcpLeaves
  <2>7. QED
    BY <2>2, <2>3, <2>4, <2>5, <2>6 DEF TcpLeaves
<1>3. CASE ~q[i].morituri
  <2> DEFINE w == Append(r.queue, q[i])
  <2>1. TcpClosed(r, q[i]) = [r EXCEPT !.queue = w]
    BY <1>3 DEF TcpClosed
  <2>2. TcpClosed(r, q[i]).sock = r.sock /\ TcpClosed(r, q[i]).queue = w
    BY <2>1 DEF TcpPairs
  <2>3. /\ w \in Seq(TcpEles) /\ Len(w) = Len(r.queue) + 1 /\ w[Len(r.queue) + 1] = q[i]
        /\ \A a \in 1..Len(r.queue) : w[a] = r.queue[a]
    BY <1>1, AppendProperties
  <2> HIDE DEF w
  <2>4. sock.open /\ sock.usage = Len(q) => r.sock.usage = Len(w) + (Len(q) - i)
    <3>1. ASSUME NEW l \in Nat, NEW m \in Nat, NEW k \in 1..m PROVE l + (m - (k - 1)) = l + 1 + (m - k)
      BY <3>1
    <3>2. sock.open /\ sock.usage = Len(q) => r.sock.usage = Len(r.queue) + (Len(q) - (i - 1))
      BY DEF TcpLeaves
    <3>3. Len(r.queue) + (Len(q) - (i - 1)) = Len(w) + (Len(q) - i)
      BY <1>1, <2>3, <3>1
    <3>4. QED
      BY <3>2, <3>3
  <2>5. \A a \in 1..Len(w) : \E j \in 1..i : w[a] = q[j]
    <3> SUFFICES ASSUME NEW a \in 1..Len(w) PROVE \E j \in 1..i : w[a] = q[j]
      OBVIOUS
    <3>1. CASE a = Len(r.queue) + 1
      <4>1. i \in 1..i /\ w[a] = q[i]
        BY <2>3, <3>1
      <4>2. QED
        BY <4>1
    <3>2. CASE a \in 1..Len(r.queue)
      <4>1. PICK j \in 1..(i - 1) : r.queue[a] = q[j]
        BY <3>2 DEF TcpLeaves
      <4>2. j \in 1..i /\ w[a] = q[j]
        BY <2>3, <3>2, <4>1
      <4>3. QED
        BY <4>2
    <3>3. a = Len(r.queue) + 1 \/ a \in 1..Len(r.queue)
      BY <1>1, <2>3
    <3>4. QED
      BY <3>1, <3>2, <3>3
  <2>6. ASSUME TcpOnePart(q) PROVE TcpOnePart(w)
    <3>1. DOMAIN w = 1..(Len(r.queue) + 1) /\ DOMAIN r.queue = 1..Len(r.queue) /\ DOMAIN q = 1..Len(q)
      BY <1>1, <2>3, LenProperties
    <3>2. ASSUME q[i].part, NEW a \in 1..Len(r.queue), r.queue[a].part PROVE FALSE
      <4>1. PICK j \in 1..(i - 1) : r.queue[a] = q[j]
        BY DEF TcpLeaves
      <4>2. j \in 1..Len(q) /\ i \in 1..Len(q) /\ j # i
        BY <1>1
      <4>3. QED
        BY <2>6, <3>1, <3>2, <4>1, <4>2 DEF TcpOnePart
    <3>3. TcpOnePart(r.queue)
      BY <2>6 DEF TcpLeaves
    <3>4. SUFFICES ASSUME NEW a \in 1..(Len(r.queue) + 1), NEW b \in 1..(Len(r.queue) + 1), w[a].part, w[b].part
                   PROVE  a = b
      BY <3>1 DEF TcpOnePart
    <3>5. CASE a \in 1..Len(r.queue) /\ b \in 1..Len(r.queue)
      BY <2>3, <3>1, <3>3, <3>4, <3>5 DEF TcpOnePart
    <3>6. CASE a \in 1..Len(r.queue) /\ b = Len(r.queue) + 1
      BY <2>3, <3>2, <3>4, <3>6
    <3>7. CASE a = Len(r.queue) + 1 /\ b \in 1..Len(r.queue)
      BY <2>3, <3>2, <3>4, <3>7
    <3>8. QED
      BY <1>1, <3>4, <3>5, <3>6, <3>7
  <2>7. i \in 1..i
    OBVIOUS
  <2>8. QED
    BY <1>3, <2>2, <2>4, <2>5, <2>6, <2>7 DEF TcpLeaves
<1>4. QED
  BY <1>2, <1>3

LEMMA TcpClosingFacts ==
  ASSUME NEW q \in Seq(TcpEles), NEW sock \in TcpSocks
  PROVE  TcpClosing(q, sock) \in TcpPairs /\ TcpLeaves(q, sock, Len(q), TcpClosing(q, sock))
<1> DEFINE n == Len(q)
           X == [i \in 0..n |-> {r \in TcpPairs : TcpLeaves(q, sock, i, r)}]
<1>1. PICK g : /\ g[0] = [queue |-> << >>, sock |-> sock] /\ TcpClosing(q, sock) = g[n]
               /\ \A i \in 1..n : g[i] = TcpClosed(g[i - 1], q[i])
  BY TcpClosingRun
<1>2. n \in Nat /\ \A i \in 1..n : q[i] \in TcpEles
  BY ElementOfSeq, LenProperties
<1> HIDE DEF n
<1>3. g[0] \in X[0]
  <2>1. g[0] \in TcpPairs
    BY <1>1 DEF TcpPairs
  <2>2. g[0].queue = << >> /\ g[0].sock = sock /\ Len(<< >>) = 0
    BY <1>1
  <2>3. TcpLeaves(q, sock, 0, g[0])
    BY <2>2, <1>2 DEF TcpLeaves, TcpOnePart, n
  <2>4. QED
    BY <1>2, <2>1, <2>3
<1>4. ASSUME NEW i \in 1..n, g[i - 1] \in X[i - 1] PROVE g[i] \in X[i]
  <2>1. i - 1 \in 0..n /\ i \in 0..n
    BY <1>2
  <2>2. g[i - 1] \in TcpPairs /\ TcpLeaves(q, sock, i - 1, g[i - 1])
    BY <1>4, <2>1
  <2>3. g[i] = TcpClosed(g[i - 1], q[i])
    BY <1>1
  <2>4. g[i] \in TcpPairs
    BY <1>2, <2>2, <2>3, TcpClosedIs
  <2>5. TcpLeaves(q, sock, i, g[i])
    BY <2>2, <2>3, TcpLeavesOn DEF n
  <2>6. QED
    BY <2>1, <2>4, <2>5
<1>5. g[n] \in X[n]
  <2> HIDE DEF X
  <2> QED BY <1>2, <1>3, <1>4, RunStays
<1>6. QED
  BY <1>1, <1>2, <1>5 DEF n

\* The session in the middle of its message is the one the stream ends with; no other has sent a part.
TcpMine(e, s) == IF e.part THEN e.st = "arm" /\ TcpEndsWith(s, e.id, e.sent) ELSE e.st = "arm" => e.sent = 0

\* The queue, its socket, where trdp_mdSend is in it, and the stream s.  Without a connection nothing was
\* sent, and the first session is about to connect or to die.
TcpQueued(q, sock, at, up, s) ==
  /\ q \in Seq(TcpEles) /\ sock \in TcpSocks /\ at \in Nat
  /\ IF sock.open THEN sock.usage = Len(q) ELSE q = << >> /\ ~sock.notSend
  /\ (\A i \in 1..Len(q) : TcpMine(q[i], s)) /\ TcpOnePart(q)
  /\ ~sock.notSend => TcpRest(s) = 0 /\ \A i \in 1..Len(q) : ~q[i].part
  /\ ~up => /\ ~sock.notSend /\ \A i \in 1..Len(q) : q[i].st = "arm" /\ (q[i].doConnect <=> i = 1)
            /\ at > 1 => at = 2 /\ q # << >> /\ q[1].morituri

TcpStreamed ==
  /\ tcWire \in Seq(TcpUnit) /\ tcUnc \in Seq(TcpUnit) /\ Len(tcUnc) < TcpLen
  /\ tcConn \in [no : Nat, up : BOOLEAN] /\ tcSlot \in Nat /\ tcOpened \in Nat
  /\ TcpFlow(TcpStream)
  /\ ~tcConn.up => tcUnc = << >> /\ TcpRest(TcpStream) = 0

TcpKept == TcpQueued(tcQueue, tcSock, tcAt, tcConn.up, TcpStream) /\ TcpStreamed /\ TcpWhole(tcGot)
TcpInv == tcCut \/ TcpKept

----------------------------------------------------------------------------
LEMMA TcpQueuedNone ==
  ASSUME NEW s, TcpRest(s) = 0, NEW up
  PROVE  TcpQueued(<< >>, TcpNoSock, 0, up, s)
<1>1. TcpNoSock \in TcpSocks /\ TcpNoSock.open = FALSE /\ TcpNoSock.notSend = FALSE
  BY DEF TcpNoSock, TcpSocks
<1>2. << >> \in Seq(TcpEles) /\ Len(<< >>) = 0 /\ 1..0 = {}
  OBVIOUS
<1>3. TcpOnePart(<< >>)
  BY DEF TcpOnePart
<1>4. QED
  BY <1>1, <1>2, <1>3 DEF TcpQueued

LEMMA TcpQueuedUp ==
  ASSUME NEW q, NEW sock, NEW at, NEW up, NEW s, TcpQueued(q, sock, at, up, s), NEW at2 \in Nat
  PROVE  TcpQueued(q, sock, at2, TRUE, s)
BY DEF TcpQueued

LEMMA TcpQueuedAt ==
  ASSUME NEW q, NEW sock, NEW at, NEW up, NEW s, TcpQueued(q, sock, at, up, s), NEW at2 \in Nat,
         ~up /\ at2 > 1 => at2 = 2 /\ q # << >> /\ q[1].morituri
  PROVE  TcpQueued(q, sock, at2, up, s)
BY DEF TcpQueued

LEMMA TcpQueuedSock ==
  ASSUME NEW q, NEW sock, NEW at, NEW up, NEW s, TcpQueued(q, sock, at, up, s), NEW sock2 \in TcpSocks,
         sock2.open = sock.open, sock2.usage = sock.usage, sock2.notSend = sock.notSend
  PROVE  TcpQueued(q, sock2, at, up, s)
BY DEF TcpQueued

\* The stream may be another that ends with the same message.
LEMMA TcpQueuedStream ==
  ASSUME NEW q, NEW sock, NEW at, NEW up, NEW s, TcpQueued(q, sock, at, up, s), NEW w,
         TcpRest(w) = TcpRest(s), \A id, sent : TcpEndsWith(s, id, sent) => TcpEndsWith(w, id, sent)
  PROVE  TcpQueued(q, sock, at, up, w)
BY DEF TcpQueued, TcpMine

\* A new connection starts with nothing sent.
LEMMA TcpQueuedAnew ==
  ASSUME NEW q, NEW sock, NEW at, NEW s, TcpQueued(q, sock, at, FALSE, s), NEW at2 \in Nat, NEW w, TcpRest(w) = 0
  PROVE  TcpQueued(q, sock, at2, TRUE, w)
BY DEF TcpQueued, TcpMine

LEMMA TcpElement ==
  ASSUME NEW q \in Seq(TcpEles), NEW i \in 1..Len(q), NEW e \in TcpEles
  PROVE  /\ [q EXCEPT ![i] = e] \in Seq(TcpEles) /\ Len([q EXCEPT ![i] = e]) = Len(q)
         /\ \A j \in 1..Len(q) : [q EXCEPT ![i] = e][j] = IF j = i THEN e ELSE q[j]
         /\ q[i] \in TcpEles /\ DOMAIN q = 1..Len(q) /\ DOMAIN [q EXCEPT ![i] = e] = 1..Len(q)
OBVIOUS

\* One session changes.
LEMMA TcpQueuedExcept ==
  ASSUME NEW q, NEW sock, NEW at, NEW up, NEW s, TcpQueued(q, sock, at, up, s), NEW i \in 1..Len(q), NEW e \in TcpEles,
         e.part => q[i].part, TcpMine(e, s),
         ~up => e.st = "arm" /\ (e.doConnect <=> q[i].doConnect) /\ (q[i].morituri => e.morituri)
  PROVE  TcpQueued([q EXCEPT ![i] = e], sock, at, up, s)
<1> DEFINE w == [q EXCEPT ![i] = e]
<1>1. /\ w \in Seq(TcpEles) /\ Len(w) = Len(q) /\ DOMAIN q = 1..Len(q) /\ DOMAIN w = 1..Len(q) /\ Len(q) \in Nat
      /\ \A j \in 1..Len(q) : w[j] = IF j = i THEN e ELSE q[j]
  BY TcpElement, LenProperties DEF TcpQueued
<1> HIDE DEF w
<1>2. q # << >> /\ w # << >> /\ 1 \in 1..Len(q)
  <2>1. Len(q) > 0
    BY <1>1
  <2>2. QED
    BY <1>1, <2>1
<1>3. \A j \in 1..Len(w) : TcpMine(w[j], s)
  BY <1>1 DEF TcpQueued
<1>4. TcpOnePart(w)
  <2>1. \A j \in 1..Len(q) : w[j].part => q[j].part
    BY <1>1
  <2>2. QED
    BY <1>1, <2>1 DEF TcpOnePart, TcpQueued
<1>5. ~sock.notSend => TcpRest(s) = 0 /\ \A j \in 1..Len(w) : ~w[j].part
  BY <1>1 DEF TcpQueued
<1>6. IF sock.open THEN sock.usage = Len(w) ELSE w = << >> /\ ~sock.notSend
  BY <1>1, <1>2 DEF TcpQueued
<1>7. ~up => /\ ~sock.notSend /\ \A j \in 1..Len(w) : w[j].st = "arm" /\ (w[j].doConnect <=> j = 1)
             /\ at > 1 => at = 2 /\ w # << >> /\ w[1].morituri
  BY <1>1, <1>2 DEF TcpQueued
<1>8. QED
  BY <1>1, <1>3, <1>4, <1>5, <1>6, <1>7 DEF TcpQueued, w

\* trdp_mdCloseSessions
LEMMA TcpQueuedClosing ==
  ASSUME NEW q, NEW sock, NEW at, NEW up, NEW s, TcpQueued(q, sock, at, up, s),
         up \/ \A j \in 1..Len(q) : q[j].morituri
  PROVE  TcpQueued(TcpClosing(q, sock).queue, TcpClosing(q, sock).sock, 0, up, s)
<1>1. q \in Seq(TcpEles) /\ sock \in TcpSocks
  BY DEF TcpQueued
<1>2. PICK r : r = TcpClosing(q, sock)
  OBVIOUS
<1>3. r \in TcpPairs /\ TcpLeaves(q, sock, Len(q), r)
  BY <1>1, <1>2, TcpClosingFacts
<1>4. r.queue \in Seq(TcpEles) /\ r.sock \in TcpSocks /\ Len(q) \in Nat /\ Len(r.queue) \in Nat
  BY <1>1, <1>3, LenProperties DEF TcpPairs
<1>5. \A a \in 1..Len(r.queue) : \E j \in 1..Len(q) : r.queue[a] = q[j]
  BY <1>3 DEF TcpLeaves
<1>6. (r.sock.open <=> sock.open) /\ (r.sock.notSend <=> sock.notSend) /\ TcpOnePart(r.queue)
  BY <1>3 DEF TcpLeaves, TcpQueued
<1>7. IF r.sock.open THEN r.sock.usage = Len(r.queue) ELSE r.queue = << >> /\ ~r.sock.notSend
  <2>1. CASE sock.open
    BY <1>3, <1>4, <1>6, <2>1 DEF TcpLeaves, TcpQueued
  <2>2. CASE ~sock.open
    <3>1. \A j \in 1..Len(q) : q[j].morituri
      BY <2>2 DEF TcpQueued
    <3>2. QED
      BY <1>3, <1>6, <2>2, <3>1 DEF TcpLeaves, TcpQueued
  <2>3. QED
    BY <2>1, <2>2
<1>8. ~up => r.queue = << >> /\ Len(r.queue) = 0 /\ ~r.sock.notSend
  BY <1>3, <1>6 DEF TcpLeaves, TcpQueued
<1>9. TcpQueued(r.queue, r.sock, 0, up, s)
  <2>1. \A a \in 1..Len(r.queue) : TcpMine(r.queue[a], s)
    BY <1>5 DEF TcpQueued
  <2>2. ~r.sock.notSend => TcpRest(s) = 0 /\ \A a \in 1..Len(r.queue) : ~r.queue[a].part
    BY <1>5, <1>6 DEF TcpQueued
  <2>3. ~up => ~r.sock.notSend /\ \A i \in 1..Len(r.queue) : r.queue[i].st = "arm" /\ (r.queue[i].doConnect <=> i = 1)
    BY <1>4, <1>8
  <2>4. QED
    BY <1>4, <1>6, <1>7, <2>1, <2>2, <2>3 DEF TcpQueued
<1>10. QED
  BY <1>2, <1>9

LEMMA TcpDeadClosing ==
  ASSUME NEW q \in Seq(TcpEles), \A j \in 1..Len(q) : q[j].morituri
  PROVE  TcpClosing(q, TcpNoSock).queue = << >> /\ TcpClosing(q, TcpNoSock).sock = TcpNoSock
<1>1. TcpNoSock \in TcpSocks /\ TcpNoSock.open = FALSE
  BY DEF TcpNoSock, TcpSocks
<1>2. QED
  BY <1>1, TcpClosingFacts DEF TcpLeaves

----------------------------------------------------------------------------
\* What has been cut stays cut.
LEMMA TcpCutStays == ASSUME TcpNext, tcCut PROVE tcCut'
BY DEF TcpNext, TcpCall, TcpSendStart, TcpSkip, TcpConnect, TcpHeldBack, TcpSendAll, TcpSendPart, TcpSendFails,
       TcpSendEnd, TcpReplyTimeout, TcpUnusedTimeout, TcpSendingTimeout, TcpClose, TcpTick, TcpReplied, TcpAbort,
       TcpAccept, TcpRead, TcpEndOfStream, TcpCallerEof

LEMMA TcpStarts == TcpInit => TcpKept
<1> SUFFICES ASSUME TcpInit PROVE TcpKept
  OBVIOUS
<1>1. << >> \in Seq(TcpUnit) /\ Len(<< >>) = 0 /\ TcpStream = << >>
  BY DEF TcpInit, TcpStream
<1>2. TcpRest(<< >>) = 0 /\ TcpFlow(<< >>)
  BY DEF TcpRest, TcpFlow
<1>3. TcpStreamed
  BY <1>1, <1>2, TcpConsts DEF TcpStreamed, TcpInit, TcpNoConn
<1>4. TcpQueued(tcQueue, tcSock, tcAt, tcConn.up, TcpStream)
  BY <1>1, <1>2, TcpQueuedNone DEF TcpInit
<1>5. QED
  BY <1>3, <1>4 DEF TcpKept, TcpWhole, TcpInit

\* What is on the connection, and the connection, are left alone.
TcpLeftAlone == UNCHANGED <<tcWire, tcConn, tcSlot, tcUnc, tcGot>>

LEMMA TcpLeftAloneKeeps ==
  ASSUME TcpKept, TcpLeftAlone, tcOpened' \in Nat, TcpQueued(tcQueue', tcSock', tcAt', tcConn.up, TcpStream)
  PROVE  TcpKept'
<1>1. TcpStream' = TcpStream
  BY DEF TcpLeftAlone, TcpStream
<1>2. TcpStreamed'
  BY <1>1 DEF TcpKept, TcpStreamed, TcpLeftAlone
<1>3. QED
  BY <1>1, <1>2 DEF TcpKept, TcpLeftAlone

LEMMA TcpCallKeeps == ASSUME TcpKept, TcpCall PROVE TcpKept'
<1> DEFINE q == tcQueue
           s == TcpStream
           n == tcOpened + 1
           sock == TcpRequestSocket
           e == [id |-> n, sent |-> 0, doConnect |-> sock.usage <= 1, part |-> FALSE, st |-> "arm", morituri |-> FALSE]
           w == Append(q, e)
<1>1. TcpQueued(q, tcSock, tcAt, tcConn.up, s) /\ tcOpened \in Nat /\ tcAt = 0
  BY DEF TcpKept, TcpStreamed, TcpCall
<1>2. tcOpened' = n /\ tcSock' = sock /\ tcQueue' = w /\ tcAt' = tcAt /\ TcpLeftAlone
  BY DEF TcpCall, TcpLeftAlone
<1>3. q \in Seq(TcpEles) /\ tcSock \in TcpSocks /\ Len(q) \in Nat
  BY <1>1, LenProperties DEF TcpQueued
<1>4. /\ sock \in TcpSocks /\ sock.open = TRUE /\ sock.usage = Len(q) + 1
      /\ sock.notSend = (IF tcSock.open THEN tcSock.notSend ELSE FALSE)
  <2>1. CASE tcSock.open
    <3>1. sock = [tcSock EXCEPT !.usage = @ + 1] /\ tcSock.usage = Len(q)
      BY <1>1, <2>1 DEF TcpRequestSocket, TcpQueued
    <3>2. QED
      BY <1>3, <2>1, <3>1 DEF TcpSocks
  <2>2. CASE ~tcSock.open
    <3>1. sock = [TcpNoSock EXCEPT !.open = TRUE, !.usage = 1]
      BY <2>2 DEF TcpRequestSocket
    <3>2. Len(q) = 0
      BY <1>1, <2>2 DEF TcpQueued
    <3>3. sock = [open |-> TRUE, usage |-> 1, notSend |-> FALSE, sendNotOk |-> "off", unused |-> "off"]
      BY <3>1 DEF TcpNoSock
    <3> HIDE DEF sock
    <3>4. sock \in TcpSocks /\ sock.open = TRUE /\ sock.usage = 1 /\ sock.notSend = FALSE
      BY <3>3 DEF TcpSocks
    <3>5. sock.usage = Len(q) + 1
      BY <3>2, <3>4
    <3>6. sock.notSend = (IF tcSock.open THEN tcSock.notSend ELSE FALSE)
      BY <2>2, <3>4
    <3>7. QED
      BY <3>4, <3>5, <3>6
  <2>3. QED
    BY <2>1, <2>2
<1>5. sock.notSend => tcSock.notSend
  BY <1>4
<1>6. ~sock.notSend => ~tcSock.notSend
  BY <1>1, <1>4 DEF TcpQueued
<1> HIDE DEF sock
<1>7. e \in TcpEles /\ ~e.part /\ e.st = "arm" /\ e.sent = 0 /\ (e.doConnect <=> Len(q) + 1 = 1)
  <2>1. n \in Nat /\ sock.usage <= 1 <=> Len(q) + 1 = 1
    BY <1>1, <1>3, <1>4
  <2>2. n \in Nat /\ 0 \in 0..TcpLen /\ (sock.usage <= 1) \in BOOLEAN
    BY <1>1, TcpConsts
  <2> HIDE DEF n
  <2>3. QED
    BY <2>1, <2>2 DEF TcpEles
<1> HIDE DEF e
<1>8. /\ w \in Seq(TcpEles) /\ Len(w) = Len(q) + 1 /\ w[Len(q) + 1] = e /\ \A i \in 1..Len(q) : w[i] = q[i]
      /\ DOMAIN w = 1..(Len(q) + 1) /\ DOMAIN q = 1..Len(q)
  BY <1>3, <1>7, AppendProperties
<1> HIDE DEF w, q
<1>9. \A i \in 1..Len(w) : i = Len(q) + 1 \/ i \in 1..Len(q)
  BY <1>3, <1>8
<1>10. TcpQueued(w, sock, tcAt, tcConn.up, s)
  <2>1. \A i \in 1..Len(w) : TcpMine(w[i], s)
    <3>1. TcpMine(e, s)
      BY <1>7 DEF TcpMine
    <3>2. QED
      BY <1>1, <1>8, <1>9, <3>1 DEF TcpQueued
  <2>2. TcpOnePart(w)
    BY <1>1, <1>7, <1>8, <1>9 DEF TcpOnePart, TcpQueued
  <2>3. ~sock.notSend => TcpRest(s) = 0 /\ \A i \in 1..Len(w) : ~w[i].part
    BY <1>1, <1>6, <1>7, <1>8, <1>9 DEF TcpQueued
  <2>4. ~tcConn.up => ~sock.notSend /\ \A i \in 1..Len(w) : w[i].st = "arm" /\ (w[i].doConnect <=> i = 1)
    <3> SUFFICES ASSUME ~tcConn.up, NEW i \in 1..Len(w) PROVE ~sock.notSend /\ w[i].st = "arm" /\ (w[i].doConnect <=> i = 1)
      BY <1>1, <1>5 DEF TcpQueued
    <3>1. ~sock.notSend
      BY <1>1, <1>5 DEF TcpQueued
    <3>2. CASE i = Len(q) + 1
      BY <1>7, <1>8, <3>1, <3>2
    <3>3. CASE i \in 1..Len(q)
      BY <1>1, <1>8, <3>1, <3>3 DEF TcpQueued
    <3>4. QED
      BY <1>9, <3>2, <3>3
  <2>5. QED
    BY <1>1, <1>4, <1>8, <2>1, <2>2, <2>3, <2>4 DEF TcpQueued
<1>11. QED
  BY <1>1, <1>2, <1>10, TcpLeftAloneKeeps

\* The session trdp_mdSend has come to
LEMMA TcpEleIs ==
  ASSUME TcpKept, TcpPassing
  PROVE  /\ TcpEle \in TcpEles /\ tcAt \in 1..Len(tcQueue) /\ TcpEle = tcQueue[tcAt] /\ TcpMine(TcpEle, TcpStream)
         /\ TcpEle.id \in Nat /\ TcpEle.sent \in Nat /\ TcpEle.sent <= TcpLen
         /\ tcSock.open /\ tcSock \in TcpSocks /\ Len(tcQueue) \in Nat /\ tcQueue \in Seq(TcpEles)
<1>1. tcQueue \in Seq(TcpEles) /\ tcAt \in DOMAIN tcQueue
  BY DEF TcpKept, TcpQueued, TcpPassing
<1>2. tcAt \in 1..Len(tcQueue) /\ tcQueue[tcAt] \in TcpEles /\ Len(tcQueue) \in Nat
  BY <1>1, ElementOfSeq, LenProperties
<1>3. tcQueue # << >>
  BY <1>1
<1>4. TcpEle.id \in Nat /\ TcpEle.sent \in 0..TcpLen
  BY <1>2 DEF TcpEle, TcpEles
<1>5. QED
  BY <1>1, <1>2, <1>3, <1>4, TcpConsts DEF TcpEle, TcpKept, TcpQueued

LEMMA TcpSkipKeeps == ASSUME TcpKept, TcpSendStart \/ TcpSkip \/ TcpHeldBack PROVE TcpKept'
<1> DEFINE up == tcConn.up
<1>1. TcpQueued(tcQueue, tcSock, tcAt, up, TcpStream) /\ tcAt \in Nat /\ tcOpened \in Nat
  BY DEF TcpKept, TcpQueued, TcpStreamed
<1>2. TcpLeftAlone /\ tcQueue' = tcQueue /\ tcSock' = tcSock /\ tcOpened' = tcOpened
  BY DEF TcpSendStart, TcpSkip, TcpHeldBack, TcpLeftAlone
<1>3. tcAt' \in Nat /\ (~up /\ tcAt' > 1 => FALSE)
  <2>1. CASE TcpSendStart
    BY <2>1 DEF TcpSendStart
  <2>2. CASE TcpSkip
    <3>1. up
      BY <1>1, <2>2, TcpEleIs DEF TcpSkip, TcpQueued
    <3>2. QED
      BY <1>1, <2>2, <3>1 DEF TcpSkip
  <2>3. CASE TcpHeldBack
    <3>1. up
      BY <1>1, <2>3, TcpEleIs DEF TcpHeldBack, TcpQueued, TcpSends
    <3>2. QED
      BY <1>1, <2>3, <3>1 DEF TcpHeldBack
  <2>4. QED
    BY <2>1, <2>2, <2>3
<1> HIDE DEF up
<1>4. TcpQueued(tcQueue, tcSock, tcAt', up, TcpStream)
  BY <1>1, <1>3, TcpQueuedAt
<1>5. QED
  BY <1>1, <1>2, <1>4, TcpLeftAloneKeeps DEF up

----------------------------------------------------------------------------
\* What else a session is, does not change what it has sent.
LEMMA TcpFlag ==
  ASSUME NEW e \in TcpEles, NEW b \in BOOLEAN, NEW s, TcpMine(e, s)
  PROVE  /\ [e EXCEPT !.doConnect = b] \in TcpEles /\ TcpMine([e EXCEPT !.doConnect = b], s)
         /\ [e EXCEPT !.morituri = b] \in TcpEles /\ TcpMine([e EXCEPT !.morituri = b], s)
         /\ [e EXCEPT !.doConnect = b].part = e.part /\ [e EXCEPT !.morituri = b].part = e.part
         /\ [e EXCEPT !.morituri = b].st = e.st /\ [e EXCEPT !.morituri = b].doConnect = e.doConnect
         /\ [e EXCEPT !.morituri = b].morituri = b
<1>1. /\ [e EXCEPT !.doConnect = b] \in TcpEles /\ [e EXCEPT !.doConnect = b].part = e.part
      /\ [e EXCEPT !.doConnect = b].st = e.st /\ [e EXCEPT !.doConnect = b].sent = e.sent /\ [e EXCEPT !.doConnect = b].id = e.id
  BY DEF TcpEles
<1>2. /\ [e EXCEPT !.morituri = b] \in TcpEles /\ [e EXCEPT !.morituri = b].part = e.part
      /\ [e EXCEPT !.morituri = b].st = e.st /\ [e EXCEPT !.morituri = b].sent = e.sent /\ [e EXCEPT !.morituri = b].id = e.id
      /\ [e EXCEPT !.morituri = b].doConnect = e.doConnect /\ [e EXCEPT !.morituri = b].morituri = b
  BY DEF TcpEles
<1>3. TcpMine([e EXCEPT !.doConnect = b], s)
  BY ONLY <1>1, TcpMine(e, s) DEF TcpMine
<1>4. TcpMine([e EXCEPT !.morituri = b], s)
  BY ONLY <1>2, TcpMine(e, s) DEF TcpMine
<1>5. QED
  BY <1>1, <1>2, <1>3, <1>4

\* The session that is to connect finds a connection or sets one up.
LEMMA TcpConnected ==
  ASSUME NEW q, NEW sock, NEW at, NEW up, NEW s, TcpQueued(q, sock, at, up, s), NEW i \in 1..Len(q), NEW at2 \in Nat,
         NEW w, up => w = s, ~up => TcpRest(w) = 0, up \in BOOLEAN
  PROVE  TcpQueued([q EXCEPT ![i].doConnect = FALSE], sock, at2, TRUE, w)
<1>1. TcpQueued(q, sock, at2, TRUE, w)
  <2>1. CASE up
    BY <2>1, TcpQueuedUp
  <2>2. CASE ~up
    <3>1. TcpQueued(q, sock, at, FALSE, s)
      BY <2>2
    <3>2. QED
      BY <2>2, <3>1, TcpQueuedAnew
  <2>3. QED
    BY <2>1, <2>2
<1>2. q \in Seq(TcpEles) /\ q[i] \in TcpEles /\ TcpMine(q[i], w)
  BY <1>1, ElementOfSeq DEF TcpQueued
<1>3. PICK e : e = [q[i] EXCEPT !.doConnect = FALSE]
  OBVIOUS
<1>4. e \in TcpEles /\ e.part = q[i].part /\ TcpMine(e, w)
  BY <1>2, <1>3, TcpFlag
<1>5. TcpQueued([q EXCEPT ![i] = e], sock, at2, TRUE, w)
  BY <1>1, <1>4, TcpQueuedExcept
<1>6. [q EXCEPT ![i].doConnect = FALSE] = [q EXCEPT ![i] = e]
  BY <1>2, <1>3
<1>7. QED
  BY <1>5, <1>6

\* A session is to die; without a connection all it has done is to wait for one.
LEMMA TcpDoomed ==
  ASSUME NEW q, NEW sock, NEW at, NEW up, NEW s, TcpQueued(q, sock, at, up, s), NEW i \in 1..Len(q)
  PROVE  /\ TcpQueued([q EXCEPT ![i].morituri = TRUE], sock, at, up, s)
         /\ Len([q EXCEPT ![i].morituri = TRUE]) = Len(q)
         /\ \A j \in 1..Len(q) : /\ [q EXCEPT ![i].morituri = TRUE][j].morituri = (IF j = i THEN TRUE ELSE q[j].morituri)
<1>1. q \in Seq(TcpEles) /\ q[i] \in TcpEles /\ TcpMine(q[i], s)
  BY ElementOfSeq DEF TcpQueued
<1>2. PICK e : e = [q[i] EXCEPT !.morituri = TRUE]
  OBVIOUS
<1>3. e \in TcpEles /\ e.part = q[i].part /\ TcpMine(e, s) /\ e.st = q[i].st /\ e.doConnect = q[i].doConnect /\ e.morituri = TRUE
  BY <1>1, <1>2, TcpFlag
<1>4. ~up => q[i].st = "arm"
  BY DEF TcpQueued
<1>5. TcpQueued([q EXCEPT ![i] = e], sock, at, up, s)
  BY <1>3, <1>4, TcpQueuedExcept
<1>6. [q EXCEPT ![i].morituri = TRUE] = [q EXCEPT ![i] = e]
  BY <1>1, <1>2
<1>7. Len([q EXCEPT ![i] = e]) = Len(q) /\ \A j \in 1..Len(q) : [q EXCEPT ![i] = e][j] = IF j = i THEN e ELSE q[j]
  BY <1>1, <1>3, TcpElement
<1>8. QED
  BY <1>3, <1>5, <1>6, <1>7

LEMMA TcpConnectKeeps == ASSUME TcpKept, TcpConnect PROVE TcpKept'
<1> DEFINE q == tcQueue
           s == TcpStream
           up == tcConn.up
<1>1. /\ TcpQueued(q, tcSock, tcAt, up, s) /\ tcAt \in 1..Len(q) /\ tcAt \in Nat /\ up \in BOOLEAN
      /\ TcpStreamed /\ TcpWhole(tcGot) /\ tcOpened \in Nat /\ tcSock \in TcpSocks
  BY TcpEleIs DEF TcpKept, TcpConnect, TcpStreamed
<1>2. tcSlot' = tcSlot /\ tcUnc' = tcUnc /\ tcGot' = tcGot /\ tcOpened' = tcOpened /\ TcpEle.doConnect
  BY DEF TcpConnect
<1>3. CASE tcQueue' = [q EXCEPT ![tcAt].doConnect = FALSE] /\ up /\ UNCHANGED <<tcConn, tcWire>>
           /\ (\E progress \in {0, 1} : tcAt' = tcAt + progress) /\ tcSock' = tcSock
  <2>1. tcAt' \in Nat
    BY <1>1, <1>3
  <2>2. TcpQueued(tcQueue', tcSock', tcAt', TRUE, s)
    <3> HIDE DEF s
    <3>1. QED
      BY <1>1, <1>3, <2>1, TcpConnected
  <2>3. TcpLeftAlone
    BY <1>2, <1>3 DEF TcpLeftAlone
  <2>4. tcConn.up = TRUE
    BY <1>1, <1>3
  <2>5. QED
    BY <1>1, <1>2, <2>2, <2>3, <2>4, TcpLeftAloneKeeps
<1>4. CASE tcQueue' = [q EXCEPT ![tcAt].doConnect = FALSE] /\ ~up /\ tcConn' = [no |-> tcConn.no + 1, up |-> TRUE]
           /\ tcWire' = << >> /\ (\E progress \in {0, 1} : tcAt' = tcAt + progress) /\ tcSock' = tcSock
  <2>1. tcAt' \in Nat
    BY <1>1, <1>4
  <2>2. /\ tcUnc' = << >> /\ tcWire' = << >> /\ << >> \in Seq(TcpUnit) /\ Len(<< >>) = 0
        /\ tcConn' \in [no : Nat, up : BOOLEAN] /\ tcConn'.up = TRUE
    BY <1>1, <1>2, <1>4 DEF TcpStreamed
  <2>3. TcpStream' = << >> /\ TcpRest(TcpStream') = 0 /\ TcpFlow(TcpStream')
    <3>1. TcpStream' = << >>
      BY <2>2 DEF TcpStream
    <3>2. QED
      BY <2>2, <3>1 DEF TcpRest, TcpFlow
  <2>4. TcpStreamed'
    BY <1>1, <1>2, <2>2, <2>3, TcpConsts DEF TcpStreamed
  <2>5. TcpQueued(tcQueue', tcSock', tcAt', TRUE, TcpStream')
    <3>1. PICK w : w = TcpStream'
      OBVIOUS
    <3>2. TcpRest(w) = 0
      BY <2>3, <3>1
    <3> HIDE DEF s
    <3>3. TcpQueued(tcQueue', tcSock', tcAt', TRUE, w)
      BY <1>1, <1>4, <2>1, <3>2, TcpConnected
    <3>4. QED
      BY <3>1, <3>3
  <2>6. TcpWhole(tcGot)'
    BY <1>1, <1>2 DEF TcpWhole
  <2>7. QED
    BY <2>2, <2>4, <2>5, <2>6 DEF TcpKept
<1>5. CASE ~up /\ tcQueue' = [q EXCEPT ![tcAt].morituri = TRUE] /\ UNCHANGED <<tcConn, tcWire>> /\ tcAt' = tcAt + 1
           /\ tcSock' = [tcSock EXCEPT !.sendNotOk = IF @ = "off" THEN "running" ELSE @]
  <2>1. tcAt = 1
    BY <1>1, <1>2, <1>5 DEF TcpQueued, TcpEle
  <2>2. /\ TcpQueued(tcQueue', tcSock, tcAt, up, s) /\ Len(tcQueue') = Len(q) /\ tcQueue'[1].morituri
    <3> HIDE DEF s, up
    <3>1. /\ TcpQueued(tcQueue', tcSock, tcAt, up, s) /\ Len(tcQueue') = Len(q)
          /\ \A j \in 1..Len(q) : tcQueue'[j].morituri = (IF j = tcAt THEN TRUE ELSE q[j].morituri)
      BY <1>1, <1>5, TcpDoomed
    <3>2. 1 \in 1..Len(q)
      BY <1>1, <2>1
    <3>3. tcQueue'[1].morituri = TRUE
      BY <2>1, <3>1, <3>2
    <3>4. QED
      BY <3>1, <3>3
  <2>3. tcAt' = 2 /\ tcQueue' # << >>
    <3>1. Len(tcQueue') > 0
      BY <1>1, <2>2
    <3>2. QED
      BY <1>5, <2>1, <3>1
  <2>4. TcpQueued(tcQueue', tcSock, tcAt', up, s)
    BY <2>2, <2>3, TcpQueuedAt
  <2>5. /\ tcSock' \in TcpSocks /\ tcSock'.open = tcSock.open /\ tcSock'.usage = tcSock.usage
        /\ tcSock'.notSend = tcSock.notSend
    BY <1>1, <1>5 DEF TcpSocks
  <2>6. TcpQueued(tcQueue', tcSock', tcAt', up, s)
    BY <2>4, <2>5, TcpQueuedSock
  <2>7. TcpLeftAlone
    BY <1>2, <1>5 DEF TcpLeftAlone
  <2>8. QED
    BY <1>1, <1>2, <2>6, <2>7, TcpLeftAloneKeeps
<1>6. QED
  BY <1>3, <1>4, <1>5 DEF TcpConnect

----------------------------------------------------------------------------
LEMMA TcpClosesAlive ==
  ASSUME NEW q, NEW at, NEW up, NEW s, TcpQueued(q, tcSock, at, up, s), up \/ \A j \in 1..Len(q) : q[j].morituri,
         TcpClose(q, tcSock, FALSE)
  PROVE  TcpQueued(tcQueue', tcSock', 0, up, s) /\ tcConn' = tcConn
<1>1. tcQueue' = TcpClosing(q, tcSock).queue /\ tcSock' = TcpClosing(q, tcSock).sock /\ tcConn' = tcConn
  BY DEF TcpClose
<1>2. QED
  BY <1>1, TcpQueuedClosing

LEMMA TcpEndKeeps == ASSUME TcpKept, TcpSendEnd PROVE TcpKept'
<1> DEFINE s == TcpStream
           up == tcConn.up
<1>1. TcpQueued(tcQueue, tcSock, tcAt, up, s) /\ tcAt \in Nat /\ tcOpened \in Nat /\ tcQueue \in Seq(TcpEles)
  BY DEF TcpKept, TcpQueued, TcpStreamed
<1>2. /\ tcAt > Len(tcQueue) /\ tcAt' = 0 /\ TcpClose(tcQueue, tcSock, FALSE)
      /\ UNCHANGED <<tcWire, tcSlot, tcUnc, tcGot, tcOpened>>
  BY DEF TcpSendEnd
<1>3. up \/ \A j \in 1..Len(tcQueue) : tcQueue[j].morituri
  <2> SUFFICES ASSUME ~up, NEW j \in 1..Len(tcQueue) PROVE tcQueue[j].morituri
    OBVIOUS
  <2>1. Len(tcQueue) \in Nat
    BY <1>1, LenProperties
  <2>2. tcAt > 1
    BY <1>1, <1>2, <2>1
  <2>3. tcAt = 2 /\ tcQueue[1].morituri
    BY <1>1, <2>2 DEF TcpQueued
  <2>4. j = 1
    BY <1>2, <2>1, <2>3
  <2>5. QED
    BY <2>3, <2>4
<1> HIDE DEF s, up
<1>4. TcpQueued(tcQueue', tcSock', 0, up, s) /\ tcConn' = tcConn
  BY <1>1, <1>2, <1>3, TcpClosesAlive
<1>5. TcpLeftAlone /\ tcOpened' \in Nat
  BY <1>1, <1>2, <1>4 DEF TcpLeftAlone
<1>6. QED
  BY <1>2, <1>4, <1>5, TcpLeftAloneKeeps DEF s, up

LEMMA TcpReplyTimeoutKeeps == ASSUME TcpKept, TcpReplyTimeout PROVE TcpKept'
<1> DEFINE s == TcpStream
           up == tcConn.up
<1>1. /\ TcpQueued(tcQueue, tcSock, tcAt, up, s) /\ tcAt = 0 /\ tcOpened \in Nat /\ tcQueue \in Seq(TcpEles)
      /\ UNCHANGED <<tcAt, tcWire, tcSlot, tcUnc, tcGot, tcOpened>>
  BY DEF TcpKept, TcpQueued, TcpStreamed, TcpReplyTimeout
<1>2. PICK i \in DOMAIN tcQueue : tcQueue[i].st = "wait" /\ TcpClose([tcQueue EXCEPT ![i].morituri = TRUE], tcSock, FALSE)
  BY DEF TcpReplyTimeout
<1>3. i \in 1..Len(tcQueue)
  BY <1>1
<1>4. up
  BY <1>1, <1>2, <1>3 DEF TcpQueued
<1> HIDE DEF s, up
<1>5. TcpQueued([tcQueue EXCEPT ![i].morituri = TRUE], tcSock, tcAt, up, s)
  BY <1>1, <1>3, TcpDoomed
<1>6. TcpQueued(tcQueue', tcSock', 0, up, s) /\ tcConn' = tcConn
  BY <1>2, <1>4, <1>5, TcpClosesAlive
<1>7. TcpLeftAlone /\ tcOpened' \in Nat /\ tcAt' = 0
  BY <1>1, <1>6 DEF TcpLeftAlone
<1>8. QED
  BY <1>6, <1>7, TcpLeftAloneKeeps DEF s, up

\* The socket is closed, and every session of it dies.
LEMMA TcpDies ==
  ASSUME TcpKept, tcAt = 0, NEW q \in Seq(TcpEles), \A j \in 1..Len(q) : q[j].morituri, TcpClose(q, tcSock, TRUE),
         UNCHANGED <<tcAt, tcWire, tcSlot, tcUnc, tcGot, tcOpened>>, ~tcCut'
  PROVE  TcpKept'
<1>1. /\ tcQueue' = << >> /\ tcSock' = TcpNoSock /\ tcConn' = [tcConn EXCEPT !.up = FALSE]
      /\ ~(tcConn.up /\ (tcWire \o tcUnc # << >>))
  BY TcpDeadClosing DEF TcpClose
<1>2. TcpStreamed /\ TcpWhole(tcGot) /\ TcpStream' = TcpStream
  BY DEF TcpKept, TcpStream
<1>3. tcWire \in Seq(TcpUnit) /\ tcUnc \in Seq(TcpUnit)
  BY <1>2 DEF TcpStreamed
<1>4. tcUnc = << >> /\ TcpRest(TcpStream) = 0
  <2>1. CASE ~tcConn.up
    BY <1>2, <2>1 DEF TcpStreamed
  <2>2. CASE tcConn.up
    <3>1. tcWire \o tcUnc = << >>
      BY <1>1, <2>2
    <3>2. Len(tcWire) = 0 /\ Len(tcUnc) = 0
      <4>1. Len(tcWire \o tcUnc) = Len(tcWire) + Len(tcUnc) /\ Len(tcWire) \in Nat /\ Len(tcUnc) \in Nat
        BY <1>3, ConcatProperties, LenProperties
      <4>2. QED
        BY <3>1, <4>1
    <3>3. tcWire = << >> /\ tcUnc = << >>
      BY <1>3, <3>2, TcpEmpty
    <3>4. TcpStream = << >>
      BY <3>3 DEF TcpStream
    <3>5. QED
      BY <3>3, <3>4 DEF TcpRest
  <2>3. QED
    BY <2>1, <2>2
<1>5. tcConn' \in [no : Nat, up : BOOLEAN] /\ tcConn'.up = FALSE
  BY <1>1, <1>2 DEF TcpStreamed
<1>6. TcpStreamed'
  BY <1>2, <1>4, <1>5 DEF TcpStreamed
<1>7. TcpQueued(tcQueue', tcSock', tcAt', tcConn'.up, TcpStream')
  <2>1. tcAt' = 0
    OBVIOUS
  <2>2. TcpRest(TcpStream') = 0
    BY <1>2, <1>4
  <2>3. QED
    BY <1>1, <2>1, <2>2, TcpQueuedNone
<1>8. QED
  BY <1>2, <1>6, <1>7 DEF TcpKept

LEMMA TcpUnusedKeeps == ASSUME TcpKept, TcpUnusedTimeout, ~tcCut' PROVE TcpKept'
<1>1. tcQueue \in Seq(TcpEles) /\ Len(tcQueue) = 0
  BY DEF TcpKept, TcpQueued, TcpUnusedTimeout
<1>2. \A j \in 1..Len(tcQueue) : tcQueue[j].morituri
  BY <1>1
<1>3. /\ tcAt = 0 /\ TcpClose(tcQueue, tcSock, TRUE)
      /\ UNCHANGED <<tcAt, tcWire, tcSlot, tcUnc, tcGot, tcOpened>>
  BY DEF TcpUnusedTimeout
<1>4. QED
  BY <1>1, <1>2, <1>3, TcpDies

LEMMA TcpSendingKeeps == ASSUME TcpKept, TcpSendingTimeout, ~tcCut' PROVE TcpKept'
<1>1. tcQueue \in Seq(TcpEles) /\ DOMAIN tcQueue = 1..Len(tcQueue) /\ Len(tcQueue) \in Nat
  BY LenProperties DEF TcpKept, TcpQueued
<1>2. \A i \in 1..Len(tcQueue) : [tcQueue[i] EXCEPT !.morituri = TRUE] \in TcpEles /\ [tcQueue[i] EXCEPT !.morituri = TRUE].morituri = TRUE
  <2> SUFFICES ASSUME NEW i \in 1..Len(tcQueue)
               PROVE  [tcQueue[i] EXCEPT !.morituri = TRUE] \in TcpEles /\ [tcQueue[i] EXCEPT !.morituri = TRUE].morituri = TRUE
    OBVIOUS
  <2>1. tcQueue[i] \in TcpEles
    BY <1>1, ElementOfSeq
  <2>2. QED
    BY <2>1 DEF TcpEles
<1>3. PICK q : q = TcpAllDie
  OBVIOUS
<1>4. q = [i \in 1..Len(tcQueue) |-> [tcQueue[i] EXCEPT !.morituri = TRUE]]
  BY <1>1, <1>3 DEF TcpAllDie
<1>5. q \in Seq(TcpEles) /\ Len(q) = Len(tcQueue)
  BY <1>1, <1>2, <1>4
<1>6. \A j \in 1..Len(q) : q[j].morituri
  BY <1>2, <1>4, <1>5
<1>7. /\ tcAt = 0 /\ TcpClose(q, tcSock, TRUE)
      /\ UNCHANGED <<tcAt, tcWire, tcSlot, tcUnc, tcGot, tcOpened>>
  BY <1>3 DEF TcpSendingTimeout
<1>8. QED
  BY <1>5, <1>6, <1>7, TcpDies

LEMMA TcpTickKeeps == ASSUME TcpKept, TcpTick PROVE TcpKept'
<1>1. TcpQueued(tcQueue, tcSock, tcAt, tcConn.up, TcpStream) /\ tcSock \in TcpSocks /\ tcOpened \in Nat
  BY DEF TcpKept, TcpQueued, TcpStreamed
<1>2. TcpLeftAlone /\ tcQueue' = tcQueue /\ tcAt' = tcAt /\ tcOpened' = tcOpened
  BY DEF TcpTick, TcpLeftAlone
<1>3. tcSock' \in TcpSocks /\ tcSock'.open = tcSock.open /\ tcSock'.usage = tcSock.usage /\ tcSock'.notSend = tcSock.notSend
  BY <1>1 DEF TcpSocks, TcpTick
<1>4. TcpQueued(tcQueue, tcSock', tcAt, tcConn.up, TcpStream)
  BY <1>1, <1>3, TcpQueuedSock
<1>5. QED
  BY <1>1, <1>2, <1>4, TcpLeftAloneKeeps

LEMMA TcpRepliedKeeps == ASSUME TcpKept, TcpReplied PROVE TcpKept'
<1>1. /\ TcpQueued(tcQueue, tcSock, tcAt, tcConn.up, TcpStream) /\ tcOpened \in Nat /\ tcQueue \in Seq(TcpEles) /\ tcConn.up
      /\ TcpLeftAlone /\ tcSock' = tcSock /\ tcAt' = tcAt /\ tcOpened' = tcOpened
  BY DEF TcpKept, TcpQueued, TcpStreamed, TcpReplied, TcpLeftAlone
<1>2. PICK i \in DOMAIN tcQueue :
        tcQueue[i].st = "wait" /\ tcQueue' = [tcQueue EXCEPT ![i].morituri = TRUE, ![i].st = "replied"]
  BY DEF TcpReplied
<1>3. i \in 1..Len(tcQueue) /\ tcQueue[i] \in TcpEles /\ TcpMine(tcQueue[i], TcpStream)
  BY <1>1, ElementOfSeq DEF TcpQueued
<1>4. PICK e : e = [tcQueue[i] EXCEPT !.morituri = TRUE, !.st = "replied"]
  OBVIOUS
<1>5. e \in TcpEles /\ e.st = "replied" /\ e.part = tcQueue[i].part
  BY <1>3, <1>4 DEF TcpEles
<1>6. ~e.part
  BY <1>2, <1>3, <1>5 DEF TcpMine
<1>7. TcpMine(e, TcpStream)
  BY <1>5, <1>6 DEF TcpMine
<1>8. TcpQueued([tcQueue EXCEPT ![i] = e], tcSock, tcAt, tcConn.up, TcpStream)
  BY <1>1, <1>3, <1>5, <1>7, TcpQueuedExcept
<1>9. tcQueue' = [tcQueue EXCEPT ![i] = e]
  BY <1>1, <1>2, <1>4
<1>10. QED
  BY <1>1, <1>8, <1>9, TcpLeftAloneKeeps

LEMMA TcpAbortKeeps == ASSUME TcpKept, TcpAbort PROVE TcpKept'
<1>1. /\ TcpQueued(tcQueue, tcSock, tcAt, tcConn.up, TcpStream) /\ tcOpened \in Nat /\ tcQueue \in Seq(TcpEles)
      /\ TcpLeftAlone /\ tcSock' = tcSock /\ tcAt' = tcAt /\ tcOpened' = tcOpened
  BY DEF TcpKept, TcpQueued, TcpStreamed, TcpAbort, TcpLeftAlone
<1>2. PICK i \in DOMAIN tcQueue : tcQueue' = [tcQueue EXCEPT ![i].morituri = TRUE]
  BY DEF TcpAbort
<1>3. i \in 1..Len(tcQueue)
  BY <1>1
<1>4. TcpQueued(tcQueue', tcSock, tcAt, tcConn.up, TcpStream)
  BY <1>1, <1>2, <1>3, TcpDoomed
<1>5. QED
  BY <1>1, <1>4, TcpLeftAloneKeeps

LEMMA TcpEofKeeps == ASSUME TcpKept, TcpCallerEof PROVE TcpKept'
<1>1. /\ TcpQueued(tcQueue, tcSock, tcAt, tcConn.up, TcpStream) /\ tcOpened \in Nat /\ tcQueue \in Seq(TcpEles)
      /\ TcpLeftAlone /\ tcAt' = 0 /\ tcOpened' = tcOpened /\ ~tcConn.up /\ TcpRest(TcpStream) = 0
  BY DEF TcpKept, TcpQueued, TcpStreamed, TcpCallerEof, TcpLeftAlone
<1>2. \A j \in 1..Len(tcQueue) : FALSE
  <2> SUFFICES ASSUME NEW j \in 1..Len(tcQueue) PROVE FALSE
    OBVIOUS
  <2>1. 1 \in 1..Len(tcQueue) /\ DOMAIN tcQueue = 1..Len(tcQueue)
    BY <1>1, LenProperties
  <2>2. QED
    BY <1>1, <2>1 DEF TcpQueued, TcpCallerEof
<1>3. tcQueue' = << >> /\ tcSock' = TcpNoSock
  BY <1>1, <1>2, TcpDeadClosing DEF TcpCallerEof
<1>4. QED
  BY <1>1, <1>3, TcpQueuedNone, TcpLeftAloneKeeps

\* The replier's slot changes, the stream does not.
LEMMA TcpSlotKeeps == ASSUME TcpKept, TcpAccept \/ TcpEndOfStream PROVE TcpKept'
<1>1. /\ TcpQueued(tcQueue, tcSock, tcAt, tcConn.up, TcpStream) /\ TcpStreamed /\ TcpWhole(tcGot)
      /\ tcConn \in [no : Nat, up : BOOLEAN]
  BY DEF TcpKept, TcpStreamed
<1>2. UNCHANGED <<tcQueue, tcSock, tcAt, tcWire, tcConn, tcUnc, tcGot, tcOpened>>
  BY DEF TcpAccept, TcpEndOfStream
<1>3. tcSlot' \in Nat
  BY <1>1 DEF TcpAccept, TcpEndOfStream
<1>4. TcpStream' = TcpStream
  BY <1>2 DEF TcpStream
<1>5. TcpStreamed'
  BY <1>1, <1>2, <1>3, <1>4 DEF TcpStreamed
<1>6. QED
  BY <1>1, <1>2, <1>4, <1>5 DEF TcpKept

----------------------------------------------------------------------------
\* The session that is sending
LEMMA TcpSender ==
  ASSUME TcpKept, TcpPassing, TcpSends
  PROVE  /\ TcpEndsWith(TcpStream, TcpEle.id, TcpEle.sent) /\ TcpEle.st = "arm"
         /\ \A j \in 1..Len(tcQueue) : j # tcAt => ~tcQueue[j].part
<1>1. /\ TcpQueued(tcQueue, tcSock, tcAt, tcConn.up, TcpStream) /\ tcQueue \in Seq(TcpEles) /\ DOMAIN tcQueue = 1..Len(tcQueue)
      /\ tcAt \in 1..Len(tcQueue) /\ TcpEle = tcQueue[tcAt] /\ TcpMine(TcpEle, TcpStream) /\ TcpEle.st = "arm"
  BY TcpEleIs, LenProperties DEF TcpKept, TcpSends
<1>2. CASE ~tcSock.notSend
  <2>1. TcpRest(TcpStream) = 0 /\ \A j \in 1..Len(tcQueue) : ~tcQueue[j].part
    BY <1>1, <1>2 DEF TcpQueued
  <2>2. TcpEle.sent = 0
    BY <1>1, <2>1 DEF TcpMine
  <2>3. QED
    BY <1>1, <2>1, <2>2 DEF TcpEndsWith
<1>3. CASE tcSock.notSend
  <2>1. TcpEle.part
    BY <1>3 DEF TcpSends
  <2>2. \A j \in 1..Len(tcQueue) : j # tcAt => ~tcQueue[j].part
    BY <1>1, <2>1 DEF TcpQueued, TcpOnePart
  <2>3. QED
    BY <1>1, <2>1, <2>2 DEF TcpMine
<1>4. QED
  BY <1>2, <1>3

\* It has sent some more, and no other session is in the middle of a message.
LEMMA TcpQueuedSent ==
  ASSUME NEW q, NEW sock, NEW at, NEW s, TcpQueued(q, sock, at, TRUE, s), NEW i \in 1..Len(q),
         \A j \in 1..Len(q) : j # i => ~q[j].part, NEW e \in TcpEles, NEW w, TcpMine(e, w),
         NEW sock2 \in TcpSocks, sock2.open = sock.open, sock2.usage = sock.usage,
         ~sock2.notSend => TcpRest(w) = 0 /\ ~e.part, NEW at2 \in Nat
  PROVE  TcpQueued([q EXCEPT ![i] = e], sock2, at2, TRUE, w)
<1> DEFINE v == [q EXCEPT ![i] = e]
<1>1. /\ v \in Seq(TcpEles) /\ Len(v) = Len(q) /\ DOMAIN q = 1..Len(q) /\ DOMAIN v = 1..Len(q) /\ Len(q) \in Nat
      /\ \A j \in 1..Len(q) : v[j] = IF j = i THEN e ELSE q[j]
  BY TcpElement, LenProperties DEF TcpQueued
<1> HIDE DEF v
<1>2. sock.open
  <2>1. Len(q) > 0
    BY <1>1
  <2>2. q # << >>
    BY <2>1
  <2>3. QED
    BY <2>2 DEF TcpQueued
<1>3. \A j \in 1..Len(v) : TcpMine(v[j], w)
  BY <1>1 DEF TcpQueued, TcpMine
<1>4. \A j \in 1..Len(v) : v[j].part => j = i
  BY <1>1
<1>5. TcpOnePart(v)
  BY <1>1, <1>4 DEF TcpOnePart
<1>6. ~sock2.notSend => TcpRest(w) = 0 /\ \A j \in 1..Len(v) : ~v[j].part
  BY <1>1, <1>4
<1>7. IF sock2.open THEN sock2.usage = Len(v) ELSE v = << >> /\ ~sock2.notSend
  BY <1>1, <1>2 DEF TcpQueued
<1>8. QED
  BY <1>1, <1>3, <1>5, <1>6, <1>7 DEF TcpQueued, v

\* What it sends goes on with the stream.
LEMMA TcpSentOn ==
  ASSUME TcpKept, TcpPassing, TcpSends, tcConn.up, NEW n \in Nat, TcpEle.sent + n <= TcpLen,
         tcWire' = tcWire \o TcpUnits(TcpEle, n), UNCHANGED <<tcConn, tcSlot, tcUnc, tcGot, tcOpened>>
  PROVE  /\ TcpStreamed' /\ TcpWhole(tcGot)'
         /\ TcpEle.sent + n < TcpLen => TcpEndsWith(TcpStream', TcpEle.id, TcpEle.sent + n)
         /\ TcpEle.sent + n = TcpLen => TcpRest(TcpStream') = 0
<1> DEFINE u == TcpUnits(TcpEle, n)
<1>1. /\ TcpStreamed /\ TcpWhole(tcGot) /\ tcWire \in Seq(TcpUnit) /\ tcUnc \in Seq(TcpUnit) /\ TcpFlow(TcpStream)
  BY DEF TcpKept, TcpStreamed
<1>2. TcpEle.id \in Nat /\ TcpEle.sent \in Nat /\ TcpEndsWith(TcpStream, TcpEle.id, TcpEle.sent)
  BY TcpEleIs, TcpSender
<1>3. TcpStream \in Seq(TcpUnit)
  BY <1>1, ConcatProperties DEF TcpStream
<1>4. u \in Seq(TcpUnit)
  BY <1>2, TcpUnitsAre
<1>5. PICK s : s = TcpStream \o u
  OBVIOUS
<1>6. /\ s \in Seq(TcpUnit) /\ TcpFlow(s)
      /\ TcpEle.sent + n < TcpLen => TcpEndsWith(s, TcpEle.id, TcpEle.sent + n)
      /\ TcpEle.sent + n = TcpLen => TcpRest(s) = 0
  BY <1>1, <1>2, <1>3, <1>5, TcpFlowsOn
<1>7. tcWire' = tcWire \o u /\ tcUnc' = tcUnc
  OBVIOUS
<1> HIDE DEF u
<1>8. tcWire' \in Seq(TcpUnit) /\ TcpStream' = s
  <2>1. tcWire \o u \in Seq(TcpUnit) /\ tcUnc \o (tcWire \o u) = (tcUnc \o tcWire) \o u
    BY <1>1, <1>4, ConcatProperties, ConcatAssociative
  <2>2. QED
    BY <1>5, <1>7, <2>1 DEF TcpStream
<1>9. TcpStreamed'
  BY <1>1, <1>6, <1>7, <1>8 DEF TcpStreamed
<1>10. QED
  BY <1>1, <1>6, <1>8, <1>9 DEF TcpWhole

LEMMA TcpAllKeeps == ASSUME TcpKept, TcpSendAll PROVE TcpKept'
<1> DEFINE n == TcpLen - TcpEle.sent
<1>1. /\ TcpPassing /\ TcpSends /\ tcConn.up /\ tcWire' = tcWire \o TcpUnits(TcpEle, n)
      /\ tcSock' = [tcSock EXCEPT !.notSend = FALSE, !.sendNotOk = "off"] /\ tcAt' = tcAt + 1
      /\ UNCHANGED <<tcConn, tcSlot, tcUnc, tcGot, tcOpened>>
      /\ tcQueue' = [tcQueue EXCEPT ![tcAt] = [@ EXCEPT !.sent = TcpLen, !.part = FALSE, !.st = "wait"]]
  BY DEF TcpSendAll
<1>2. /\ TcpEle \in TcpEles /\ tcAt \in 1..Len(tcQueue) /\ TcpEle = tcQueue[tcAt] /\ TcpEle.sent \in Nat /\ TcpEle.sent <= TcpLen
      /\ tcSock \in TcpSocks /\ tcQueue \in Seq(TcpEles)
  BY <1>1, TcpEleIs
<1>3. n \in Nat /\ TcpEle.sent + n = TcpLen
  BY <1>2, TcpConsts
<1> HIDE DEF n
<1>4. TcpStreamed' /\ TcpWhole(tcGot)' /\ TcpRest(TcpStream') = 0
  BY <1>1, <1>3, TcpSentOn, TcpConsts
<1>5. PICK e : e = [TcpEle EXCEPT !.sent = TcpLen, !.part = FALSE, !.st = "wait"]
  OBVIOUS
<1>6. e \in TcpEles /\ e.part = FALSE /\ e.st = "wait"
  <2>1. TcpLen \in 0..TcpLen
    BY TcpConsts
  <2>2. QED
    BY <1>2, <1>5, <2>1 DEF TcpEles
<1>7. TcpMine(e, TcpStream')
  BY <1>6 DEF TcpMine
<1>8. tcSock' \in TcpSocks /\ tcSock'.open = tcSock.open /\ tcSock'.usage = tcSock.usage
  BY <1>1, <1>2 DEF TcpSocks
<1>9. TcpQueued(tcQueue, tcSock, tcAt, TRUE, TcpStream) /\ tcAt' \in Nat
  <2>1. TcpQueued(tcQueue, tcSock, tcAt, tcConn.up, TcpStream)
    BY DEF TcpKept
  <2>2. tcAt \in Nat
    BY <2>1 DEF TcpQueued
  <2>3. TcpQueued(tcQueue, tcSock, tcAt, TRUE, TcpStream)
    BY <2>1, <2>2, TcpQueuedUp
  <2>4. tcAt' = tcAt + 1
    BY <1>1
  <2>5. tcAt' \in Nat
    BY ONLY <2>2, <2>4
  <2>6. QED
    BY <2>3, <2>5
<1>10. \A j \in 1..Len(tcQueue) : j # tcAt => ~tcQueue[j].part
  BY <1>1, TcpSender
<1>11. tcQueue' = [tcQueue EXCEPT ![tcAt] = e]
  BY <1>1, <1>2, <1>5
<1>12. TcpQueued(tcQueue', tcSock', tcAt', TRUE, TcpStream')
  BY <1>2, <1>4, <1>6, <1>7, <1>8, <1>9, <1>10, <1>11, TcpQueuedSent
<1>13. TcpQueued(tcQueue', tcSock', tcAt', tcConn'.up, TcpStream')
  BY <1>1, <1>12, TcpQueuedUp DEF TcpQueued
<1>14. QED
  BY <1>4, <1>13 DEF TcpKept

LEMMA TcpPartKeeps == ASSUME TcpKept, TcpSendPart PROVE TcpKept'
<1>1. /\ TcpPassing /\ TcpSends /\ tcConn.up /\ tcAt' = tcAt + 1
      /\ tcSock' = [tcSock EXCEPT !.notSend = TRUE, !.sendNotOk = IF @ = "off" THEN "running" ELSE @]
      /\ UNCHANGED <<tcConn, tcSlot, tcUnc, tcGot, tcOpened>>
  BY DEF TcpSendPart
<1>2. PICK n \in 0..(TcpLen - TcpEle.sent - 1) :
        /\ tcWire' = tcWire \o TcpUnits(TcpEle, n)
        /\ tcQueue' = [tcQueue EXCEPT ![tcAt] = [@ EXCEPT !.sent = TcpEle.sent + n, !.part = TRUE]]
  BY DEF TcpSendPart
<1>3. /\ TcpEle \in TcpEles /\ tcAt \in 1..Len(tcQueue) /\ TcpEle = tcQueue[tcAt] /\ TcpEle.sent \in Nat /\ TcpEle.sent <= TcpLen
      /\ tcSock \in TcpSocks /\ tcQueue \in Seq(TcpEles)
  BY <1>1, TcpEleIs
<1>4. n \in Nat /\ TcpEle.sent + n < TcpLen /\ TcpEle.sent + n <= TcpLen /\ TcpEle.sent + n \in 0..TcpLen
  BY <1>2, <1>3, TcpConsts
<1>5. TcpStreamed' /\ TcpWhole(tcGot)' /\ TcpEndsWith(TcpStream', TcpEle.id, TcpEle.sent + n)
  BY <1>1, <1>2, <1>4, TcpSentOn
<1>6. PICK e : e = [TcpEle EXCEPT !.sent = @ + n, !.part = TRUE]
  OBVIOUS
<1>7. e \in TcpEles /\ e.part = TRUE /\ e.st = "arm" /\ e.id = TcpEle.id /\ e.sent = TcpEle.sent + n
  <2>1. TcpEle.st = "arm"
    BY <1>1, TcpSender
  <2>2. QED
    BY <1>3, <1>4, <1>6, <2>1 DEF TcpEles
<1>8. TcpMine(e, TcpStream')
  BY <1>5, <1>7 DEF TcpMine
<1>9. tcSock' \in TcpSocks /\ tcSock'.open = tcSock.open /\ tcSock'.usage = tcSock.usage /\ tcSock'.notSend = TRUE
  BY <1>1, <1>3 DEF TcpSocks
<1>10. TcpQueued(tcQueue, tcSock, tcAt, TRUE, TcpStream) /\ tcAt' \in Nat
  <2>1. TcpQueued(tcQueue, tcSock, tcAt, tcConn.up, TcpStream)
    BY DEF TcpKept
  <2>2. tcAt \in Nat
    BY <2>1 DEF TcpQueued
  <2>3. TcpQueued(tcQueue, tcSock, tcAt, TRUE, TcpStream)
    BY <2>1, <2>2, TcpQueuedUp
  <2>4. tcAt' = tcAt + 1
    BY <1>1
  <2>5. tcAt' \in Nat
    BY ONLY <2>2, <2>4
  <2>6. QED
    BY <2>3, <2>5
<1>11. \A j \in 1..Len(tcQueue) : j # tcAt => ~tcQueue[j].part
  BY <1>1, TcpSender
<1>12. tcQueue' = [tcQueue EXCEPT ![tcAt] = e]
  <2>1. tcQueue' = [tcQueue EXCEPT ![tcAt] = [tcQueue[tcAt] EXCEPT !.sent = TcpEle.sent + n, !.part = TRUE]]
    BY <1>2
  <2>2. e = [tcQueue[tcAt] EXCEPT !.sent = TcpEle.sent + n, !.part = TRUE]
    BY <1>3, <1>6
  <2>3. QED
    BY <2>1, <2>2
<1>13. TcpQueued(tcQueue', tcSock', tcAt', TRUE, TcpStream')
  BY <1>3, <1>7, <1>8, <1>9, <1>10, <1>11, <1>12, TcpQueuedSent
<1>14. TcpQueued(tcQueue', tcSock', tcAt', tcConn'.up, TcpStream')
  BY <1>1, <1>13, TcpQueuedUp DEF TcpQueued
<1>15. QED
  BY <1>5, <1>14 DEF TcpKept

LEMMA TcpFailsKeeps == ASSUME TcpKept, TcpSendFails, ~tcCut' PROVE TcpKept'
<1>1. /\ TcpPassing /\ TcpSends /\ tcAt' = 0 /\ tcQueue' = << >> /\ tcSock' = TcpNoSock /\ tcConn' = [tcConn EXCEPT !.up = FALSE]
      /\ UNCHANGED <<tcSlot, tcUnc, tcGot, tcOpened>>
  BY DEF TcpSendFails
<1>2. PICK n \in {0, TcpHdr} : tcWire' = tcWire \o TcpUnits(TcpEle, n) /\ ~(TcpEle.sent + n > 0 \/ tcUnc # << >>)
  BY DEF TcpSendFails
<1>3. TcpEle.id \in Nat /\ TcpEle.sent \in Nat /\ TcpEndsWith(TcpStream, TcpEle.id, TcpEle.sent)
  BY <1>1, TcpEleIs, TcpSender
<1>4. n = 0 /\ TcpEle.sent = 0 /\ tcUnc = << >>
  BY <1>2, <1>3, TcpConsts
<1>5. /\ TcpStreamed /\ TcpWhole(tcGot) /\ tcWire \in Seq(TcpUnit)
  BY DEF TcpKept, TcpStreamed
<1>6. tcWire' = tcWire
  <2>1. TcpUnits(TcpEle, 0) \in Seq(TcpUnit) /\ Len(TcpUnits(TcpEle, 0)) = 0
    BY <1>3, <1>4, TcpUnitsAre, TcpConsts
  <2>2. TcpUnits(TcpEle, 0) = << >>
    BY <2>1, TcpEmpty
  <2>3. QED
    BY <1>2, <1>4, <1>5, <2>2, ConcatEmptySeq
<1>7. TcpStream' = TcpStream /\ TcpRest(TcpStream) = 0
  BY <1>1, <1>3, <1>4, <1>6 DEF TcpStream, TcpEndsWith
<1>8. tcConn' \in [no : Nat, up : BOOLEAN] /\ tcConn'.up = FALSE
  BY <1>1, <1>5 DEF TcpStreamed
<1>9. TcpStreamed'
  BY <1>1, <1>4, <1>5, <1>6, <1>7, <1>8 DEF TcpStreamed
<1>10. TcpQueued(tcQueue', tcSock', tcAt', tcConn'.up, TcpStream')
  BY <1>1, <1>7, TcpQueuedNone
<1>11. QED
  BY <1>1, <1>5, <1>9, <1>10 DEF TcpKept

----------------------------------------------------------------------------
LEMMA TcpMinOf == ASSUME NEW a \in Nat, NEW b \in Nat PROVE Min({a, b}) = IF a <= b THEN a ELSE b
<1>1. \E x \in {a, b} : \A y \in {a, b} : x <= y
  OBVIOUS
<1>2. Min({a, b}) \in {a, b} /\ \A y \in {a, b} : Min({a, b}) <= y
  BY <1>1 DEF Min
<1>3. QED
  BY <1>2

\* s is u with n units of w behind; r is w without n units.
TcpJoined(s, u, w, n) ==
  /\ s \in Seq(TcpUnit) /\ Len(s) = Len(u) + n
  /\ \A k \in 1..(Len(u) + n) : s[k] = IF k <= Len(u) THEN u[k] ELSE w[k - Len(u)]
TcpLeft(r, w, n) == r \in Seq(TcpUnit) /\ Len(r) = Len(w) - n /\ \A k \in 1..(Len(w) - n) : r[k] = w[n + k]
\* The stream s parts into what has been got and the rest.
TcpParted(s, got, rest) ==
  /\ Len(got) <= TcpLen
  /\ got # << >> => \A j \in 1..Len(got) : got[j] = <<got[1][1], j>>
  /\ Len(got) < TcpLen => rest = << >> /\ got = s
  /\ Len(got) = TcpLen => /\ Len(s) >= TcpLen /\ Len(rest) = Len(s) - TcpLen
                          /\ \A k \in 1..Len(rest) : rest[k] = s[TcpLen + k]
\* How much trdp_mdRecvTCPPacket takes
TcpTaken(u, w) == IF Len(w) <= TcpLen - Len(u) THEN Len(w) ELSE TcpLen - Len(u)

LEMMA TcpReadUnits ==
  ASSUME NEW u \in Seq(TcpUnit), NEW w \in Seq(TcpUnit), NEW n \in Nat, n <= Len(w)
  PROVE  TcpJoined(u \o SubSeq(w, 1, n), u, w, n)
<1>1. Len(u) \in Nat /\ Len(w) \in Nat
  BY LenProperties
<1>2. n \in Int /\ 1 \in Int /\ \A k \in 1..n : w[k] \in TcpUnit
  <2>1. \A k \in 1..n : k \in 1..Len(w)
    BY <1>1
  <2>2. QED
    BY <2>1, ElementOfSeq
<1>3. PICK p : p = SubSeq(w, 1, n)
  OBVIOUS
<1>4. /\ p \in Seq(TcpUnit) /\ Len(p) = (IF 1 <= n THEN n - 1 + 1 ELSE 0)
      /\ \A i \in 1..(n - 1 + 1) : p[i] = w[1 + i - 1]
  <2>1. /\ SubSeq(w, 1, n) \in Seq(TcpUnit) /\ Len(SubSeq(w, 1, n)) = (IF 1 <= n THEN n - 1 + 1 ELSE 0)
        /\ \A i \in 1..(n - 1 + 1) : SubSeq(w, 1, n)[i] = w[1 + i - 1]
    BY <1>2, SubSeqProperties
  <2>2. QED
    BY <1>3, <2>1
<1>5. p \in Seq(TcpUnit) /\ Len(p) = n /\ \A k \in 1..n : p[k] = w[k]
  BY <1>4
<1>6. /\ u \o p \in Seq(TcpUnit) /\ Len(u \o p) = Len(u) + Len(p)
      /\ \A k \in 1..(Len(u) + Len(p)) : (u \o p)[k] = IF k <= Len(u) THEN u[k] ELSE p[k - Len(u)]
  BY <1>5, ConcatProperties
<1>7. PICK got : got = u \o p
  OBVIOUS
<1>8. /\ got \in Seq(TcpUnit) /\ Len(got) = Len(u) + n
      /\ \A k \in 1..(Len(u) + n) : got[k] = IF k <= Len(u) THEN u[k] ELSE p[k - Len(u)]
  BY <1>5, <1>6, <1>7
<1>9. ASSUME NEW k \in 1..(Len(u) + n) PROVE got[k] = IF k <= Len(u) THEN u[k] ELSE w[k - Len(u)]
  <2>1. CASE k <= Len(u)
    BY <1>8, <2>1
  <2>2. CASE ~(k <= Len(u))
    <3>1. k - Len(u) \in 1..n
      BY <1>1, <2>2
    <3>2. QED
      BY <1>5, <1>8, <2>2, <3>1
  <2>3. QED
    BY <2>1, <2>2
<1>10. QED
  BY <1>3, <1>7, <1>8, <1>9 DEF TcpJoined

\* What stays unread
LEMMA TcpUnread ==
  ASSUME NEW w \in Seq(TcpUnit), NEW n \in Nat, n <= Len(w)
  PROVE  TcpLeft(SubSeq(w, n + 1, Len(w)), w, n)
<1>1. Len(w) \in Nat
  BY LenProperties
<1>2. n + 1 \in Int /\ Len(w) \in Int /\ \A k \in (n + 1)..Len(w) : w[k] \in TcpUnit
  <2>1. \A k \in (n + 1)..Len(w) : k \in 1..Len(w)
    BY <1>1
  <2>2. QED
    BY <1>1, <2>1, ElementOfSeq
<1>3. PICK r : r = SubSeq(w, n + 1, Len(w))
  OBVIOUS
<1>4. /\ r \in Seq(TcpUnit) /\ Len(r) = (IF n + 1 <= Len(w) THEN Len(w) - (n + 1) + 1 ELSE 0)
      /\ \A i \in 1..(Len(w) - (n + 1) + 1) : r[i] = w[(n + 1) + i - 1]
  <2>1. /\ SubSeq(w, n + 1, Len(w)) \in Seq(TcpUnit)
        /\ Len(SubSeq(w, n + 1, Len(w))) = (IF n + 1 <= Len(w) THEN Len(w) - (n + 1) + 1 ELSE 0)
        /\ \A i \in 1..(Len(w) - (n + 1) + 1) : SubSeq(w, n + 1, Len(w))[i] = w[(n + 1) + i - 1]
    BY <1>2, SubSeqProperties
  <2>2. QED
    BY <1>3, <2>1
<1>5. Len(w) - (n + 1) + 1 = Len(w) - n /\ Len(r) = Len(w) - n
  BY <1>1, <1>4
<1>6. ASSUME NEW k \in 1..(Len(w) - n) PROVE r[k] = w[n + k]
  <2>1. k \in 1..(Len(w) - (n + 1) + 1) /\ (n + 1) + k - 1 = n + k
    BY <1>1
  <2>2. r[k] = w[(n + 1) + k - 1]
    BY <1>4, <2>1
  <2>3. QED
    BY <2>1, <2>2
<1>7. QED
  BY <1>3, <1>4, <1>5, <1>6 DEF TcpLeft

\* trdp_mdRecvTCPPacket: what is read with what was held is the beginning of the stream.
LEMMA TcpReadIs ==
  ASSUME NEW u \in Seq(TcpUnit), NEW w \in Seq(TcpUnit), Len(u) < TcpLen, NEW n \in Nat, n = TcpTaken(u, w),
         NEW s, TcpFlow(s), TcpJoined(s, u, w, Len(w)), NEW got, TcpJoined(got, u, w, n), NEW rest, TcpLeft(rest, w, n)
  PROVE  TcpParted(s, got, rest)
<1>1. Len(u) \in Nat /\ Len(w) \in Nat /\ TcpLen \in Nat /\ TcpLen - Len(u) \in Nat /\ n <= Len(w) /\ Len(u) + n <= TcpLen
  BY LenProperties, TcpConsts DEF TcpTaken
<1>a. /\ s \in Seq(TcpUnit) /\ Len(s) = Len(u) + Len(w) /\ got \in Seq(TcpUnit) /\ Len(got) = Len(u) + n
      /\ rest \in Seq(TcpUnit) /\ Len(rest) = Len(w) - n
      /\ \A k \in 1..(Len(u) + Len(w)) : s[k] = IF k <= Len(u) THEN u[k] ELSE w[k - Len(u)]
      /\ \A k \in 1..(Len(u) + n) : got[k] = IF k <= Len(u) THEN u[k] ELSE w[k - Len(u)]
      /\ \A k \in 1..(Len(w) - n) : rest[k] = w[n + k]
  BY DEF TcpJoined, TcpLeft
<1>2. \A j \in 1..Len(got) : j \in 1..(Len(u) + n) /\ j \in 1..(Len(u) + Len(w)) /\ j <= TcpLen
  BY <1>1, <1>a
<1>3. \A j \in 1..Len(got) : got[j] = s[j]
  BY <1>2, <1>a
<1>4. got # << >> => \A j \in 1..Len(got) : got[j] = <<got[1][1], j>>
  <2> SUFFICES ASSUME NEW j \in 1..Len(got) PROVE got[j] = <<got[1][1], j>>
    OBVIOUS
  <2>1. 1 \in 1..Len(got) /\ j \in 1..Len(s) /\ j <= TcpLen
    BY <1>1, <1>2, <1>a
  <2>2. got[1] = s[1] /\ got[j] = s[j]
    BY <1>3, <2>1
  <2>3. s[j] = <<s[1][1], j>>
    BY <1>a, <2>1, TcpFirst
  <2>4. QED
    BY <2>2, <2>3
<1>5. Len(got) < TcpLen => rest = << >> /\ got = s
  <2> SUFFICES ASSUME Len(got) < TcpLen PROVE rest = << >> /\ got = s
    OBVIOUS
  <2>1. Len(rest) = 0 /\ Len(got) = Len(s)
    BY <1>1, <1>a, TcpConsts DEF TcpTaken
  <2>2. got = s
    BY <1>3, <1>a, <2>1, SeqEqual
  <2>3. QED
    BY <1>a, <2>1, <2>2, TcpEmpty
<1>6. Len(got) = TcpLen => /\ Len(s) >= TcpLen /\ Len(rest) = Len(s) - TcpLen
                           /\ \A k \in 1..Len(rest) : rest[k] = s[TcpLen + k]
  <2> SUFFICES ASSUME Len(got) = TcpLen
               PROVE  /\ Len(s) >= TcpLen /\ Len(rest) = Len(s) - TcpLen
                      /\ \A k \in 1..Len(rest) : rest[k] = s[TcpLen + k]
    OBVIOUS
  <2>1. n = TcpLen - Len(u) /\ Len(s) >= TcpLen /\ Len(rest) = Len(s) - TcpLen
    BY <1>1, <1>a, TcpConsts DEF TcpTaken
  <2>2. ASSUME NEW k \in 1..Len(rest) PROVE rest[k] = s[TcpLen + k]
    <3>1. TcpLen + k \in 1..(Len(u) + Len(w)) /\ ~(TcpLen + k <= Len(u)) /\ TcpLen + k - Len(u) = n + k
      BY <1>1, <1>a, <2>1
    <3>2. PICK m \in 1..(Len(u) + Len(w)) : m = TcpLen + k
      BY <3>1
    <3>a. s[m] = IF m <= Len(u) THEN u[m] ELSE w[m - Len(u)]
      BY <1>a
    <3>b. s[TcpLen + k] = w[n + k]
      BY <3>1, <3>2, <3>a
    <3>3. rest[k] = w[n + k]
      BY <1>a
    <3>4. QED
      BY <3>b, <3>3
  <2>3. QED
    BY <2>1, <2>2
<1>7. QED
  BY <1>1, <1>a, <1>4, <1>5, <1>6 DEF TcpParted

LEMMA TcpReadKeeps == ASSUME TcpKept, TcpRead, ~tcCut' PROVE TcpKept'
<1>1. PICK n, got, rest : n = TcpAvail /\ got = tcUnc \o SubSeq(tcWire, 1, n) /\ rest = SubSeq(tcWire, n + 1, Len(tcWire))
  OBVIOUS
<1>a. PICK mixed \in BOOLEAN :
        /\ n > 0 /\ tcWire' = rest /\ UNCHANGED <<tcQueue, tcSock, tcAt, tcOpened>>
        /\ CASE TcpLateHeader(got, mixed) -> TcpHangUp /\ UNCHANGED <<tcUnc, tcGot>>
             [] ~TcpLateHeader(got, mixed) /\ Len(got) < TcpLen -> TcpStore(got)
             [] OTHER -> TcpComplete(got)
        /\ tcCut' = (tcCut \/ TcpLateHeader(got, mixed))
  BY <1>1 DEF TcpRead
<1>8. ~TcpLateHeader(got, mixed)
  BY <1>a
<1>2. /\ n > 0 /\ tcWire' = rest /\ UNCHANGED <<tcQueue, tcSock, tcAt, tcOpened>>
      /\ Len(got) < TcpLen => TcpStore(got)
      /\ ~(Len(got) < TcpLen) => TcpComplete(got)
  BY <1>a, <1>8
<1>3. /\ TcpStreamed /\ TcpWhole(tcGot) /\ tcWire \in Seq(TcpUnit) /\ tcUnc \in Seq(TcpUnit) /\ Len(tcUnc) < TcpLen
      /\ TcpFlow(tcUnc \o tcWire) /\ TcpStream = tcUnc \o tcWire
      /\ TcpQueued(tcQueue, tcSock, tcAt, tcConn.up, TcpStream)
  BY DEF TcpKept, TcpStreamed, TcpStream
<1>4. /\ Len(tcUnc) \in Nat /\ Len(tcWire) \in Nat /\ n = TcpTaken(tcUnc, tcWire) /\ n \in Nat /\ n <= Len(tcWire)
  <2>1. Len(tcUnc) \in Nat /\ Len(tcWire) \in Nat /\ TcpLen - Len(tcUnc) \in Nat
    BY <1>3, LenProperties, TcpConsts
  <2>2. TcpAvail = TcpTaken(tcUnc, tcWire)
    BY <2>1, TcpMinOf DEF TcpAvail, TcpTaken
  <2>3. QED
    BY <1>1, <2>1, <2>2 DEF TcpTaken
<1>5. /\ got \in Seq(TcpUnit) /\ Len(got) = Len(tcUnc) + n /\ Len(got) <= TcpLen /\ rest \in Seq(TcpUnit)
      /\ got # << >> => \A j \in 1..Len(got) : got[j] = <<got[1][1], j>>
      /\ Len(got) < TcpLen => rest = << >> /\ got = TcpStream
      /\ Len(got) = TcpLen => /\ Len(TcpStream) >= TcpLen /\ Len(rest) = Len(TcpStream) - TcpLen
                              /\ \A k \in 1..Len(rest) : rest[k] = TcpStream[TcpLen + k]
  <2>1. TcpJoined(TcpStream, tcUnc, tcWire, Len(tcWire)) /\ TcpFlow(TcpStream)
    BY <1>3, ConcatProperties DEF TcpJoined
  <2>2. TcpJoined(got, tcUnc, tcWire, n)
    BY <1>1, <1>3, <1>4, TcpReadUnits
  <2>3. TcpLeft(rest, tcWire, n)
    BY <1>1, <1>3, <1>4, TcpUnread
  <2>4. TcpParted(TcpStream, got, rest)
    BY <1>3, <1>4, <2>1, <2>2, <2>3, TcpReadIs
  <2>5. QED
    BY <2>2, <2>3, <2>4 DEF TcpJoined, TcpLeft, TcpParted
<1>6. Len(got) \in Nat /\ Len(got) > 0 /\ got # << >>
  <2>1. Len(got) \in Nat /\ Len(got) > 0
    BY <1>2, <1>4, <1>5
  <2>2. QED
    BY <1>5, <2>1, TcpEmpty
<1>7. Len(got) >= TcpHdr => TcpHeaderOK(got)
  <2> SUFFICES ASSUME Len(got) >= TcpHdr, NEW j \in 1..TcpHdr PROVE got[j] = <<got[1][1], j>>
    BY DEF TcpHeaderOK
  <2>1. j \in 1..Len(got)
    BY <1>6, TcpConsts
  <2>2. QED
    BY <1>5, <1>6, <2>1
<1>9. CASE Len(got) < TcpLen
  <2>1. tcUnc' = got /\ UNCHANGED <<tcSlot, tcConn, tcGot>> /\ rest = << >> /\ got = TcpStream
    BY <1>2, <1>5, <1>9 DEF TcpStore
  <2>2. TcpStream' = TcpStream
    BY <1>2, <1>5, <2>1, ConcatEmptySeq DEF TcpStream
  <2>3. tcConn.up
    <3> SUFFICES ASSUME ~tcConn.up PROVE FALSE
      OBVIOUS
    <3>1. TcpRest(got) = 0 /\ TcpFlow(got)
      BY <1>3, <2>1 DEF TcpStreamed
    <3>2. Len(got) >= TcpLen
      BY <1>5, <1>6, <3>1, TcpWholeFirst
    <3>3. QED
      BY <1>6, <1>9, <3>2, TcpConsts
  <2>4. TcpStreamed'
    BY <1>2, <1>3, <1>5, <1>9, <2>1, <2>2, <2>3 DEF TcpStreamed
  <2>5. QED
    BY <1>2, <1>3, <2>1, <2>2, <2>4 DEF TcpKept, TcpWhole
<1>10. CASE Len(got) = TcpLen
  <2>1. TcpHeaderOK(got)
    BY <1>7, <1>10, TcpConsts
  <2>2. ~(Len(got) < TcpLen)
    BY <1>10, TcpConsts
  <2>3. tcUnc' = << >> /\ tcGot' = got /\ UNCHANGED <<tcSlot, tcConn>>
    BY <1>2, <2>1, <2>2 DEF TcpComplete
  <2>4. TcpStream' = rest
    BY <1>2, <1>5, <2>3, ConcatEmptySeq DEF TcpStream
  <2>5. TcpStream \in Seq(TcpUnit) /\ TcpFlow(TcpStream)
    BY <1>3, ConcatProperties
  <2>6. /\ TcpFlow(rest) /\ TcpRest(rest) = TcpRest(TcpStream)
        /\ \A id, sent : TcpEndsWith(TcpStream, id, sent) => TcpEndsWith(rest, id, sent)
    BY <1>5, <1>10, <2>5, TcpFlowsBehind
  <2>7. TcpWhole(got)
    BY <1>5, <1>6, <1>10 DEF TcpWhole
  <2>8. << >> \in Seq(TcpUnit) /\ Len(<< >>) = 0 /\ 0 < TcpLen
    BY TcpConsts
  <2>9. TcpStreamed'
    BY <1>2, <1>3, <1>5, <2>3, <2>4, <2>6, <2>8 DEF TcpStreamed
  <2>10. TcpQueued(tcQueue, tcSock, tcAt, tcConn.up, rest)
    BY <1>3, <2>6, TcpQueuedStream
  <2>11. TcpQueued(tcQueue, tcSock, tcAt, tcConn.up, TcpStream)'
    BY <1>2, <2>3, <2>4, <2>10
  <2>12. TcpWhole(tcGot)'
    BY <2>3, <2>7
  <2>13. QED
    BY <2>9, <2>11, <2>12 DEF TcpKept
<1>11. QED
  BY <1>5, <1>6, <1>9, <1>10, TcpConsts

----------------------------------------------------------------------------
LEMMA TcpInvStep == ASSUME TcpInv, [TcpNext]_tcVars PROVE TcpInv'
<1> SUFFICES ASSUME ~tcCut' PROVE TcpKept'
  BY DEF TcpInv
<1>1. CASE TcpNext
  <2>1. TcpKept
    BY <1>1, TcpCutStays DEF TcpInv
  <2>2. QED
    BY <1>1, <2>1, TcpCallKeeps, TcpSkipKeeps, TcpConnectKeeps, TcpAllKeeps, TcpPartKeeps, TcpFailsKeeps, TcpEndKeeps,
       TcpReplyTimeoutKeeps, TcpUnusedKeeps, TcpSendingKeeps, TcpTickKeeps, TcpRepliedKeeps, TcpAbortKeeps,
       TcpSlotKeeps, TcpReadKeeps, TcpEofKeeps DEF TcpNext
<1>2. CASE UNCHANGED tcVars
  <2>1. TcpKept
    BY <1>2 DEF TcpInv, tcVars
  <2>2. QED
    BY <1>2, <2>1 DEF TcpKept, TcpStreamed, TcpStream, tcVars
<1>3. QED
  BY <1>1, <1>2

\* Messages over TCP (trdp_mdSend, trdp_mdRecvTCPPacket, trdp_requestSocket, trdp_releaseSocket): as long as
\* no connection has been cut, what a session is given is a message as it was sent, whatever sessions share
\* the connection and however sending is broken up, and the socket's usage counter is the number of sessions.
THEOREM TcpAlwaysSound == TcpSpec => []TcpSound
<1>1. TcpInit => TcpInv
  BY TcpStarts DEF TcpInv
<1>2. TcpInv /\ [TcpNext]_tcVars => TcpInv'
  BY TcpInvStep
<1>3. TcpInv => TcpSound
  BY DEF TcpInv, TcpKept, TcpQueued, TcpSound, TcpFraming, TcpUsageExact
<1>4. QED
  BY <1>1, <1>2, <1>3, PTL DEF TcpSpec

==============================================================================
