------------------------------- MODULE TauTti -------------------------------
(***************************************************************************)
(* Train topology information (tau_tti.c): the library subscribes to the   *)
(* train's operational status (PD 100), keeps the session's topology       *)
(* counts in step with it and wakes the application by a semaphore; it     *)
(* asks the train's data base for directories and caches what it is told   *)
(* about consists.                                                         *)
(*                                                                         *)
(* Callbacks run under the session's mutex, in the thread that receives or *)
(* in the tlc_process of a request; the application reads the counts and   *)
(* calls at any time.  A callback for process data takes one step for each *)
(* assignment the application may see, one for message data one step: it   *)
(* changes one of the counts.  A request in it that receives another reply *)
(* (tlc_process) is the same as that reply coming next.                    *)
(*                                                                         *)
(* Consists are model values.  The reference of the session for message    *)
(* data (pRefCon) is NULL, so that ttiMDCallback has no semaphore to give. *)
(* The network directory and the complete one are never asked for.  Trains *)
(* have at most 52 vehicles, see TtOpDirTopo.                              *)
(***************************************************************************)
EXTENDS Integers, Sequences

CONSTANTS TtTrains,  \* the trains that the vehicle is part of, one after another: [etb, op, trn, cst]
          TtMax,     \* TRDP_MAX_CST_CNT, 63
          TtCached,  \* TTI_CACHED_CONSISTS, 8
          TtNone,    \* no consist: a UUID of zeros, a label that is NULL
          TtEvents,  \* bound: telegrams and time-outs
          TtCalls    \* bound: calls of the application

TtConsists == UNION {{TtTrains[k].cst[i] : i \in 1 .. Len(TtTrains[k].cst)} : k \in 1 .. Len(TtTrains)}
TtCounts == [etb : Nat, op : Nat]

ASSUME TtAssumption ==
  /\ TtTrains \in Seq([etb : Nat, op : Nat, trn : Nat, cst : Seq(TtConsists)]) /\ Len(TtTrains) > 0
  /\ TtMax \in Nat /\ TtCached \in 2 .. TtMax
  /\ TtNone \notin TtConsists
  /\ TtEvents \in Nat /\ TtCalls \in Nat

VARIABLES ttDb,     \* pTTDB: "null", "up", "freed" after a failed tau_initTTIaccess, "fault" after the use of
                    \* a pointer that is none; the model ends with these two
          ttTopo,   \* the session's etbTopoCnt and opTrnTopoCnt
          ttState,  \* opTrnState: its two counts
          ttOver,   \* opTrnDir was overwritten by the vehicles of a directory: its header is arbitrary
          ttDir,    \* trnDir: [cnt, topo, list]
          ttCache,  \* cstInfo: the consist and the directory (number) under which it came; the slots count from 0
          ttGen,    \* history: how many train directories came
          ttPd,     \* ttiPDCallback: [at, etb, op, changed]
          ttSema,   \* the semaphore of tau_initTTIaccess
          ttApp,    \* the application: "idle", "took" the semaphore, "etb" has read the first count
          ttTold,   \* the counts that it has read
          ttHeard,  \* history: the counts of the last status that was accepted, zeros after a time-out
          ttTrain,  \* the present train
          ttNet,    \* requests (train is 0) and replies under way: [kind, cst, train]
          ttEv, ttCalled

ttVars == <<ttDb, ttTopo, ttState, ttOver, ttDir, ttCache, ttGen, ttPd, ttSema, ttApp, ttTold, ttHeard,
            ttTrain, ttNet, ttEv, ttCalled>>
ttLib == <<ttState, ttOver, ttDir, ttCache, ttGen>>  \* the contents of pTTDB, and their history
ttUser == <<ttApp, ttTold, ttCalled>>

TtZero == [etb |-> 0, op |-> 0]
TtNoInfo == [cst |-> TtNone, gen |-> 0]
TtQuiet == [at |-> "idle", etb |-> 0, op |-> 0, changed |-> FALSE]
TtBegin(c) == [at |-> "etb", etb |-> c.etb, op |-> c.op, changed |-> FALSE]
TtNoDir == [cnt |-> 0, topo |-> 0, list |-> [i \in 1 .. TtMax |-> TtNone]]
TtNoCache == [i \in 0 .. TtMax - 1 |-> TtNoInfo]
TtEvent == ttEv < TtEvents /\ ttEv' = ttEv + 1

(***************************************************************************)
(* The operational status: ttiPDCallback                                   *)
(***************************************************************************)
\* A status with a good check sum, of the present train or, late, of an earlier one: the state is stored
TtStatus(k) ==
  LET c == [etb |-> TtTrains[k].etb, op |-> TtTrains[k].op] IN
  /\ ttDb = "up" /\ ttPd.at = "idle" /\ TtEvent
  /\ ttState' = c /\ ttHeard' = c /\ ttPd' = TtBegin(c)
  /\ UNCHANGED <<ttDb, ttTopo, ttOver, ttDir, ttCache, ttGen, ttSema, ttUser, ttTrain, ttNet>>
\* One with a bad check sum: the second count is cleared, and nobody is told
TtStatusCrc ==
  /\ ttDb = "up" /\ ttPd.at = "idle" /\ TtEvent
  /\ ttTopo' = [ttTopo EXCEPT !.op = 0]
  /\ UNCHANGED <<ttDb, ttLib, ttPd, ttSema, ttUser, ttHeard, ttTrain, ttNet>>
\* Mutant: a time-out leaves the second count alone.
TtTimedOutHalf == [TtBegin(TtZero) EXCEPT !.op = ttTopo.op]
\* No status for TTDB_STATUS_TO
TtTimedOut == TtBegin(TtZero)
TtTimeOut ==
  /\ ttDb = "up" /\ ttPd.at = "idle" /\ TtEvent
  /\ ttPd' = TtTimedOut /\ ttHeard' = TtZero
  /\ UNCHANGED <<ttDb, ttTopo, ttLib, ttSema, ttUser, ttTrain, ttNet>>
\* tlc_setETBTopoCount, when the count is another
TtSetEtb ==
  /\ ttPd.at = "etb"
  /\ ttTopo' = [ttTopo EXCEPT !.etb = ttPd.etb]
  /\ ttPd' = [ttPd EXCEPT !.at = "op", !.changed = ttTopo.etb # ttPd.etb]
  /\ UNCHANGED <<ttDb, ttLib, ttSema, ttUser, ttHeard, ttTrain, ttNet, ttEv>>
\* tlc_setOpTrainTopoCount
TtSetOp ==
  /\ ttPd.at = "op"
  /\ ttTopo' = [ttTopo EXCEPT !.op = ttPd.op]
  /\ ttPd' = [ttPd EXCEPT !.at = "give", !.changed = ttPd.changed \/ ttTopo.op # ttPd.op]
  /\ UNCHANGED <<ttDb, ttLib, ttSema, ttUser, ttHeard, ttTrain, ttNet, ttEv>>
TtGive ==
  /\ ttPd.at = "give"
  /\ ttSema' = IF ttPd.changed THEN ttSema + 1 ELSE ttSema
  /\ ttPd' = TtQuiet
  /\ UNCHANGED <<ttDb, ttTopo, ttLib, ttUser, ttHeard, ttTrain, ttNet, ttEv>>

(***************************************************************************)
(* Replies of the data base: ttiMDCallback                                 *)
(***************************************************************************)
TtRequest(kind, cst) == [kind |-> kind, cst |-> cst, train |-> 0]
\* ttiStoreOpTrnDir: the vehicles are copied to the start of the directory.  The field opTrnTopoCnt lies
\* behind the room for 63 vehicles and neither copy reaches it: it stays zero, as it was allocated, and zero
\* becomes the session's count.
TtOpDirTopo == 0
TtStoreOpTrnDir(k) ==
  IF Len(TtTrains[k].cst) > TtMax THEN UNCHANGED <<ttTopo, ttOver>>
  ELSE ttOver' = TRUE /\ ttTopo' = [ttTopo EXCEPT !.op = TtOpDirTopo]
\* ttiStoreTrnDir: entries behind the last one keep what an earlier directory left there
TtStoreTrnDir(k) ==
  LET t == TtTrains[k]
      n == Len(t.cst) IN
  IF n > TtMax THEN ttDir
  ELSE [cnt |-> n, topo |-> t.trn, list |-> [i \in 1 .. TtMax |-> IF i <= n THEN t.cst[i] ELSE ttDir.list[i]]]
\* The infos are asked for up to the first entry without a consist
TtInfoRequests(dir) ==
  {TtRequest("cst", dir.list[i]) : i \in {j \in 1 .. TtCached : \A h \in 1 .. j : dir.list[h] # TtNone}}
\* Mutant: the slot of the own consist is kept when a directory comes.
TtInvalidatedOthers == [i \in 0 .. TtMax - 1 |-> IF i \in 1 .. TtCached - 1 THEN TtNoInfo ELSE ttCache[i]]
TtInvalidated == [i \in 0 .. TtMax - 1 |-> IF i < TtCached THEN TtNoInfo ELSE ttCache[i]]
\* ttiIsOwnCstInfo reads the consists of opTrnDir: none before it was overwritten, anything afterwards
TtIsOwn == IF ttOver THEN BOOLEAN ELSE {FALSE}
\* ttiStoreCstInfo: the slots for a consist.  The info is a copy of the telegram, and its cstTopoCnt, behind
\* lists of variable length, is anything: a slot may be taken for one that is not loaded.
TtSlots(c) == {IF own THEN 0 ELSE 1 : own \in TtIsOwn} \cup {i \in 1 .. TtMax - 1 : ttCache[i].cst = c}
\* Without memory the slot stays empty.
TtStoreCstInfo(c, i, mem) ==
  ttCache' = [ttCache EXCEPT ![i] = IF mem THEN [cst |-> c, gen |-> ttGen] ELSE TtNoInfo]

\* The operational directory, as a reply or as a notification (MD 101)
TtOpDirReply(m) ==
  /\ m.kind \in {"op", "note"} /\ TtStoreOpTrnDir(m.train)
  /\ UNCHANGED <<ttDir, ttCache, ttGen>> /\ ttNet' = ttNet \ {m}
TtTrnDirReply(m) ==
  /\ m.kind = "dir" /\ ttDir' = TtStoreTrnDir(m.train) /\ ttCache' = TtInvalidated /\ ttGen' = ttGen + 1
  /\ ttNet' = (ttNet \ {m}) \cup TtInfoRequests(TtStoreTrnDir(m.train))
  /\ UNCHANGED <<ttTopo, ttOver>>
TtCstInfoReply(m) ==
  /\ m.kind = "cst" /\ \E i \in TtSlots(m.cst), mem \in BOOLEAN : TtStoreCstInfo(m.cst, i, mem)
  /\ UNCHANGED <<ttTopo, ttOver, ttDir, ttGen>> /\ ttNet' = ttNet \ {m}
TtReceive(m) ==
  /\ ttDb = "up" /\ ttPd.at = "idle" /\ m.train # 0
  /\ TtOpDirReply(m) \/ TtTrnDirReply(m) \/ TtCstInfoReply(m)
  /\ UNCHANGED <<ttDb, ttState, ttPd, ttSema, ttUser, ttHeard, ttTrain, ttEv>>
\* The data base sends a directory on its own, or answers a request; a request or an answer that is lost
\* stays under way (ttiMDCallback is then called with an error and does nothing)
TtNotify ==
  /\ TtEvent /\ ttNet' = ttNet \cup {[TtRequest("note", TtNone) EXCEPT !.train = ttTrain]}
  /\ UNCHANGED <<ttDb, ttTopo, ttLib, ttPd, ttSema, ttUser, ttHeard, ttTrain>>
TtServe(m) ==
  /\ m.train = 0 /\ (m.kind = "cst" => m.cst # TtNone)
  /\ ttNet' = (ttNet \ {m}) \cup {[m EXCEPT !.train = ttTrain]}
  /\ UNCHANGED <<ttDb, ttTopo, ttLib, ttPd, ttSema, ttUser, ttHeard, ttTrain, ttEv>>
\* The train is coupled anew
TtCouple ==
  /\ ttTrain < Len(TtTrains) /\ ttTrain' = ttTrain + 1
  /\ UNCHANGED <<ttDb, ttTopo, ttLib, ttPd, ttSema, ttUser, ttHeard, ttNet, ttEv>>

(***************************************************************************)
(* Calls of the application                                                *)
(***************************************************************************)
TtCalling == ttDb = "up" /\ ttCalled < TtCalls /\ ttCalled' = ttCalled + 1
\* ttiRequestTTDBdata
TtAsk(kind, cst) == ttNet' = ttNet \cup {TtRequest(kind, cst)}
\* A call that answers at once, or asks and returns TRDP_NODATA_ERR
TtAnswerOr(ask, kind, cst) ==
  /\ IF ask THEN TtAsk(kind, cst) ELSE UNCHANGED ttNet
  /\ UNCHANGED <<ttDb, ttTopo, ttLib, ttPd, ttSema, ttApp, ttTold, ttHeard, ttTrain, ttEv>>
\* vos_memAlloc clears the block.  A failure after that leaves the pointer to the freed block.
TtInitTTIaccess(ok) ==
  /\ ttDb = "null" /\ ttDb' = IF ok THEN "up" ELSE "freed"
  /\ UNCHANGED <<ttTopo, ttLib, ttPd, ttSema, ttUser, ttHeard, ttTrain, ttNet, ttEv>>
\* The block is freed, the cached infos are not (noOfCachedCst is never set).  The listener and the
\* subscription go, the requests do not: a reply that comes later is written through the NULL pointer
TtDeInitTTI ==
  /\ ttDb = "up" /\ ttPd.at = "idle" /\ ttDb' = "null"
  /\ ttState' = TtZero /\ ttOver' = FALSE /\ ttDir' = TtNoDir /\ ttCache' = TtNoCache
  /\ UNCHANGED <<ttTopo, ttGen, ttPd, ttSema, ttUser, ttHeard, ttTrain, ttNet, ttEv>>
TtLateReply(m) ==
  /\ ttDb = "null" /\ m.train # 0 /\ m.kind # "note" /\ ttDb' = "fault"
  /\ UNCHANGED <<ttTopo, ttLib, ttPd, ttSema, ttUser, ttHeard, ttTrain, ttNet, ttEv>>
\* The count of the directory is the zero of TtOpDirTopo; the number of consists may be anything but zero
TtGetOpTrDirectory ==
  /\ TtCalling
  /\ \E empty \in IF ttOver THEN BOOLEAN ELSE {TRUE} :
       TtAnswerOr(empty \/ TtOpDirTopo # ttTopo.op, "op", TtNone)
TtGetTrDirectory == TtCalling /\ TtAnswerOr(ttDir.cnt = 0 \/ ttDir.topo # ttTopo.etb, "dir", TtNone)
TtGetTrnCstCnt == TtCalling /\ TtAnswerOr(ttDir.cnt = 0 \/ ttState.etb # ttTopo.etb, "dir", TtNone)
\* The slots of a consist, first one first; with a label or UUID that is NULL the slot of the own consist
TtFound(c) == {i \in 0 .. TtCached - 1 : ttCache[i] # TtNoInfo /\ ttCache[i].cst = c}
TtGetStaticCstInfo(c) ==
  TtCalling /\ TtAnswerOr(IF c = TtNone THEN ttCache[0] = TtNoInfo ELSE TtFound(c) = {}, "cst", c)
\* ttiGetUUIDfromLabel: no vehicle is found, as opVehCnt is not reached by the copies either
TtUuid(c) == TtNone
\* tau_getCstVehCnt, tau_getCstFctCnt, tau_getCstInfo, tau_getVehOrient
TtGetByLabel(c) ==
  /\ TtCalling /\ (c = TtNone => ttCache[0] # TtNoInfo)
  /\ TtAnswerOr(c # TtNone /\ TtFound(c) = {}, "cst", TtUuid(c))
\* They read the slot of the own consist without a test; tau_getCstFctInfo and tau_getVehInfo also follow
\* a pointer that is made of bytes of the telegram
TtFault(c) ==
  /\ TtCalling /\ (c = TtNone \/ TtFound(c) # {}) /\ ttDb' = "fault"
  /\ UNCHANGED <<ttTopo, ttLib, ttPd, ttSema, ttApp, ttTold, ttHeard, ttTrain, ttNet, ttEv>>

\* The application waits for the semaphore and reads the counts
TtTake ==
  /\ ttApp = "idle" /\ ttSema > 0 /\ ttSema' = ttSema - 1 /\ ttApp' = "took"
  /\ UNCHANGED <<ttDb, ttTopo, ttLib, ttPd, ttTold, ttCalled, ttHeard, ttTrain, ttNet, ttEv>>
TtReadEtb ==
  /\ ttApp = "took" /\ ttApp' = "etb" /\ ttTold' = [ttTold EXCEPT !.etb = ttTopo.etb]
  /\ UNCHANGED <<ttDb, ttTopo, ttLib, ttPd, ttSema, ttCalled, ttHeard, ttTrain, ttNet, ttEv>>
TtReadOp ==
  /\ ttApp = "etb" /\ ttApp' = "idle" /\ ttTold' = [ttTold EXCEPT !.op = ttTopo.op]
  /\ UNCHANGED <<ttDb, ttTopo, ttLib, ttPd, ttSema, ttCalled, ttHeard, ttTrain, ttNet, ttEv>>

TtInit ==
  /\ ttDb = "null" /\ ttTopo = TtZero /\ ttState = TtZero /\ ttOver = FALSE /\ ttDir = TtNoDir
  /\ ttCache = TtNoCache /\ ttGen = 0 /\ ttPd = TtQuiet /\ ttSema = 0
  /\ ttApp = "idle" /\ ttTold = TtZero /\ ttHeard = TtZero /\ ttTrain = 1 /\ ttNet = {} /\ ttEv = 0 /\ ttCalled = 0
TtNext ==
  /\ ttDb \in {"null", "up"}
  /\ \/ \E ok \in BOOLEAN : TtInitTTIaccess(ok)
     \/ TtDeInitTTI
     \/ \E k \in 1 .. ttTrain : TtStatus(k)
     \/ TtStatusCrc \/ TtTimeOut \/ TtSetEtb \/ TtSetOp \/ TtGive
     \/ \E m \in ttNet : TtReceive(m) \/ TtLateReply(m) \/ TtServe(m)
     \/ TtNotify \/ TtCouple
     \/ TtGetOpTrDirectory \/ TtGetTrDirectory \/ TtGetTrnCstCnt
     \/ \E c \in TtConsists \cup {TtNone} : TtGetStaticCstInfo(c) \/ TtGetByLabel(c) \/ TtFault(c)
     \/ TtTake \/ TtReadEtb \/ TtReadOp
TtSpec == TtInit /\ [][TtNext]_ttVars

(***************************************************************************)
(* Properties                                                              *)
(***************************************************************************)
\* The types of the state; a reply about a consist names one.
TtTypeOK ==
  /\ ttDb \in {"null", "up", "freed", "fault"}
  /\ ttTopo \in TtCounts /\ ttState \in TtCounts /\ ttTold \in TtCounts /\ ttHeard \in TtCounts
  /\ ttOver \in BOOLEAN
  /\ ttDir \in [cnt : 0 .. TtMax, topo : Nat, list : [1 .. TtMax -> TtConsists \cup {TtNone}]]
  /\ ttCache \in [0 .. TtMax - 1 -> [cst : TtConsists \cup {TtNone}, gen : Nat]] /\ ttGen \in Nat
  /\ ttPd \in [at : {"idle", "etb", "op", "give"}, etb : Nat, op : Nat, changed : BOOLEAN]
  /\ ttSema \in Nat /\ ttApp \in {"idle", "took", "etb"}
  /\ ttTrain \in 1 .. Len(TtTrains)
  /\ ttNet \subseteq [kind : {"op", "note", "dir", "cst"}, cst : TtConsists \cup {TtNone}, train : 0 .. Len(TtTrains)]
  /\ \A m \in ttNet : m.kind = "cst" /\ m.train # 0 => m.cst # TtNone
  /\ ttEv \in Nat /\ ttCalled \in Nat
\* Outside of the callback the session's first count is that of the last status that was accepted, and zero
\* after a time-out; its second count is either that or zero.  No late reply and no directory makes the
\* session send or accept telegrams with the counts of another train (ttiPDCallback, ttiStoreOpTrnDir).
TtCountsRight == ttPd.at = "idle" => ttTopo.etb = ttHeard.etb /\ ttTopo.op \in {0, ttHeard.op}
\* No change is missed: when a count is not what the application has read, the semaphore is up, or will be
\* at the end of the callback, or the application is about to read that count.  A second count that was
\* cleared, by a bad check sum or by a directory, is excepted: the code tells nobody (ttiPDCallback).
TtNoneMissed ==
  /\ ttTold.etb # ttTopo.etb => ttSema > 0 \/ ttPd.changed \/ ttApp = "took"
  /\ ttTold.op # ttTopo.op => ttTopo.op = 0 \/ ttSema > 0 \/ ttPd.changed \/ ttApp # "idle"
\* What the cache holds came after the last train directory (ttiMDCallback, ttiStoreCstInfo).
TtCacheNew == \A i \in 0 .. TtMax - 1 : ttCache[i] # TtNoInfo => ttCache[i].gen = ttGen
\* Train topology information: the session's counts follow the train, the application learns of every change,
\* and consists of an earlier train are forgotten (tau_tti.c), with telegrams and replies late or lost.
TtSound == TtCountsRight /\ TtNoneMissed /\ TtCacheNew
=============================================================================
