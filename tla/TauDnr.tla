------------------------------- MODULE TauDnr -------------------------------
(***************************************************************************)
(* Name resolution (tau_dnr.c): tau_uri2Addr looks into a sorted cache and  *)
(* asks a server for what is not there or was resolved under other          *)
(* topology counts, the train's TCN-DNS by a message data request or a      *)
(* standard DNS by UDP.  The cache has no lock: an application that         *)
(* resolves names from several threads has to take turns, and calls are     *)
(* modelled one at a time.  The thread that runs tlc_process hands answers  *)
(* to dnrMDCallback only while the call waits, for tlm_abortSession waits   *)
(* for the session's mutex, and trdp_mdSend frees the aborted session       *)
(* before tlc_process receives again.                                       *)
(*                                                                         *)
(* URIs are numbers, so that they have an order.  An address is the URI and *)
(* the train's counts that the server gave it for; NoAddr is INADDR_ANY.    *)
(* Replies of the standard DNS come from the server that was asked (its     *)
(* address is overwritten by the sender's).                                 *)
(***************************************************************************)
EXTENDS Integers, Sequences, TLC

CONSTANTS DnUris,      \* names
          DnHostFiles, \* hosts files: sequences of URIs
          DnMax,       \* TAU_MAX_NO_CACHE_ENTRY
          DnModes,     \* dnsOptions: TRDP_DNR_COMMON_THREAD is 0; 1 and 2 do the same here
          DnTopos,     \* topology counts that the train may get; 0 when it is not known
          DnCounts,    \* the session's first counts [etb, op]: zeros, or what the application was told before
          DnFirst,     \* the train's first counts [etb, op, n], n = 0
          DnCalls,     \* bound: calls
          DnChanges    \* bound: changes of the train

VARIABLES dnMode,   \* useTCN_DNS: 0 standard DNS, 1 and 2 TCN-DNS; DnOff before tau_initDnr
          dnHosts,  \* a hosts file was given: timeout is TAU_DNS_TIME_OUT_SHORT
          dnCache,  \* cache: [uri, addr, etb, op, fixed]
          dnTopo,   \* the session's counts [etb, op]
          dnTrain,  \* the train's counts, known to the server; and how often they changed
          dnCalls,  \* calls so far
          dnCall    \* the call of the application: [at, uri, try, temp, net, res]

dnVars == <<dnMode, dnHosts, dnCache, dnTopo, dnTrain, dnCalls, dnCall>>

NoAddr == [uri |-> 0, etb |-> 0, op |-> 0]
DnNothing == << >>
DnOff == -1

(***************************************************************************)
(* The cache                                                               *)
(***************************************************************************)
\* compareURI, vos_qsort
DnSort(cache) == SortSeq(cache, LAMBDA a, b : a.uri < b.uri)
\* vos_bsearch: the index of an entry with the URI, 0 for none
DnSearch(cache, u) ==
  LET find[lo \in 1 .. Len(cache) + 1, hi \in 1 .. Len(cache) + 1] ==
        IF lo >= hi THEN 0
        ELSE LET mid == (lo + hi) \div 2 IN
             IF u < cache[mid].uri THEN find[lo, mid]
             ELSE IF u > cache[mid].uri THEN find[mid + 1, hi] ELSE mid IN
  find[1, Len(cache) + 1]
DnEntry(u, a) == [uri |-> u, addr |-> a, etb |-> dnTopo.etb, op |-> dnTopo.op, fixed |-> FALSE]
\* A new entry: at the end, or over the first one when the cache is full; then the cache is sorted
DnAdd(e) == DnSort(IF Len(dnCache) >= DnMax THEN [dnCache EXCEPT ![1] = e] ELSE Append(dnCache, e))
\* addEntry: no address yet, with the session's counts
DnAddEntry(u) == DnAdd(DnEntry(u, NoAddr))
\* The test of tau_uri2Addr: one count that matches is enough
DnUsable(e) ==
  \/ e.fixed \/ e.etb = dnTopo.etb \/ e.op = dnTopo.op
  \/ dnTopo.etb = 0 /\ dnTopo.op = 0
\* readHostsFile
DnReadHosts(file) ==
  DnSort([i \in 1 .. IF Len(file) < DnMax THEN Len(file) ELSE DnMax |->
            [uri |-> file[i], addr |-> [NoAddr EXCEPT !.uri = file[i]], etb |-> 0, op |-> 0, fixed |-> TRUE]])
\* buildRequest: entries that are neither fixed nor local to the consist, and have no address or other counts
DnRequest(cache) ==
  {e.uri : e \in {x \in {cache[i] : i \in DOMAIN cache} :
     /\ ~x.fixed /\ ~(x.addr # NoAddr /\ x.etb = 0 /\ x.op = 0)
     /\ x.addr = NoAddr \/ x.etb # dnTopo.etb \/ x.op # dnTopo.op}}

(***************************************************************************)
(* Answers                                                                 *)
(***************************************************************************)
\* Mutant: an entry is stored with the session's counts, not with the reply's.
DnStampOwn(e, reply) == [e EXCEPT !.addr = [reply.train EXCEPT !.uri = e.uri], !.etb = dnTopo.etb, !.op = dnTopo.op]
\* parseUpdateTCNResponse, one URI
DnStamp(e, reply) ==
  [e EXCEPT !.addr = [reply.train EXCEPT !.uri = e.uri], !.etb = reply.train.etb, !.op = reply.train.op, !.fixed = FALSE]
\* parseUpdateTCNResponse: the URIs that were resolved, in the entries that the search finds
DnTcnResponse(reply) ==
  LET found == {DnSearch(dnCache, u) : u \in reply.resolved} IN
  DnSort([i \in DOMAIN dnCache |-> IF i \in found THEN DnStamp(dnCache[i], reply) ELSE dnCache[i]])
\* createSendQuery; parseResponse: the address of the reply, none without an answer of type A
DnQuery(u) == [asked |-> {u}]
DnParsed(c) == IF c.net.resolved = {} THEN NoAddr ELSE [c.net.train EXCEPT !.uri = c.uri]
\* updateDNSentry, after the reply: the outdated entry is overwritten where it was found before the query
\* was sent, or a new one is added
DnOverwrites(c, addr) == c.temp # 0 /\ addr # NoAddr /\ ~dnCache[c.temp].fixed
DnDnsResponse(c, addr) ==
  IF DnOverwrites(c, addr)
  THEN [dnCache EXCEPT ![c.temp] = [@ EXCEPT !.addr = addr, !.etb = dnTopo.etb, !.op = dnTopo.op]]
  ELSE DnAdd(DnEntry(c.uri, addr))

(***************************************************************************)
(* Calls                                                                   *)
(***************************************************************************)
DnTcn == dnMode # 0
DnIdle == [at |-> "idle", uri |-> 0, try |-> 0, temp |-> 0, net |-> DnNothing, res |-> DnNothing]
\* tau_initDnr; without the hosts file it reports an error, and the resolver can be used
DnInitDnr(mode, file) ==
  /\ dnMode = DnOff /\ dnMode' = mode /\ dnHosts' = (file # DnNothing)
  /\ dnCache' = DnReadHosts(file)
  /\ UNCHANGED <<dnTopo, dnTrain, dnCall, dnCalls>>
\* tau_deInitDnr, at the end, when no call is under way
DnDeInitDnr ==
  /\ dnMode # DnOff /\ dnCalls = DnCalls /\ dnCall.at = "idle"
  /\ dnMode' = DnOff /\ dnCache' = << >> /\ dnHosts' = FALSE
  /\ dnCall' = DnIdle
  /\ UNCHANGED <<dnTopo, dnTrain, dnCalls>>
\* tau_DNRstatus
DnStatus ==
  IF dnMode = DnOff THEN "NOT_AVAILABLE" ELSE IF dnHosts THEN "HOSTSFILE" ELSE IF dnCache # << >> THEN "ACTIVE" ELSE "UNKNOWN"
\* tau_uri2Addr, of a URI that is no dotted address
DnUri2Addr(u) ==
  /\ DnStatus # "NOT_AVAILABLE" /\ dnCall.at = "idle" /\ dnCalls < DnCalls /\ dnCalls' = dnCalls + 1
  /\ dnCall' = [DnIdle EXCEPT !.at = "look", !.uri = u]
  /\ UNCHANGED <<dnMode, dnHosts, dnCache, dnTopo, dnTrain>>
DnResult(err, addr) == [err |-> err, addr |-> addr, topo |-> dnTopo]
DnEnded(c, res) == [DnIdle EXCEPT !.uri = c.uri, !.res = res]
DnHit ==
  LET i == DnSearch(dnCache, dnCall.uri) IN
  /\ dnCall.at = "look" /\ i # 0 /\ DnUsable(dnCache[i])
  /\ dnCall' = DnEnded(dnCall, DnResult("ok", dnCache[i].addr))
  /\ UNCHANGED <<dnMode, dnHosts, dnCache, dnTopo, dnTrain, dnCalls>>
DnMiss == LET i == DnSearch(dnCache, dnCall.uri) IN dnCall.at = "look" /\ (i # 0 => ~DnUsable(dnCache[i]))
DnWithEntry == IF DnSearch(dnCache, dnCall.uri) = 0 THEN DnAddEntry(dnCall.uri) ELSE dnCache
\* updateTCNDNSentry up to the wait: a URI that is not in the cache is added, then everything outdated is asked for
DnAskTcn ==
  /\ DnMiss /\ DnTcn
  /\ dnCache' = DnWithEntry
  /\ dnCall' = [dnCall EXCEPT !.at = "wait", !.net = [asked |-> DnRequest(DnWithEntry)]]
  /\ UNCHANGED <<dnMode, dnHosts, dnTopo, dnTrain, dnCalls>>
\* updateDNSentry up to the wait; createSendQuery
DnAskDns ==
  /\ DnMiss /\ ~DnTcn
  /\ dnCall' = [dnCall EXCEPT !.at = "wait", !.temp = DnSearch(dnCache, dnCall.uri),
                            !.net = DnQuery(dnCall.uri)]
  /\ UNCHANGED <<dnMode, dnHosts, dnCache, dnTopo, dnTrain, dnCalls>>
\* After an update the loop of tau_uri2Addr looks a second time; after the second update it gives up
DnNextTry(c) ==
  IF c.try = 1 THEN DnEnded(c, DnResult("unresolved", NoAddr))
  ELSE [c EXCEPT !.at = "look", !.try = 1, !.temp = 0, !.net = DnNothing]
\* No semaphore, no socket, or the request cannot be sent; then the new entry stays
DnAskFails ==
  /\ DnMiss /\ dnCache' \in {dnCache, IF DnTcn THEN DnWithEntry ELSE dnCache}
  /\ dnCall' = DnNextTry(dnCall)
  /\ UNCHANGED <<dnMode, dnHosts, dnTopo, dnTrain, dnCalls>>
\* The server answers: it resolves everything or nothing
DnServe ==
  /\ dnCall.at = "wait" /\ "asked" \in DOMAIN dnCall.net
  /\ \E resolved \in {dnCall.net.asked, {}} :
       dnCall' = [dnCall EXCEPT !.net = [resolved |-> resolved, train |-> [uri |-> 0, etb |-> dnTrain.etb, op |-> dnTrain.op]]]
  /\ UNCHANGED <<dnMode, dnHosts, dnCache, dnTopo, dnTrain, dnCalls>>
\* dnrMDCallback, or the end of the wait in updateDNSentry with parseResponse
DnArrive ==
  LET c == dnCall
      addr == DnParsed(c) IN
  /\ c.at = "wait" /\ "resolved" \in DOMAIN c.net
  /\ dnCache' = IF DnTcn THEN DnTcnResponse(c.net) ELSE DnDnsResponse(c, addr)
  /\ dnCall' = DnNextTry(dnCall)
  /\ UNCHANGED <<dnMode, dnHosts, dnTopo, dnTrain, dnCalls>>
\* The wait times out; tlm_abortSession
DnGiveUp ==
  /\ dnCall.at = "wait" /\ dnCall' = DnNextTry(dnCall)
  /\ UNCHANGED <<dnMode, dnHosts, dnCache, dnTopo, dnTrain, dnCalls>>
\* tau_addr2Uri: both counts have to match
DnAddr2Uri ==
  LET hits == {i \in DOMAIN dnCache : /\ dnCache[i].addr # NoAddr
                                      /\ dnTopo.etb = 0 \/ dnCache[i].etb = dnTopo.etb
                                      /\ dnTopo.op = 0 \/ dnCache[i].op = dnTopo.op} IN
  /\ DnStatus # "NOT_AVAILABLE" /\ dnCall.at = "idle" /\ dnCalls < DnCalls /\ dnCalls' = dnCalls + 1
  /\ \E i \in hits :
       /\ \A j \in hits : dnCache[j].addr = dnCache[i].addr => i <= j
       /\ dnCall' = [DnIdle EXCEPT !.uri = dnCache[i].uri, !.res = DnResult("ok", dnCache[i].addr)]
  /\ UNCHANGED <<dnMode, dnHosts, dnCache, dnTopo, dnTrain>>
\* The train is coupled anew; the session is told its counts one after the other
DnCoupled ==
  /\ dnTrain.n < DnChanges
  /\ \E e, o \in DnTopos : dnTrain' = [etb |-> e, op |-> o, n |-> dnTrain.n + 1]
  /\ UNCHANGED <<dnMode, dnHosts, dnCache, dnTopo, dnCall, dnCalls>>
DnSetETBTopoCount ==
  /\ dnTopo.etb # dnTrain.etb /\ dnTopo' = [dnTopo EXCEPT !.etb = dnTrain.etb]
  /\ UNCHANGED <<dnMode, dnHosts, dnCache, dnTrain, dnCall, dnCalls>>
DnSetOpTrainTopoCount ==
  /\ dnTopo.op # dnTrain.op /\ dnTopo' = [dnTopo EXCEPT !.op = dnTrain.op]
  /\ UNCHANGED <<dnMode, dnHosts, dnCache, dnTrain, dnCall, dnCalls>>

DnInit ==
  /\ dnMode = DnOff /\ dnHosts = FALSE /\ dnCache = << >> /\ dnTopo \in DnCounts
  /\ dnTrain = DnFirst
  /\ dnCalls = 0 /\ dnCall = DnIdle
DnNext ==
  \/ \E mode \in DnModes, file \in DnHostFiles \cup {DnNothing} : DnInitDnr(mode, file)
  \/ DnDeInitDnr \/ DnCoupled \/ DnSetETBTopoCount \/ DnSetOpTrainTopoCount
  \/ \E u \in DnUris : DnUri2Addr(u)
  \/ DnHit \/ DnAskTcn \/ DnAskDns \/ DnAskFails \/ DnServe
  \/ DnArrive \/ DnGiveUp \/ DnAddr2Uri

(***************************************************************************)
(* Properties                                                              *)
(***************************************************************************)
\* An address that a call gives for a URI, and a URI for an address, was resolved for that URI, whatever was
\* added, overwritten and sorted since; and with the TCN-DNS it was resolved under one of the two counts that
\* the session had when the call looked, or comes from the hosts file, or the session had no counts
\* (tau_uri2Addr, tau_addr2Uri).  The standard DNS knows no counts: its answers are stamped with the session's
\* when they arrive (updateDNSentry).
DnRight ==
  LET r == dnCall.res IN
  r # DnNothing /\ r.err = "ok" /\ r.addr # NoAddr =>
    /\ r.addr.uri = dnCall.uri
    /\ \/ dnMode = 0
       \/ r.addr.etb = 0 /\ r.addr.op = 0
       \/ r.topo.etb = 0 /\ r.topo.op = 0
       \/ r.addr.etb = r.topo.etb \/ r.addr.op = r.topo.op
=============================================================================
