---------------------------- MODULE TrdpSession -----------------------------
(***************************************************************************)
(* Sessions and their socket pools (trdp_if.c, trdp_utils.c): tlc_init,    *)
(* opening and closing sessions, the calls that take a socket from a       *)
(* session's pool (publish, subscribe, listen) and change or return it,    *)
(* and the multicast groups its sockets have joined.                       *)
(*                                                                         *)
(* Every call holds the session's mutex and is one step.  The pool is a    *)
(* table per session, but the number of its slots ever used is one counter *)
(* for the process.  The session's own address is not zero, so a socket is *)
(* bound to any address exactly when it receives a multicast group.  Where *)
(* a call may run out of memory or a system call may fail, it may here.    *)
(***************************************************************************)
EXTENDS Integers, Sequences, FiniteSets, SequencesExt, FiniteSetsExt

CONSTANTS SeSessions, \* the sessions a process may open
          SeGroups,   \* multicast groups
          SeSlots,    \* VOS_MAX_SOCKET_CNT
          SeMaxMc,    \* VOS_MAX_MULTICAST_CNT
          SeElems     \* elements in the queues of a session (bound)

ASSUME SeAssumption ==
  SeSlots \in Nat \ {0} /\ SeMaxMc \in Nat \ {0} /\ SeElems \in Nat \ {0} /\ 0 \notin SeGroups

VARIABLES
  seInited, \* sInited
  seOpen,   \* the sessions in the list sSession
  seMax,    \* sCurrentMaxSocketCnt
  seIface,  \* the pool of each session
  seElem,   \* the elements in the queues of each session
  seListen, \* tcpFd.listen_sd: none, listening, or opened and not listening
  seLeaked, \* users counted for a slot that no element stands for (history)
  seLink    \* the kernel still has the groups of the session's sockets: "up", "lost", "rejoined"

seVars == <<seInited, seOpen, seMax, seIface, seElem, seListen, seLeaked, seLink>>

SeSlot == 1..SeSlots
SeNone == 0
SeFree == [open |-> FALSE, type |-> "pd", rcv |-> FALSE, any |-> FALSE, groups |-> {},
           kernel |-> {}, usage |-> 0]

\* trdp_isValidSession
SeValid(s) == s \in seOpen
SeKind == [pub |-> "pd", sub |-> "pd", lis |-> "md"]

----------------------------------------------------------------------------
\* trdp_initSockets
SeInitSockets == [l \in SeSlot |-> SeFree]

\* vos_determineBindAddr
SeBindAny(rcv, g) == rcv /\ g # SeNone

\* trdp_SockIsJoined, trdp_SockAddJoin: the group is joined, or there is room for it.
SeCanJoin(slot, g) == g = SeNone \/ g \in slot.groups \/ Cardinality(slot.groups) < SeMaxMc
SeJoined(slot, g) ==
  IF g = SeNone THEN slot
  ELSE [slot EXCEPT !.groups = @ \cup {g},
                    !.kernel = IF g \in slot.groups THEN @ ELSE @ \cup {g}]
\* The slot with a user more
SeShared(slot, g) == [SeJoined(slot, g) EXCEPT !.usage = slot.usage + 1]

\* trdp_requestSocket: the slots in use that suit.  When the system call that joins
\* the group fails, the slot is passed over.
SeSuitable(iface, type, rcv, g, ok) ==
  {l \in 1..seMax : /\ iface[l].open /\ iface[l].type = type /\ iface[l].rcv = rcv
                    /\ iface[l].any = SeBindAny(rcv, g)
                    /\ SeCanJoin(iface[l], g)
                    /\ ok \/ g = SeNone \/ g \in iface[l].groups}

\* A slot for a new socket.  A free slot below the highest is taken only while the
\* highest is not the last of the table.
SeNewSlot(iface) ==
  LET empty == {l \in 1..seMax : ~iface[l].open}
  IN  IF seMax = SeSlots THEN 0 ELSE IF empty # {} THEN Min(empty) ELSE seMax + 1

\* The slot (0: none), and the pool and the counter afterwards.
SeRequest(iface, type, rcv, g, ok) ==
  LET suit == SeSuitable(iface, type, rcv, g, ok)
      l == IF suit # {} THEN Min(suit) ELSE SeNewSlot(iface)
      new == [open |-> TRUE, type |-> type, rcv |-> rcv, any |-> SeBindAny(rcv, g),
              groups |-> {}, kernel |-> {}, usage |-> 1]
      max == IF suit = {} /\ l > seMax THEN l ELSE seMax
  IN  CASE suit # {} /\ (ok \/ iface[l].any) ->
             [slot |-> l, max |-> max,
              iface |-> [iface EXCEPT ![l] = SeShared(@, g)]]
        [] suit # {} /\ ~(ok \/ iface[l].any) ->
             [slot |-> 0, max |-> max, iface |-> iface]
        [] suit = {} /\ l = 0 ->
             [slot |-> 0, max |-> max, iface |-> iface]
        [] suit = {} /\ l # 0 ->
             [slot |-> IF ok THEN l ELSE 0, max |-> max,
              iface |-> [iface EXCEPT ![l] = IF ok THEN SeJoined(new, g) ELSE SeFree]]

\* Mutant: a socket is closed as soon as one of its users is gone.
SeReleaseLast(iface, l, n) == IF n = 0 THEN iface ELSE [iface EXCEPT ![l] = SeFree]

\* trdp_releaseSocket for n users of slot l of a pool; a closed slot is left alone.
SeRelease(iface, l, n) ==
  IF ~iface[l].open THEN iface
  ELSE IF iface[l].usage > n THEN [iface EXCEPT ![l].usage = @ - n]
  ELSE [iface EXCEPT ![l] = SeFree]

SeSetPool(s, req) ==
  /\ seMax' = req.max /\ seIface' = [seIface EXCEPT ![s] = req.iface]

----------------------------------------------------------------------------
\* tlc_init: fails when the memory or the mutex cannot be had, and when called twice.
SeTlcInit ==
  /\ ~seInited /\ seInited' = TRUE
  /\ UNCHANGED <<seOpen, seMax, seIface, seElem, seListen, seLeaked, seLink>>

\* tlc_openSession, with the defaults of tlc_configSession
SeOpenSession(s) ==
  /\ seInited /\ ~SeValid(s)
  /\ seOpen' = seOpen \cup {s}
  /\ seIface' = [seIface EXCEPT ![s] = SeInitSockets]
  /\ seElem' = [seElem EXCEPT ![s] = << >>]
  /\ seListen' = [seListen EXCEPT ![s] = "none"]
  /\ seLeaked' = [seLeaked EXCEPT ![s] = [l \in SeSlot |-> 0]]
  /\ seLink' = [seLink EXCEPT ![s] = "up"]
  /\ UNCHANGED <<seInited, seMax>>

SeUsers(s, l, kinds) ==
  Cardinality({i \in DOMAIN seElem[s] : seElem[s][i].slot = l /\ seElem[s][i].kind \in kinds})

\* The pool after every element gave its socket back, a publisher twice.
SeGiveBack(s) ==
  [l \in SeSlot |->
     LET n == SeUsers(s, l, {"pub", "sub", "lis"}) + SeUsers(s, l, {"pub"})
     IN  IF n = 0 THEN seIface[s][l] ELSE SeRelease(seIface[s], l, n)[l]]

\* What tlc_closeSession leaves of a session
SeClosing(s) == [iface |-> SeGiveBack(s), elem |-> << >>]

\* tlc_closeSession
SeCloseSession(s) ==
  /\ SeValid(s)
  /\ seOpen' = seOpen \ {s}
  /\ seIface' = [seIface EXCEPT ![s] = SeClosing(s).iface]
  /\ seElem' = [seElem EXCEPT ![s] = SeClosing(s).elem]
  /\ seListen' = [seListen EXCEPT ![s] = "none"]
  /\ UNCHANGED <<seInited, seMax, seLeaked, seLink>>

\* tlc_terminate closes what is left
SeTerminate ==
  /\ seInited /\ seInited' = FALSE
  /\ seOpen' = {}
  /\ seIface' = [s \in SeSessions |-> IF s \in seOpen THEN SeClosing(s).iface ELSE seIface[s]]
  /\ seElem' = [s \in SeSessions |-> << >>]
  /\ seListen' = [s \in SeSessions |-> "none"]
  /\ UNCHANGED <<seMax, seLeaked, seLink>>

----------------------------------------------------------------------------
\* The end of tlp_publish, tlp_subscribe and tlm_addListener: the new element, or
\* nothing.  Without memory for the frame the socket of a telegram is not given back
\* (at most once a session here).
SeAdd(s, kind, g, ok, mem) ==
  LET req == SeRequest(seIface[s], SeKind[kind], kind # "pub", g, ok)
  IN  /\ SeValid(s) /\ Len(seElem[s]) < SeElems
      /\ mem \/ \A l \in SeSlot : seLeaked[s][l] = 0
      /\ SeSetPool(s, req)
      /\ seElem' = IF req.slot # 0 /\ mem
                   THEN [seElem EXCEPT ![s] = Append(@, [kind |-> kind, group |-> g,
                           slot |-> req.slot, joint |-> g # SeNone])]
                   ELSE seElem
      /\ seLeaked' = IF req.slot # 0 /\ ~mem THEN [seLeaked EXCEPT ![s][req.slot] = @ + 1]
                                             ELSE seLeaked
      /\ UNCHANGED <<seInited, seOpen, seListen, seLink>>

\* tlp_publish and tlp_subscribe
SePublish(s) == \E ok, mem \in BOOLEAN : SeAdd(s, "pub", SeNone, ok, mem)
SeSubscribe(s) ==
  \E g \in SeGroups \cup {SeNone}, ok, mem \in BOOLEAN :
     SeAdd(s, "sub", g, ok, mem)

\* tlm_addListener for UDP; it asks for memory first
SeAddListener(s) ==
  \E g \in SeGroups \cup {SeNone}, ok \in BOOLEAN : SeAdd(s, "lis", g, ok, TRUE)

\* tlm_addListener for TCP, trdp_mdGetTCPSocket: a socket that was opened but could not
\* be bound stays, and the next call takes it for one that listens.
SeAddListenerTcp(s) ==
  /\ SeValid(s) /\ Len(seElem[s]) < SeElems
  /\ \/ /\ seListen[s] = "none"
        /\ \E st \in {"none", "stuck"} : seListen' = [seListen EXCEPT ![s] = st]
        /\ UNCHANGED seElem
     \/ /\ seListen' = [seListen EXCEPT ![s] = IF @ = "none" THEN "listening" ELSE @]
        /\ seElem' = [seElem EXCEPT ![s] = Append(@, [kind |-> "tcp", group |-> SeNone,
                                                      slot |-> 0, joint |-> FALSE])]
  /\ UNCHANGED <<seInited, seOpen, seMax, seIface, seLeaked, seLink>>

\* tlp_unpublish, tlp_unsubscribe, tlm_delListener
SeRemove(s) ==
  /\ SeValid(s)
  /\ \E i \in DOMAIN seElem[s] :
        LET e == seElem[s][i]
        IN  /\ seElem' = [seElem EXCEPT ![s] = RemoveAt(@, i)]
            /\ seIface' = IF e.slot = 0 THEN seIface
                          ELSE [seIface EXCEPT ![s] = SeRelease(@, e.slot, 1)]
  /\ UNCHANGED <<seInited, seOpen, seMax, seListen, seLeaked, seLink>>

SeMoved(e, g, l) == [e EXCEPT !.group = g, !.slot = l]

\* tlp_resubscribe and tlm_readdListener to a group: the socket is given back and a
\* new one requested; when that fails the element is deleted (tlp_unsubscribe then
\* releases slot -1, which is none).  TRDP_MC_JOINT stays what it was.
SeMove(s) ==
  /\ SeValid(s)
  /\ \E i \in DOMAIN seElem[s], g \in SeGroups, ok \in BOOLEAN :
        LET e == seElem[s][i]
            req == SeRequest(SeRelease(seIface[s], e.slot, 1), SeKind[e.kind], TRUE, g, ok)
        IN  /\ e.kind \in {"sub", "lis"} /\ g # e.group
            /\ SeSetPool(s, req)
            /\ seElem' = [seElem EXCEPT ![s] = IF req.slot = 0 THEN RemoveAt(@, i)
                            ELSE ReplaceAt(@, i, SeMoved(e, g, req.slot))]
  /\ UNCHANGED <<seInited, seOpen, seListen, seLeaked, seLink>>

\* The same to an address of its own: the socket is kept.
SeMoveUnicast(s) ==
  /\ SeValid(s)
  /\ \E i \in DOMAIN seElem[s] :
        /\ seElem[s][i].kind \in {"sub", "lis"} /\ seElem[s][i].group # SeNone
        /\ seElem' = [seElem EXCEPT ![s][i].group = SeNone]
  /\ UNCHANGED <<seInited, seOpen, seMax, seIface, seListen, seLeaked, seLink>>

\* A link goes down and up: the kernel forgets the groups (external).
SeLinkLost(s) ==
  /\ SeValid(s) /\ seLink[s] = "up"
  /\ seLink' = [seLink EXCEPT ![s] = "lost"]
  /\ seIface' = [seIface EXCEPT ![s] = [l \in SeSlot |-> [@[l] EXCEPT !.kernel = {}]]]
  /\ UNCHANGED <<seInited, seOpen, seMax, seElem, seListen, seLeaked>>

\* The groups that tlc_reinitSession joins again: those of the subscriptions (and of the sessions of
\* message data, never of a listener) that have TRDP_MC_JOINT.
SeJoins(s, l) ==
  {e.group : e \in {d \in Range(seElem[s]) : d.kind = "sub" /\ d.slot = l /\ d.joint /\ d.group # SeNone}}
SeReinit(s) ==
  /\ SeValid(s) /\ seLink[s] = "lost"
  /\ seLink' = [seLink EXCEPT ![s] = "rejoined"]
  /\ seIface' = [seIface EXCEPT ![s] =
       [l \in SeSlot |-> [@[l] EXCEPT !.kernel = seIface[s][l].kernel \cup SeJoins(s, l)]]]
  /\ UNCHANGED <<seInited, seOpen, seMax, seElem, seListen, seLeaked>>

SeInit ==
  /\ seInited = FALSE /\ seOpen = {} /\ seMax = 0
  /\ seIface = [s \in SeSessions |-> SeInitSockets]
  /\ seElem = [s \in SeSessions |-> << >>]
  /\ seListen = [s \in SeSessions |-> "none"]
  /\ seLeaked = [s \in SeSessions |-> [l \in SeSlot |-> 0]]
  /\ seLink = [s \in SeSessions |-> "up"]

SeNext ==
  \/ SeTlcInit \/ SeTerminate
  \/ \E s \in SeSessions :
        \/ SeOpenSession(s) \/ SeCloseSession(s)
        \/ SePublish(s) \/ SeSubscribe(s) \/ SeAddListener(s) \/ SeAddListenerTcp(s)
        \/ SeRemove(s) \/ SeMove(s) \/ SeMoveUnicast(s) \/ SeLinkLost(s) \/ SeReinit(s)

SeSpec == SeInit /\ [][SeNext]_seVars

----------------------------------------------------------------------------
\* A socket shared by several elements stays open as long as one of them uses it, and
\* is closed with the last, session or not: the usage counter is exact, apart from
\* the users tlp_publish and tlp_subscribe forget when they run out of memory.
SeUsageExact ==
  \A s \in SeSessions, l \in SeSlot :
     LET n == SeUsers(s, l, {"pub", "sub", "lis"}) + seLeaked[s][l]
     IN  /\ s \in seOpen => seIface[s][l].usage = n /\ (seIface[s][l].open <=> n > 0)
         /\ s \notin seOpen => (seIface[s][l].open => seLeaked[s][l] > 0)

\* While the link holds, every element for a multicast group has a socket that has
\* joined the group, however sockets are shared, returned and requested again.
SeHears ==
  \A s \in seOpen : \A e \in Range(seElem[s]) :
     seLink[s] = "up" /\ e.group # SeNone => e.group \in seIface[s][e.slot].kernel

\* Not kept (trdp_if_light.h:117): tlc_reinitSession re-joins the multicast groups.  It does so
\* for subscriptions, not for listeners.
SeRejoins ==
  \A s \in seOpen : \A e \in Range(seElem[s]) :
     seLink[s] = "rejoined" /\ e.group # SeNone => e.group \in seIface[s][e.slot].kernel

\* A pool of shared sockets serves every telegram as a socket of its own would: it stays open for it
\* and hears its group (trdp_requestSocket, trdp_releaseSocket, tlc_closeSession).
SeSound == SeUsageExact /\ SeHears
=============================================================================
