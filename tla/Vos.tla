-------------------------------- MODULE Vos --------------------------------
(***************************************************************************)
(* The operating system abstraction of the TRDP library, in three parts    *)
(* that share nothing: the memory pool and the message queues of vos_mem.c *)
(* and the cyclic threads and times of vos_thread.c.                       *)
(***************************************************************************)
EXTENDS Integers, Sequences, FiniteSets, SequencesExt, FiniteSetsExt

----------------------------------------------------------------------------
(***************************************************************************)
(* The memory pool: one area, cut into blocks of a few fixed sizes that    *)
(* are never joined again, with a list of free blocks for every size.      *)
(* vos_memAlloc takes a block under the pool's mutex and writes its size   *)
(* into it after the mutex is released; vos_memFree tells a block that is  *)
(* in use from one that is not by that size.                               *)
(*                                                                         *)
(* Sizes are classes 1..VmClasses in units; a request is the class that    *)
(* fits it.  The counters of MEM_STATISTIC_T decide nothing and are left   *)
(* out.  Every vos_memInit finds gMem zeroed, as the loader or             *)
(* vos_memDelete left it.  A list is the sequence that pNext leads         *)
(* through, which is exact as long as no block is in two lists.            *)
(***************************************************************************)
CONSTANTS VmSize,     \* the size of each class, in ascending order
          VmHead,     \* sizeof(MEM_BLOCK_T)
          VmArea,     \* memSize
          VmPre,      \* fragMem, the blocks of each class to cut at the start; all 0: NULL
          VmPreDefault, \* VOS_MEM_PREALLOCATE
          VmPreMost,  \* VOS_MEM_MAX_PREALLOCATE
          VmThreads

ASSUME VmAssumption ==
  /\ VmHead \in Nat /\ VmArea \in Nat \ {0} /\ VmPreMost \in Nat
  /\ VmSize \in Seq(Nat \ {0})
  /\ VmPre \in [DOMAIN VmSize -> Nat] /\ VmPreDefault \in [DOMAIN VmSize -> Nat]

VARIABLES
  vmFree,  \* freeBlock[]: the free blocks of each class
  vmCut,   \* the class every block was cut for, in the order of the area
  vmTag,   \* the size written into each block, 0 while it is free
  vmHeld,  \* the blocks each thread holds
  vmNew,   \* the block a thread is about to be given, 0 outside vos_memAlloc
  vmGone   \* the block a thread gave back last

vmVars == <<vmFree, vmCut, vmTag, vmHeld, vmNew, vmGone>>
VmClasses == DOMAIN VmSize

\* allocSize
VmUsed(cut) == FoldSeq(LAMBDA c, n : n + VmSize[c] + VmHead, 0, cut)
VmFits(cut, c) == VmUsed(cut) + VmSize[c] + VmHead < VmArea

\* The caller's table, or else the default one.
VmAskedFor == IF \A c \in VmClasses : VmPre[c] = 0 THEN VmPreDefault ELSE VmPre
VmBytes(table) == MapThenSumSet(LAMBDA c : table[c] * VmSize[c], VmClasses)

\* preAlloc.  minSize is summed up for the caller's table only: the default one is used
\* even when it asks for more than half of the area.
VmTable == IF VmAskedFor = VmPre /\ VmBytes(VmPre) > VmArea \div 2
           THEN [c \in VmClasses |-> 0] ELSE VmAskedFor

\* The attempts of the round of class c
VmWanted(c) == IF VmTable[c] > VmPreMost THEN VmPreMost ELSE VmTable[c]

\* There is room for all of them.
VmTableFits == MapThenSumSet(LAMBDA c : VmWanted(c) * (VmSize[c] + VmHead), VmClasses) < VmArea

\* vos_memInit cuts blocks class by class, each class until a block does not fit: upTo[c]
\* is the last block of class c.
VmPool(upTo, cut) ==
  \A c \in VmClasses :
     LET before == upTo[c - 1]  last == upTo[c]
     IN  /\ {b \in DOMAIN cut : cut[b] = c} = (before + 1)..last
         /\ last - before \in 0..VmWanted(c)
         /\ last > before => VmUsed(SubSeq(cut, 1, last)) < VmArea
         /\ last - before < VmWanted(c) => ~VmFits(SubSeq(cut, 1, last), c)

\* The round of class c gives back every pointer of p[], those behind the attempt that
\* failed too: p[k] is what the last round with a k-th attempt left there, 0 for NULL.
VmLeftOver(upTo, c, k) ==
  LET got(d) == upTo[d] - upTo[d - 1]
      tried == {d \in 1..(c - 1) : k <= VmWanted(d) /\ k <= got(d) + 1}
      d == Max(tried)
  IN  IF tried = {} \/ k > got(d) THEN 0 ELSE upTo[d - 1] + k

\* These are free already and have the size 0, which is also the size the next class does
\* not have yet: vos_memFree puts them in its list.  After the last class it refuses them.
VmAgain(upTo, c) ==
  LET failed == upTo[c] - upTo[c - 1] + 1
      rest == [i \in 1..(VmWanted(c) - failed) |-> VmLeftOver(upTo, c, failed + i)]
  IN  IF c = Len(VmSize) THEN << >> ELSE SelectSeq(rest, LAMBDA b : b # 0)

\* The next round drops that list, but pNext of each of its blocks was overwritten with the
\* one given back before it: the list s the block was in goes on there.
VmCutOff(s, again) ==
  LET hit == {i \in DOMAIN s : s[i] \in Range(again)}
      i == Min(hit)
      j == CHOOSE n \in DOMAIN again : again[n] = s[i]
  IN  IF hit = {} THEN s ELSE SubSeq(s, 1, i) \o Reverse(SubSeq(again, 1, j - 1))

\* The list of class c when all rounds are over: its blocks, the last one first, unless
\* rounds that ran out of room gave blocks back again.
VmFreeAtStart(upTo, c) ==
  LET own == [i \in 1..(upTo[c] - upTo[c - 1]) |-> upTo[c] + 1 - i]
      later == [i \in 1..(Len(VmSize) - c) |-> c + i]
  IN  IF VmTableFits THEN own
      ELSE FoldLeft(LAMBDA s, d : VmCutOff(s, VmAgain(upTo, d)), own, later)

VmMemInit ==
  \E upTo \in [0..Len(VmSize) -> 0..VmArea] :
     /\ upTo[0] = 0
     /\ vmCut \in [1..upTo[Len(VmSize)] -> VmClasses]
     /\ VmPool(upTo, vmCut)
     /\ vmTag = [b \in DOMAIN vmCut |-> 0]
     /\ vmFree = [c \in VmClasses |-> VmFreeAtStart(upTo, c)]

\* The class whose list a request for class c is served from when the area is used up.
VmLarger(c) == {d \in VmClasses : d > c /\ vmFree[d] # << >>}

\* Mutant: a block of a larger class gets the size that was asked for.
VmTagAsked(t, b) == vmTag' = [vmTag EXCEPT ![b] = 1]

\* The size written into a block after the mutex is released
VmTagSize(t, b) == vmTag' = [vmTag EXCEPT ![b] = vmCut[b]]

\* vos_memAlloc, under the mutex: a free block of the class, a new one, or a larger one.
VmAllocFree(t, c) ==
  /\ vmNew[t] = 0 /\ vmFree[c] # << >>
  /\ vmNew' = [vmNew EXCEPT ![t] = Head(vmFree[c])]
  /\ vmFree' = [vmFree EXCEPT ![c] = Tail(@)]
  /\ UNCHANGED <<vmCut, vmTag, vmHeld, vmGone>>

VmAllocCut(t, c) ==
  /\ vmNew[t] = 0 /\ vmFree[c] = << >> /\ VmFits(vmCut, c)
  /\ vmCut' = Append(vmCut, c) /\ vmTag' = Append(vmTag, 0)
  /\ vmNew' = [vmNew EXCEPT ![t] = Len(vmCut')]
  /\ UNCHANGED <<vmFree, vmHeld, vmGone>>

VmAllocLarger(t, c) ==
  /\ vmNew[t] = 0 /\ vmFree[c] = << >> /\ ~VmFits(vmCut, c)
  /\ \E d \in VmLarger(c) :
        /\ \A e \in VmLarger(c) : d <= e
        /\ vmNew' = [vmNew EXCEPT ![t] = Head(vmFree[d])]
        /\ vmFree' = [vmFree EXCEPT ![d] = Tail(@)]
  /\ UNCHANGED <<vmCut, vmTag, vmHeld, vmGone>>

\* vos_memAlloc, after the mutex
VmAllocEnd(t) ==
  /\ vmNew[t] # 0
  /\ VmTagSize(t, vmNew[t])
  /\ vmHeld' = [vmHeld EXCEPT ![t] = @ \cup {vmNew[t]}]
  /\ vmNew' = [vmNew EXCEPT ![t] = 0]
  /\ UNCHANGED <<vmFree, vmCut, vmGone>>

\* vos_memFree: the list the size in the block names; size 0 is nobody's.
VmBack(b) ==
  IF vmTag[b] = 0 THEN UNCHANGED <<vmFree, vmTag>>
  ELSE /\ vmFree' = [vmFree EXCEPT ![vmTag[b]] = <<b>> \o @]
       /\ vmTag' = [vmTag EXCEPT ![b] = 0]

VmMemFree(t) ==
  /\ vmNew[t] = 0
  /\ \E b \in vmHeld[t] :
        /\ VmBack(b)
        /\ vmHeld' = [vmHeld EXCEPT ![t] = @ \ {b}]
        /\ vmGone' = [vmGone EXCEPT ![t] = b]
  /\ UNCHANGED <<vmCut, vmNew>>

\* A block given back twice, before it was given to anybody else.
VmFreeTwice(t) ==
  /\ vmGone[t] # 0 /\ \A u \in VmThreads : vmGone[t] \notin vmHeld[u]
  /\ VmBack(vmGone[t])
  /\ vmGone' = [vmGone EXCEPT ![t] = 0]
  /\ UNCHANGED <<vmCut, vmHeld, vmNew>>

VmInit ==
  /\ VmMemInit
  /\ vmHeld = [t \in VmThreads |-> {}]
  /\ vmNew = [t \in VmThreads |-> 0] /\ vmGone = vmNew

VmNext ==
  \E t \in VmThreads :
     \/ \E c \in VmClasses : VmAllocFree(t, c) \/ VmAllocCut(t, c) \/ VmAllocLarger(t, c)
     \/ VmAllocEnd(t) \/ VmMemFree(t) \/ VmFreeTwice(t)

VmSpec == VmInit /\ [][VmNext]_vmVars

\* vos_memInit, vos_memAlloc, vos_memFree: in a pool whose table fits (VmTableFits), whatever
\* the threads do, twice-freed blocks and blocks given for a smaller request included, every
\* block has one place: in the list of the class it was cut for, or with one thread.  None is
\* lost and none is given to two.
VmOnePlace ==
  /\ \A c \in VmClasses : IsInjective(vmFree[c])
  /\ \A b \in DOMAIN vmCut :
        LET lists == {c \in VmClasses : b \in Range(vmFree[c])}
            users == {t \in VmThreads : b \in vmHeld[t] \/ vmNew[t] = b}
        IN  /\ Cardinality(lists) + Cardinality(users) = 1
            /\ lists \subseteq {vmCut[b]}

----------------------------------------------------------------------------
(***************************************************************************)
(* The message queues, with the semaphores and mutexes under them: a ring  *)
(* of maxNoOfMsg entries between firstElem and lastElem, read first in     *)
(* first out or last in first out by any number of threads.                *)
(*                                                                         *)
(* The application creates and destroys a queue while no thread is inside  *)
(* a call.  Messages are numbered in the order they are sent, 0 is NULL.   *)
(***************************************************************************)
CONSTANTS VqMax,     \* maxNoOfMsg
          VqSenders, VqReceivers,
          VqMsgs     \* messages sent (bound)

ASSUME VqAssumption ==
  /\ VqMax \in Nat \ {0} /\ VqMsgs \in Nat
  /\ IsFiniteSet(VqSenders) /\ IsFiniteSet(VqReceivers)

VARIABLES vqPolicy,                \* queueType: "fifo" or "lifo"
          vqFirst, vqLast, vqRing, \* the queue; vqRing is empty without a queue
          vqSema,                  \* the value of its semaphore
          vqAt,                    \* where each thread is
          vqSent,                  \* messages sent so far
          vqGot                    \* the messages received, in the order they left the ring

vqVars == <<vqPolicy, vqFirst, vqLast, vqRing, vqSema, vqAt, vqSent, vqGot>>
VqThreads == VqSenders \cup VqReceivers
VqSlots == 0..(VqMax - 1)
VqThere == DOMAIN vqRing # {}

\* vos_queueCreate, with vos_semaCreate(VOS_SEMA_EMPTY) and vos_mutexCreate
VqCreate ==
  /\ ~VqThere /\ vqPolicy' \in {"fifo", "lifo"}
  /\ vqRing' = [i \in VqSlots |-> 0] /\ vqFirst' = 0 /\ vqLast' = 0 /\ vqSema' = 0
  /\ UNCHANGED <<vqAt, vqSent, vqGot>>

\* vos_queueDestroy
VqDestroy ==
  /\ VqThere /\ \A t \in VqThreads : vqAt[t] = "out"
  /\ vqRing' = << >> /\ vqSema' = 0
  /\ vqSent' = 0 /\ vqGot' = << >>
  /\ UNCHANGED <<vqPolicy, vqFirst, vqLast, vqAt>>

VqFull == vqLast + 1 = vqFirst \/ (vqLast = VqMax - 1 /\ vqFirst = 0)

VqForth(i) == (i + 1) % VqMax
VqBack(i) == (i + VqMax - 1) % VqMax

\* vos_queueSend, under the mutex: into the entry at firstElem when it is empty, after
\* lastElem (first in first out), or before firstElem.
VqSendPut(t) ==
  /\ VqThere /\ vqAt[t] = "out" /\ vqSent < VqMsgs /\ ~VqFull
  /\ vqSent' = vqSent + 1
  /\ LET empty == vqRing[vqFirst] = 0
         at == IF empty THEN vqFirst
               ELSE IF vqPolicy = "fifo" THEN VqForth(vqLast) ELSE VqBack(vqFirst)
     IN  /\ vqRing' = [vqRing EXCEPT ![at] = vqSent']
         /\ vqLast' = IF ~empty /\ vqPolicy = "fifo" THEN at ELSE vqLast
         /\ vqFirst' = IF ~empty /\ vqPolicy = "lifo" THEN at ELSE vqFirst
  /\ vqAt' = [vqAt EXCEPT ![t] = "give"]
  /\ UNCHANGED <<vqPolicy, vqSema, vqGot>>

\* VOS_QUEUE_FULL_ERR
VqSendFull(t) ==
  /\ VqThere /\ vqAt[t] = "out" /\ VqFull
  /\ UNCHANGED vqVars

\* vos_semaGive, after the mutex is released
VqGive(t) ==
  /\ vqAt[t] = "give" /\ vqAt' = [vqAt EXCEPT ![t] = "out"]
  /\ vqSema' = vqSema + 1
  /\ UNCHANGED <<vqPolicy, vqFirst, vqLast, vqRing, vqSent, vqGot>>

\* vos_queueReceive: vos_semaTake first.
VqTake(t) ==
  /\ VqThere /\ vqAt[t] = "out" /\ vqSema > 0
  /\ vqSema' = vqSema - 1 /\ vqAt' = [vqAt EXCEPT ![t] = "taken"]
  /\ UNCHANGED <<vqPolicy, vqFirst, vqLast, vqRing, vqSent, vqGot>>

\* Then, under the mutex, the entry at firstElem.
VqReceive(t) ==
  /\ vqAt[t] = "taken" /\ vqAt' = [vqAt EXCEPT ![t] = "out"]
  /\ vqGot' = Append(vqGot, vqRing[vqFirst])
  /\ vqRing' = [vqRing EXCEPT ![vqFirst] = 0]
  /\ vqFirst' = IF vqFirst # vqLast THEN VqForth(vqFirst) ELSE vqFirst
  /\ UNCHANGED <<vqPolicy, vqLast, vqSema, vqSent>>

VqInit ==
  /\ vqPolicy = "fifo" /\ vqFirst = 0 /\ vqLast = 0 /\ vqRing = << >> /\ vqSema = 0
  /\ vqAt = [t \in VqThreads |-> "out"] /\ vqSent = 0 /\ vqGot = << >>

VqNext ==
  \/ VqCreate \/ VqDestroy
  \/ \E t \in VqSenders : VqSendPut(t) \/ VqSendFull(t) \/ VqGive(t)
  \/ \E t \in VqReceivers : VqTake(t) \/ VqReceive(t)

VqSpec == VqInit /\ [][VqNext]_vqVars

\* No message is lost, received twice or received as NULL by a thread that the
\* semaphore let in; first in first out keeps their order.
VqDelivered ==
  /\ IsInjective(vqGot) /\ 0 \notin Range(vqGot)
  /\ vqPolicy = "fifo" => \A i \in DOMAIN vqGot : vqGot[i] = i
  /\ VqThere => Range(vqGot) \cup ({vqRing[i] : i \in VqSlots} \ {0}) = 1..vqSent

----------------------------------------------------------------------------
(***************************************************************************)
(* A cyclic thread, its delay with nanosleep and signals, and the          *)
(* arithmetic of times (seconds and microseconds) that every timer of the  *)
(* library is computed with.                                               *)
(*                                                                         *)
(* A second is VtBase units here, and UINT32 has 2^w = VtWord values.      *)
(***************************************************************************)
CONSTANTS VtBase,     \* units of a second, 1000000 in the code
          VtWord,     \* the values of UINT32
          VtInterval, \* the interval of the cyclic thread, in units
          VtExec,     \* the most units its function takes (bound)
          VtSecs,     \* the largest time computed with (bound)
          VtFactor    \* the largest factor and divisor (bound)

ASSUME VtAssumption ==
  /\ VtBase \in Nat \ {0} /\ VtInterval \in Nat \ {0} /\ VtExec \in Nat
  /\ VtFactor \in Nat \ {0} /\ VtWord \in Nat /\ VtFactor * VtBase <= VtWord

VARIABLES vtAt,     \* "run", "sleep"
          vtWanted, \* wanted_delay
          vtErrno,  \* errno of the thread is EINTR
          vtSlept,  \* units slept since vos_threadDelay was called (history)
          vtDelay,  \* its argument (history)
          vtTime,   \* a time computed with
          vtExact   \* the same as one number (history)

vtThread == <<vtAt, vtWanted, vtErrno, vtSlept, vtDelay>>
vtVars == <<vtThread, vtTime, vtExact>>

\* The time a round of vos_cyclicThread has left, none when its function took longer.
VtWaiting(exec) == IF exec > VtInterval THEN 0 ELSE VtInterval - exec

\* vos_cyclicThread: the function ran for exec units, and left errno as it did;
\* vos_threadDelay(0) only yields.
VtRound ==
  /\ vtAt = "run"
  /\ \E exec \in 0..VtExec, eintr \in BOOLEAN :
        /\ vtDelay' = VtWaiting(exec) /\ vtWanted' = vtDelay'
        /\ vtErrno' = eintr
        /\ vtAt' = IF vtDelay' = 0 THEN "run" ELSE "sleep"
  /\ vtSlept' = 0 /\ UNCHANGED <<vtTime, vtExact>>

\* nanosleep returns 0, which leaves errno alone; the loop ends unless errno is EINTR.
VtSleepEnds ==
  /\ vtAt = "sleep"
  /\ vtSlept' = IF vtSlept > VtInterval THEN vtSlept ELSE vtSlept + vtWanted
  /\ vtAt' = IF vtErrno THEN "sleep" ELSE "run"
  /\ UNCHANGED <<vtWanted, vtErrno, vtDelay, vtTime, vtExact>>

\* wanted_delay after a signal: what nanosleep says was left
VtRemaining(left) == left

\* nanosleep is interrupted by a signal.
VtSignal ==
  /\ vtAt = "sleep" /\ vtWanted > 0
  /\ \E left \in 1..vtWanted :
        /\ vtSlept' = IF vtSlept > VtInterval THEN vtSlept ELSE vtSlept + vtWanted - left
        /\ vtWanted' = VtRemaining(left)
  /\ vtErrno' = TRUE
  /\ UNCHANGED <<vtAt, vtDelay, vtTime, vtExact>>

\* Something the thread is interrupted by clears errno (a signal handler that fails
\* with another error).
VtOtherErrno ==
  /\ vtAt = "sleep" /\ vtErrno /\ vtErrno' = FALSE
  /\ UNCHANGED <<vtAt, vtWanted, vtSlept, vtDelay, vtTime, vtExact>>

\* timeradd, timersub, timercmp (the C library's, external)
VtPlus(a, b) == LET u == a[2] + b[2]
                IN  IF u >= VtBase THEN <<a[1] + b[1] + 1, u - VtBase>> ELSE <<a[1] + b[1], u>>
VtMinus(a, b) == LET u == a[2] - b[2]
                 IN  IF u < 0 THEN <<a[1] - b[1] - 1, u + VtBase>> ELSE <<a[1] - b[1], u>>

\* vos_divTime
VtDiv(a, d) == LET temp == a[1] % d
               IN  <<a[1] \div d, (a[2] + ((temp * VtBase) % VtWord)) \div d>>

\* vos_mulTime
VtMul(a, m) == LET u == a[2] * m IN <<a[1] * m + (u \div VtBase), u % VtBase>>

\* vos_semaTake's deadline after a time-out of t units
VtDeadline(now, t) ==
  LET u == now[2] + (t % VtBase)
  IN  IF u >= VtBase THEN <<now[1] + (t \div VtBase) + 1, u - VtBase>>
                     ELSE <<now[1] + (t \div VtBase), u>>

VtValue(a) == a[1] * VtBase + a[2]
VtTimes == (0..VtSecs) \X (0..(VtBase - 1))

\* Some time is added to, taken from, scaled.
VtAddTime == \E b \in VtTimes : vtTime' = VtPlus(vtTime, b) /\ vtExact' = vtExact + VtValue(b)
VtSubTime == \E b \in VtTimes :
                /\ VtValue(b) <= vtExact
                /\ vtTime' = VtMinus(vtTime, b) /\ vtExact' = vtExact - VtValue(b)
VtDivTime == \E d \in 1..VtFactor : vtTime' = VtDiv(vtTime, d) /\ vtExact' = vtExact \div d
VtMulTime == \E m \in 0..VtFactor : vtTime' = VtMul(vtTime, m) /\ vtExact' = vtExact * m
VtSemaTake == \E t \in 0..(2 * VtBase) :
                vtTime' = VtDeadline(vtTime, t) /\ vtExact' = vtExact + t

VtCompute ==
  /\ VtAddTime \/ VtSubTime \/ VtDivTime \/ VtMulTime \/ VtSemaTake
  /\ vtExact' <= VtSecs * VtBase
  /\ UNCHANGED vtThread

VtInit ==
  /\ vtAt = "run" /\ vtWanted = 0 /\ vtErrno = FALSE /\ vtSlept = 0 /\ vtDelay = 0
  /\ vtTime = <<0, 0>> /\ vtExact = 0

VtNext == VtRound \/ VtSleepEnds \/ VtSignal \/ VtOtherErrno \/ VtCompute

VtSpec == VtInit /\ [][VtNext]_vtVars

\* A cyclic thread never starts a round before the interval is over, however often
\* signals interrupt its sleep.
VtNotEarly == vtAt = "run" /\ vtDelay > 0 => vtSlept >= vtDelay

\* A time stays exact and normalised through every computation.
VtTimeExact == VtValue(vtTime) = vtExact /\ vtTime[2] \in 0..(VtBase - 1)

----------------------------------------------------------------------------
\* The operating system abstraction: blocks, messages and times are neither lost nor doubled, and no
\* cyclic thread runs early (vos_mem.c, vos_thread.c), whatever threads and signals interleave.
VosSound == VmOnePlace /\ VqDelivered /\ VtNotEarly /\ VtTimeExact
=============================================================================
