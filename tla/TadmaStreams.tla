---------------------------- MODULE TadmaStreams ----------------------------
(***************************************************************************)
(* The stream table of the TADMA driver (xilinx_tsn_tadma.c): the ioctls   *)
(* axienet_tadma_add_stream, _program, _flush_stream and _off, the lookup  *)
(* tadma_get_strid the sender makes for every frame, and the stream fetch  *)
(* memory (SFM) they program.  A stream is a 64-bit tag: destination IP    *)
(* and ComId.  A ComId is split into its two 16-bit halves, because        *)
(* hash_tag_equal compares the halves one by one.                          *)
(*                                                                         *)
(* Then the programs that configure it, on top of the stream table:        *)
(*   sendHello   (app/trdp/src/sendHello.c), the TRDP sender,              *)
(*   transHello  (app/trdp/src/transHello.c, tadma_conf.h), the built one, *)
(*   tadma_prog  (app/misc-utils/tadma_prog.c), which reads a file.        *)
(* Each flushes the table, adds its streams one ioctl at a time and then   *)
(* programs them.  A program may be run again after it ended.              *)
(***************************************************************************)
EXTENDS Integers, Sequences, FiniteSets

CONSTANTS
  NumStreams, \* lp->num_streams: rings, and buckets tadma_hashtag_hash reaches
  NumEntries, \* lp->num_entries: entries of the SFM
  Tags,       \* the tags in use, records [ip, lo, hi]
  Triggers,   \* trigger times in use (ns)
  Counts,     \* frame counts in use
  BucketOf,   \* tadma_hashtag_hash
  SidBound,   \* bound: get_sid is not driven beyond this value
  TabBound    \* bound: entries in the table (adds with start and no flush pile up)

MAX_TRIG_COUNT == 4
STRID_BE == 0
NSEC_PER_MSEC == 1000000

Buckets == 0 .. NumStreams - 1
NoEntry == [valid |-> FALSE, ticks |-> 0, strId |-> 0, cont |-> FALSE, frames |-> 0]

\* stream_hash has num_entries buckets and the hash is below num_streams: the
\* device tree must not give more streams than entries.
ASSUME SizesAssumption ==
  /\ NumStreams \in Nat \ {0} /\ NumEntries \in Nat /\ NumStreams <= NumEntries
ASSUME TagsAssumption ==
  /\ BucketOf \in [Tags -> Buckets]
  /\ Triggers \subseteq Nat /\ Counts \subseteq Nat
  /\ SidBound \in Nat /\ TabBound \in Nat

VARIABLES
  tab,    \* cb->stream_hash: per bucket the list of entries, newest first
  getSid, \* get_sid
  getSfm, \* get_sfm
  sfm,    \* hardware: stream fetch memory
  cr,     \* hardware: control register: "off", "cfg" or "sched"
  ret     \* the last ioctl's result

vars == <<tab, getSid, getSfm, sfm, cr, ret>>

Entry == [tag : Tags, tticks : Nat, count : Nat, sid : Nat, sfm : Nat]
Request == [tag : Tags, trigger : Nat, count : Nat, start : BOOLEAN]

----------------------------------------------------------------------------
\* hash_tag_equal: the last comparison is (a[3] ^ a[3]), so hi never counts.
hash_tag_equal(a, b) == a.ip = b.ip /\ a.lo = b.lo

\* tadma_hash_lookup_stream: the position of the first match, 0 if none.
Lookup(tag) ==
  LET b == tab[BucketOf[tag]]
      hits == {i \in DOMAIN b : hash_tag_equal(b[i].tag, tag)}
  IN  IF hits = {} THEN 0 ELSE CHOOSE i \in hits : \A j \in hits : i <= j

\* tadma_get_strid: the ring of a frame with this tag, -1 to drop it.  With no
\* stream configured every frame goes to the best-effort ring.
GetStrid(tag) ==
  IF getSid = 0 THEN STRID_BE
  ELSE IF Lookup(tag) = 0 THEN -1 ELSE tab[BucketOf[tag]][Lookup(tag)].sid

\* tadma_sfm_program: what it writes at SFM index idx.  A tick is 8 ns; the
\* hardware sends one frame more than programmed; a count of 0 is continuous
\* fetch.  The stream id written is the index itself.
SfmValue(idx, tticks, count) ==
  [valid |-> TRUE, ticks |-> tticks \div 8, strId |-> idx, cont |-> count = 0,
   frames |-> IF count > 0 THEN count - 1 ELSE count]

----------------------------------------------------------------------------
\* axienet_tadma_open: empty table, best effort fetched continuously.
Init ==
  /\ tab = [b \in Buckets |-> <<>>]
  /\ getSid = 0 /\ getSfm = 0
  /\ sfm = [i \in 0 .. NumEntries - 1 |->
              IF i = STRID_BE THEN SfmValue(i, NSEC_PER_MSEC, 0) ELSE NoEntry]
  /\ cr = "cfg"
  /\ ret = "ok"

----------------------------------------------------------------------------
(* axienet_tadma_add_stream(r).                                             *)

\* Mutant: start does not reset get_sfm.
SfmNotReset(r) == getSfm

\* The counters as they are once stream.start was looked at.
SidAfterStart(r) == IF r.start THEN 0 ELSE getSid
SfmAfterStart(r) == IF r.start THEN 0 ELSE getSfm

\* The ring: that of an entry with the same tag, else a new one.
NewSid(r) ==
  LET i == Lookup(r.tag)
  IN  IF i # 0 THEN tab[BucketOf[r.tag]][i].sid ELSE SidAfterStart(r)

\* get_sid after the ring was taken; it is not given back when the call fails.
SidTaken(r) == SidAfterStart(r) + (IF Lookup(r.tag) = 0 THEN 1 ELSE 0)

SameEntry(r) ==
  LET i == Lookup(r.tag)
      e == tab[BucketOf[r.tag]][i]
  IN  i # 0 /\ e.count = r.count /\ e.tticks = r.trigger

Table == <<tab, sfm, cr>>

\* Refused before anything happens.
AddBadCount(r) ==
  /\ r.count > MAX_TRIG_COUNT
  /\ ret' = "EINVAL"
  /\ UNCHANGED <<Table, getSid, getSfm>>

AddSame(r) ==
  /\ r.count <= MAX_TRIG_COUNT /\ SameEntry(r)
  /\ ret' = "EEXIST"
  /\ getSid' = SidAfterStart(r) /\ getSfm' = SfmAfterStart(r)
  /\ UNCHANGED Table

\* Mutant: one ring too many.
NoRoomOffByOne(r) == NewSid(r) > NumStreams \/ SfmAfterStart(r) >= NumEntries

\* No ring or no SFM entry left.
NoRoom(r) == NewSid(r) >= NumStreams \/ SfmAfterStart(r) >= NumEntries

AddNoRoom(r) ==
  /\ r.count <= MAX_TRIG_COUNT /\ ~SameEntry(r) /\ NoRoom(r)
  /\ ret' = "EINVAL"
  /\ getSid' = SidTaken(r) /\ getSfm' = SfmAfterStart(r)
  /\ UNCHANGED Table

\* kzalloc fails.
AddNoMem(r) ==
  /\ r.count <= MAX_TRIG_COUNT /\ ~SameEntry(r) /\ ~NoRoom(r)
  /\ ret' = "ENOMEM"
  /\ getSid' = SidTaken(r) /\ getSfm' = SfmAfterStart(r)
  /\ UNCHANGED Table

\* Mutant: a known tag gets a ring of its own for its new entry.
AddOkFreshSid(r) ==
  /\ r.count <= MAX_TRIG_COUNT /\ ~SameEntry(r) /\ ~NoRoom(r)
  /\ tab' = [tab EXCEPT ![BucketOf[r.tag]] =
               <<[tag |-> r.tag, tticks |-> r.trigger, count |-> r.count,
                  sid |-> SidAfterStart(r) % NumStreams, sfm |-> SfmAfterStart(r)]>> \o @]
  /\ ret' = "ok"
  /\ getSid' = SidAfterStart(r) + 1 /\ getSfm' = SfmAfterStart(r) + 1
  /\ UNCHANGED <<sfm, cr>>

AddOk(r) ==
  /\ r.count <= MAX_TRIG_COUNT /\ ~SameEntry(r) /\ ~NoRoom(r)
  /\ tab' = [tab EXCEPT ![BucketOf[r.tag]] =
               <<[tag |-> r.tag, tticks |-> r.trigger, count |-> r.count,
                  sid |-> NewSid(r), sfm |-> SfmAfterStart(r)]>> \o @]
  /\ ret' = "ok"
  /\ getSid' = SidTaken(r) /\ getSfm' = SfmAfterStart(r) + 1
  /\ UNCHANGED <<sfm, cr>>

AddStream(r) ==
  AddBadCount(r) \/ AddSame(r) \/ AddNoRoom(r) \/ AddNoMem(r) \/ AddOk(r)

----------------------------------------------------------------------------
\* The places of the table, in the order axienet_tadma_program visits them.
Places == UNION {{<<b, i>> : i \in DOMAIN tab[b]} : b \in Buckets}
At(p) == tab[p[1]][p[2]]
Before(p, q) == p[1] < q[1] \/ (p[1] = q[1] /\ p[2] < q[2])

\* axienet_tadma_program: write every entry at its SFM index (the last entry
\* written to an index stays), then enable the schedule.
Program ==
  /\ sfm' = [i \in DOMAIN sfm |->
       LET here == {p \in Places : At(p).sfm = i}
           last == CHOOSE p \in here : \A q \in here : q = p \/ Before(q, p)
       IN  IF here = {} THEN sfm[i] ELSE SfmValue(i, At(last).tticks, At(last).count)]
  /\ cr' = "sched" /\ ret' = "ok"
  /\ UNCHANGED <<tab, getSid, getSfm>>

\* axienet_tadma_off: best effort continuous again, no stream looked up.
Off ==
  /\ sfm' = [sfm EXCEPT ![STRID_BE] = SfmValue(STRID_BE, NSEC_PER_MSEC, 0)]
  /\ cr' = "cfg" /\ ret' = "ok"
  /\ getSid' = 0
  /\ UNCHANGED <<tab, getSfm>>

\* axienet_tadma_flush_stream: hardware off, SFM and table cleared; get_sid
\* and get_sfm keep their values.
FlushStream ==
  /\ cr' = "off" /\ ret' = "ok"
  /\ sfm' = [i \in DOMAIN sfm |-> NoEntry]
  /\ tab' = [b \in Buckets |-> <<>>]
  /\ UNCHANGED <<getSid, getSfm>>

----------------------------------------------------------------------------
\* Any sequence of ioctls; only the growth of get_sid and of the table is
\* bounded.
Next ==
  \/ \E r \in [tag : Tags, trigger : Triggers, count : Counts, start : BOOLEAN] :
       getSid < SidBound /\ Cardinality(Places) < TabBound /\ AddStream(r)
  \/ Program \/ Off \/ FlushStream

Spec == Init /\ [][Next]_vars

----------------------------------------------------------------------------
(* Properties that hold for every sequence of ioctls.                       *)

\* Type invariant.
TypeOK ==
  /\ tab \in [Buckets -> Seq(Entry)]
  /\ getSid \in Nat /\ getSfm \in Nat
  /\ sfm \in [0 .. NumEntries - 1 ->
                [valid : BOOLEAN, ticks : Nat, strId : Nat, cont : BOOLEAN, frames : Nat]]
  /\ cr \in {"off", "cfg", "sched"}
  /\ ret \in {"ok", "EINVAL", "EEXIST", "ENOMEM"}

\* Every entry's ring and SFM index exist: the sender indexes tx_bd with sid
\* and axienet_tadma_program writes at sfm, both unchecked.
IndicesInRange ==
  \A b \in Buckets : \A i \in DOMAIN tab[b] :
    tab[b][i].sid < NumStreams /\ tab[b][i].sfm < NumEntries

\* Entries whose tags hash_tag_equal cannot tell apart share their ring, even
\* when start resets the counters in between, so the answer of tadma_get_strid
\* does not depend on which of several entries the lookup meets first.
SameTagSameRing ==
  \A b \in Buckets : \A i, j \in DOMAIN tab[b] :
    hash_tag_equal(tab[b][i].tag, tab[b][j].tag) => tab[b][i].sid = tab[b][j].sid

\* A new configuration never inherits a trigger: after a flush the SFM holds
\* only entries of the present table or the best-effort entry of Off.
NoStaleTrigger ==
  \A i \in DOMAIN sfm :
    /\ sfm[i].valid
    /\ sfm[i] # SfmValue(STRID_BE, NSEC_PER_MSEC, 0)
    => \E p \in Places : At(p).sfm = i

----------------------------------------------------------------------------
(* The programs. *)

CONSTANTS
  Clients, \* the programs in use, a subset of those above, and perhaps "any"
  Configs, \* per client the configurations: sequences of [tag, trigger, count]
  Pads     \* the values two bytes of struct padding may have

ASSUME ClientAssumption ==
  /\ Clients \subseteq {"any", "sendHello", "transHello", "tadma_prog"}
  /\ Pads \subseteq Nat

VARIABLES
  client, \* the program running, or "any": somebody else, any ioctl at any time
  conf,   \* the configuration being applied
  order,  \* the positions of conf still to be added, in order
  errs,   \* the errors the adds of this configuration met
  pc      \* "idle", "adding", "done", "failed", "off", "offDone"

clientVars == <<client, conf, order, errs, pc>>
cvars == <<tab, getSid, getSfm, sfm, cr, ret, client, conf, order, errs, pc>>

CInit ==
  /\ Init
  /\ client \in Clients
  /\ conf = <<>> /\ order = <<>> /\ errs = {} /\ pc = "idle"

----------------------------------------------------------------------------
\* Mutant: no request asks for a restart of the counters.
StartNever(i) == FALSE

\* start is set for the first stream of the list as it was given; tadma_prog
\* tests the position as an unsigned char.
StartOf(i) == IF client = "tadma_prog" THEN (i - 1) % 256 = 0 ELSE i = 1

\* What add_stream receives for position i.  transHello's tadma_stream has an
\* 8-bit count followed by start and two bytes of padding where the driver
\* reads a 32-bit count, and the driver reads start behind its end.
Received(i, pad, behind) ==
  LET c == conf[i]
      s == StartOf(i)
  IN  IF client = "transHello"
      THEN [tag |-> c.tag, trigger |-> c.trigger,
            count |-> c.count + 256 * (IF s THEN 1 ELSE 0) + 65536 * pad,
            start |-> behind]
      ELSE [tag |-> c.tag, trigger |-> c.trigger, count |-> c.count, start |-> s]

\* tadma_prog sorts the list by trigger (qsort: any order among equals); the
\* others keep theirs.
Orders(who, c) ==
  {o \in [1 .. Len(c) -> 1 .. Len(c)] :
     /\ \A k \in 1 .. Len(c) : \E i \in 1 .. Len(c) : o[i] = k
     /\ IF who = "tadma_prog"
        THEN \A i, j \in 1 .. Len(c) : i < j => c[o[i]].trigger <= c[o[j]].trigger
        ELSE \A i \in 1 .. Len(c) : o[i] = i}

NothingRuns == client # "any" /\ pc \in {"idle", "done", "failed", "offDone"}

\* A program starts: it flushes and then begins to add.  tadma_prog gives up
\* before the flush when a count is larger than 4.
Begin(who, c) ==
  /\ NothingRuns
  /\ who = "tadma_prog" => \A i \in 1 .. Len(c) : c[i].count <= 4
  /\ FlushStream
  /\ client' = who
  /\ conf' = c
  /\ order' \in Orders(who, c)
  /\ errs' = {}
  /\ pc' = "adding"

\* One stream.  sendHello and transHello stop at the first error; tadma_prog
\* reports it and goes on.
Add ==
  /\ pc = "adding" /\ order # <<>>
  /\ \E pad \in Pads, behind \in (IF client = "transHello" THEN BOOLEAN ELSE {FALSE}) :
       AddStream(Received(Head(order), pad, behind))
  /\ order' = Tail(order)
  /\ errs' = errs \cup ({ret'} \ {"ok"})
  /\ pc' = IF ret' = "ok" \/ client = "tadma_prog" THEN "adding" ELSE "failed"
  /\ UNCHANGED <<client, conf>>

\* Programming, then the end of the program.
ProgramAll ==
  /\ pc = "adding" /\ order = <<>>
  /\ Program
  /\ pc' = "done"
  /\ UNCHANGED <<client, conf, order, errs>>

\* tadma_prog <interface> off: flush, then off.
BeginOff ==
  /\ NothingRuns /\ "tadma_prog" \in Clients
  /\ FlushStream
  /\ client' = "tadma_prog"
  /\ conf' = <<>> /\ order' = <<>> /\ errs' = {} /\ pc' = "off"

ChangeToContinuous ==
  /\ pc = "off"
  /\ Off
  /\ pc' = "offDone"
  /\ UNCHANGED <<client, conf, order, errs>>

\* Any sequence of ioctls.
AnyIoctl == client = "any" /\ Next /\ UNCHANGED clientVars

CNext ==
  \/ \E who \in Clients \ {"any"} : \E c \in Configs[who] : Begin(who, c)
  \/ Add \/ ProgramAll \/ BeginOff \/ ChangeToContinuous
  \/ AnyIoctl

CSpec == CInit /\ [][CNext]_cvars

----------------------------------------------------------------------------
(* Properties.                                                              *)

\* The configuration in force was accepted; a repeated line is no error.
Applied == pc = "done" /\ errs \subseteq {"EEXIST"}

\* Lists the programs put into force as they are: hash_tag_equal tells the
\* streams apart, and sorting a file changes nothing, so that the stream
\* that asks for start, which main chose before it sorted, is added first and
\* alone.  The driver accepts other lists too.
ToldApart(c) ==
  \A i, j \in 1 .. Len(c) : i # j => ~hash_tag_equal(c[i].tag, c[j].tag)
InOrder(who, c) ==
  /\ ToldApart(c)
  /\ \A o \in Orders(who, c) : \A i \in 1 .. Len(c) : o[i] = i
  /\ who = "tadma_prog" => Len(c) <= 256
AppliedInOrder == Applied /\ InOrder(client, conf)

\* Whatever list was accepted, sorted or not, with ComIds that the driver can
\* tell apart or not: no frame of a configured stream is dropped, and the ring
\* it goes to exists.
EveryStreamHasARing ==
  Applied => \A i \in 1 .. Len(conf) : GetStrid(conf[i].tag) \in Buckets

\* Whatever list was programmed, errors or not: every valid fetch entry is the
\* trigger of a configured stream.
NothingElseTriggered ==
  pc = "done" =>
    \A e \in DOMAIN sfm : sfm[e].valid =>
      \E i \in 1 .. Len(conf) : sfm[e].ticks = conf[i].trigger \div 8

\* Every class of traffic has a ring of its own: two streams of a list in
\* order are classified into different rings.
OneRingPerStream ==
  AppliedInOrder =>
    \A i, j \in 1 .. Len(conf) : i # j => GetStrid(conf[i].tag) # GetStrid(conf[j].tag)

\* A frame of a list in order goes into a ring the schedule serves at the
\* configured time with the configured count: the ring tadma_get_strid finds
\* is the stream id of a fetch entry with that trigger.
TriggeredAsConfigured ==
  AppliedInOrder =>
    \A i \in 1 .. Len(conf) :
      \E e \in DOMAIN sfm :
        /\ sfm[e].valid
        /\ sfm[e].strId = GetStrid(conf[i].tag)
        /\ sfm[e].ticks = conf[i].trigger \div 8
        /\ sfm[e].cont = (conf[i].count = 0)
        /\ conf[i].count > 0 => sfm[e].frames + 1 = conf[i].count

\* A configuration of distinct streams that fits into the rings is accepted:
\* a program that stops at the first error stops for want of memory only.
FittingConfigAccepted ==
  pc = "failed" /\ Len(conf) <= NumStreams => ret = "ENOMEM"

\* "Programs TADMA back to continuous mode": after off every frame goes to the
\* best-effort ring and that ring is fetched continuously.
OffServesEverything ==
  pc = "offDone" =>
    \A t \in Tags : /\ GetStrid(t) = STRID_BE
                    /\ sfm[STRID_BE].valid /\ sfm[STRID_BE].cont

\* What a configuration leaves behind (tadma_add_stream, tadma_program, tadma_flush_stream): whatever the
\* list, every stream has a ring and no trigger is that of an earlier configuration; when the list is in
\* order, every stream has a ring of its own which the schedule serves as configured; and off leads every
\* frame to the best-effort ring.
ConfigInForce ==
  /\ EveryStreamHasARing /\ NothingElseTriggered /\ NoStaleTrigger
  /\ OneRingPerStream /\ TriggeredAsConfigured
  /\ OffServesEverything

=============================================================================
