-------------------------- MODULE TadmaStreamsProof --------------------------
(***************************************************************************)
(* Proofs about the stream table, for every table size, every hash         *)
(* function and every sequence of ioctls, and about the programs that      *)
(* configure it, for all lists of streams.                                 *)
(***************************************************************************)
EXTENDS TadmaStreams, WellFoundedInduction, TLAPS

\* What the proofs need of the table's type.
TabOK == tab \in [Buckets -> Seq(Entry)]
CountersOK == getSid \in Nat /\ getSfm \in Nat

IndInv == TabOK /\ CountersOK /\ IndicesInRange /\ SameTagSameRing

\* A lookup answers 0, or the place of an entry with an equal tag; 0 only
\* when there is none.
LEMMA LookupFacts ==
  ASSUME TabOK, NEW t \in Tags
  PROVE  LET b == tab[BucketOf[t]]
             i == Lookup(t)
         IN  /\ i # 0 => i \in DOMAIN b /\ hash_tag_equal(b[i].tag, t)
             /\ i = 0 => \A j \in DOMAIN b : ~hash_tag_equal(b[j].tag, t)
<1> DEFINE b == tab[BucketOf[t]]
           hits == {i \in DOMAIN b : hash_tag_equal(b[i].tag, t)}
<1>0. b \in Seq(Entry) /\ DOMAIN b = 1 .. Len(b) /\ Len(b) \in Nat
  BY TagsAssumption DEF TabOK
<1>1. CASE hits = {}
  BY <1>1 DEF Lookup
<1>2. CASE hits # {}
  <2>1. \E i \in hits : \A j \in hits : i <= j
    <3>1. hits \subseteq Nat
      BY <1>0
    <3>2. \E i \in hits : \A j \in hits : ~(<<j, i>> \in OpToRel(<, Nat))
      BY <1>2, <3>1, WFMin, NatLessThanWellFounded
    <3>3. \A j, i \in Nat : j < i => <<j, i>> \in OpToRel(<, Nat)
      BY Zenon DEF OpToRel
    <3>4. PICK less : /\ \A j, i \in Nat : j < i => <<j, i>> \in less
                      /\ \E i \in hits : \A j \in hits : ~(<<j, i>> \in less)
      BY <3>2, <3>3, Zenon
    <3>5. PICK m \in hits : \A j \in hits : ~(<<j, m>> \in less)
      BY <3>4
    <3>6. \A j \in hits : ~(j < m)
      BY <3>1, <3>4, <3>5, Zenon
    <3>7. \A j \in hits : m <= j
      <4> HIDE DEF hits
      <4>1. QED
        BY <3>1, <3>6
    <3>8. QED
      BY <3>7
  <2>2. Lookup(t) \in hits
    BY <1>2, <2>1 DEF Lookup
  <2>3. QED
    BY <1>0, <2>2
<1>3. QED
  BY <1>1, <1>2

\* The ring given to a request exists when the request is accepted, and is the
\* ring of every entry the lookup cannot tell from it.
LEMMA NewSidFacts ==
  ASSUME IndInv, NEW r \in Request
  PROVE  /\ NewSid(r) \in Nat
         /\ SidAfterStart(r) \in Nat /\ SfmAfterStart(r) \in Nat /\ SidTaken(r) \in Nat
         /\ \A j \in DOMAIN tab[BucketOf[r.tag]] :
              hash_tag_equal(tab[BucketOf[r.tag]][j].tag, r.tag)
                => tab[BucketOf[r.tag]][j].sid = NewSid(r)
<1> DEFINE t == r.tag
           b == tab[BucketOf[t]]
<1>0. t \in Tags /\ BucketOf[t] \in Buckets /\ b \in Seq(Entry) /\ TabOK
  BY TagsAssumption DEF IndInv, TabOK, Request
<1>1. SidAfterStart(r) \in Nat /\ SfmAfterStart(r) \in Nat /\ SidTaken(r) \in Nat
  BY DEF IndInv, CountersOK, SidAfterStart, SfmAfterStart, SidTaken
<1>2. CASE Lookup(t) = 0
  <2>1. NewSid(r) = SidAfterStart(r)
    BY <1>2 DEF NewSid
  <2>2. QED
    BY <1>0, <1>1, <1>2, <2>1, LookupFacts
<1>3. CASE Lookup(t) # 0
  <2>1. NewSid(r) = b[Lookup(t)].sid
    BY <1>3 DEF NewSid
  <2>2. Lookup(t) \in DOMAIN b /\ hash_tag_equal(b[Lookup(t)].tag, t)
    BY <1>0, <1>3, LookupFacts
  <2>3. b[Lookup(t)].sid \in Nat
    <3>1. b[Lookup(t)] \in Entry
      BY <1>0, <2>2
    <3>2. QED
      BY <3>1 DEF Entry
  <2>4. ASSUME NEW j \in DOMAIN b, hash_tag_equal(b[j].tag, t)
        PROVE  b[j].sid = NewSid(r)
    <3>1. hash_tag_equal(b[j].tag, b[Lookup(t)].tag)
      BY <2>2, <2>4 DEF hash_tag_equal
    <3>2. QED
      BY <1>0, <2>1, <2>2, <3>1 DEF IndInv, SameTagSameRing
  <2>5. QED
    BY <1>1, <2>1, <2>3, <2>4
<1>4. QED
  BY <1>2, <1>3

\* Prepending an entry moves the others by one place.
LEMMA PrependFacts ==
  ASSUME NEW e \in Entry, NEW s \in Seq(Entry)
  PROVE  /\ <<e>> \o s \in Seq(Entry)
         /\ \A i \in DOMAIN (<<e>> \o s) :
              \/ i = 1 /\ (<<e>> \o s)[i] = e
              \/ i - 1 \in DOMAIN s /\ (<<e>> \o s)[i] = s[i - 1]
<1>1. <<e>> \in Seq(Entry) /\ Len(<<e>>) = 1 /\ Len(s) \in Nat /\ DOMAIN s = 1 .. Len(s)
  OBVIOUS
<1>2. <<e>> \o s \in Seq(Entry) /\ Len(<<e>> \o s) = 1 + Len(s)
  BY <1>1
<1>3. ASSUME NEW i \in DOMAIN (<<e>> \o s)
      PROVE  \/ i = 1 /\ (<<e>> \o s)[i] = e
             \/ i - 1 \in DOMAIN s /\ (<<e>> \o s)[i] = s[i - 1]
  <2>1. i \in 1 .. 1 + Len(s)
    BY <1>2
  <2>2. CASE i = 1
    BY <1>1, <2>2
  <2>3. CASE i > 1
    BY <1>1, <2>1, <2>3
  <2>4. QED
    BY <1>1, <2>1, <2>2, <2>3
<1>4. QED
  BY <1>2, <1>3

\* An accepted request keeps the table's invariant.
LEMMA AddOkKeepsTable ==
  ASSUME IndInv, NEW r \in Request, AddOk(r)
  PROVE  IndInv'
<1> DEFINE k == BucketOf[r.tag]
           e == [tag |-> r.tag, tticks |-> r.trigger, count |-> r.count,
                 sid |-> NewSid(r), sfm |-> SfmAfterStart(r)]
<1>0. k \in Buckets /\ tab[k] \in Seq(Entry) /\ TabOK
  BY TagsAssumption DEF IndInv, TabOK, Request
<1>1. /\ NewSid(r) \in Nat /\ SidTaken(r) \in Nat /\ SfmAfterStart(r) \in Nat
      /\ \A j \in DOMAIN tab[k] :
           hash_tag_equal(tab[k][j].tag, r.tag) => tab[k][j].sid = NewSid(r)
  BY NewSidFacts
<1>2. e \in Entry
  BY <1>1 DEF Request, Entry
<1>3. NewSid(r) < NumStreams /\ SfmAfterStart(r) < NumEntries
  BY <1>1, SizesAssumption DEF AddOk, NoRoom
<1>4. tab' = [tab EXCEPT ![k] = <<e>> \o tab[k]]
  BY DEF AddOk
<1>5. /\ tab'[k] = <<e>> \o tab[k]
      /\ \A b \in Buckets : b # k => tab'[b] = tab[b]
  BY <1>0, <1>4 DEF TabOK
<1>6. /\ tab'[k] \in Seq(Entry)
      /\ \A i \in DOMAIN tab'[k] : \/ tab'[k][i] = e
                                   \/ i - 1 \in DOMAIN tab[k] /\ tab'[k][i] = tab[k][i - 1]
  BY <1>0, <1>2, <1>5, PrependFacts
<1>7. TabOK'
  BY <1>0, <1>4, <1>5, <1>6 DEF TabOK
<1>8. CountersOK'
  BY <1>1 DEF AddOk, CountersOK
<1>9. IndicesInRange'
  <2> SUFFICES ASSUME NEW b \in Buckets, NEW i \in DOMAIN tab'[b]
               PROVE  tab'[b][i].sid < NumStreams /\ tab'[b][i].sfm < NumEntries
    BY DEF IndicesInRange
  <2>1. CASE b = k
    BY <1>0, <1>3, <1>6, <2>1 DEF IndInv, IndicesInRange
  <2>2. CASE b # k
    BY <1>5, <2>2 DEF IndInv, IndicesInRange
  <2>3. QED
    BY <2>1, <2>2
<1>10. SameTagSameRing'
  <2> SUFFICES ASSUME NEW b \in Buckets, NEW i \in DOMAIN tab'[b], NEW j \in DOMAIN tab'[b],
                      hash_tag_equal(tab'[b][i].tag, tab'[b][j].tag)
               PROVE  tab'[b][i].sid = tab'[b][j].sid
    BY DEF SameTagSameRing, hash_tag_equal
  <2>1. CASE b # k
    <3>1. tab'[b] = tab[b]
      BY <1>5, <2>1
    <3>2. i \in DOMAIN tab[b] /\ j \in DOMAIN tab[b]
          /\ hash_tag_equal(tab[b][i].tag, tab[b][j].tag)
      BY <3>1 DEF hash_tag_equal
    <3>3. QED
      BY <3>1, <3>2 DEF IndInv, SameTagSameRing
  <2>2. CASE b = k
    <3>0. e.tag = r.tag /\ e.sid = NewSid(r)
      OBVIOUS
    <3>1. CASE tab'[k][i] = e /\ tab'[k][j] = e
      BY <2>2, <3>1
    <3>2. CASE tab'[k][i] = e /\ j - 1 \in DOMAIN tab[k] /\ tab'[k][j] = tab[k][j - 1]
      <4>1. hash_tag_equal(tab[k][j - 1].tag, r.tag)
        BY <2>2, <3>0, <3>2 DEF hash_tag_equal
      <4>2. QED
        BY <1>1, <2>2, <3>0, <3>2, <4>1
    <3>3. CASE tab'[k][j] = e /\ i - 1 \in DOMAIN tab[k] /\ tab'[k][i] = tab[k][i - 1]
      <4>1. hash_tag_equal(tab[k][i - 1].tag, r.tag)
        BY <2>2, <3>0, <3>3 DEF hash_tag_equal
      <4>2. QED
        BY <1>1, <2>2, <3>0, <3>3, <4>1
    <3>4. CASE /\ i - 1 \in DOMAIN tab[k] /\ tab'[k][i] = tab[k][i - 1]
               /\ j - 1 \in DOMAIN tab[k] /\ tab'[k][j] = tab[k][j - 1]
      BY <1>0, <2>2, <3>4 DEF IndInv, SameTagSameRing
    <3>5. QED
      BY <1>6, <2>2, <3>1, <3>2, <3>3, <3>4
  <2>3. QED
    BY <2>1, <2>2
<1>11. QED
  BY <1>7, <1>8, <1>9, <1>10 DEF IndInv

\* Refused requests leave the table alone.
LEMMA RefusalKeepsTable ==
  ASSUME IndInv, NEW r \in Request,
         AddBadCount(r) \/ AddSame(r) \/ AddNoRoom(r) \/ AddNoMem(r)
  PROVE  IndInv'
<1>1. SidAfterStart(r) \in Nat /\ SfmAfterStart(r) \in Nat /\ SidTaken(r) \in Nat
  BY NewSidFacts
<1>2. tab' = tab
  BY DEF AddBadCount, AddSame, AddNoRoom, AddNoMem, Table
<1>3. CountersOK'
  BY <1>1 DEF IndInv, CountersOK, AddBadCount, AddSame, AddNoRoom, AddNoMem
<1>4. QED
  BY <1>2, <1>3 DEF IndInv, TabOK, IndicesInRange, SameTagSameRing

\* The empty table satisfies the invariant.
LEMMA EmptyTable ==
  ASSUME tab = [b \in Buckets |-> <<>>], CountersOK
  PROVE  IndInv
<1>1. \A b \in Buckets : tab[b] = <<>> /\ DOMAIN tab[b] = {}
  OBVIOUS
<1>2. TabOK
  BY DEF TabOK
<1>3. QED
  BY <1>1, <1>2 DEF IndInv, IndicesInRange, SameTagSameRing

\* Every ioctl keeps the table's invariant.
LEMMA StepIndInv == IndInv /\ [Next]_vars => IndInv'
<1> SUFFICES ASSUME IndInv, [Next]_vars PROVE IndInv'
  OBVIOUS
<1>1. ASSUME NEW r \in [tag : Tags, trigger : Triggers, count : Counts, start : BOOLEAN],
             AddStream(r)
      PROVE  IndInv'
  <2>1. r \in Request
    BY TagsAssumption DEF Request
  <2>2. QED
    BY <1>1, <2>1, AddOkKeepsTable, RefusalKeepsTable DEF AddStream
<1>2. CASE Program
  BY <1>2 DEF Program, IndInv, TabOK, CountersOK, IndicesInRange, SameTagSameRing
<1>3. CASE Off
  BY <1>3 DEF Off, IndInv, TabOK, CountersOK, IndicesInRange, SameTagSameRing
<1>4. CASE FlushStream
  <2>1. tab' = [b \in Buckets |-> <<>>] /\ CountersOK'
    BY <1>4 DEF FlushStream, IndInv, CountersOK
  <2>2. \A b \in Buckets : tab'[b] = <<>> /\ DOMAIN tab'[b] = {}
    BY <2>1
  <2>3. TabOK'
    BY <2>1 DEF TabOK
  <2>4. QED
    BY <2>1, <2>2, <2>3 DEF IndInv, IndicesInRange, SameTagSameRing
<1>5. CASE UNCHANGED vars
  BY <1>5 DEF vars, IndInv, TabOK, CountersOK, IndicesInRange, SameTagSameRing
<1>6. QED
  BY <1>1, <1>2, <1>3, <1>4, <1>5 DEF Next

\* Initially the table is empty.
LEMMA InitIndInv == Init => IndInv
  BY EmptyTable DEF Init, CountersOK

\* No sequence of ioctls puts an entry into the table whose ring or fetch entry
\* does not exist.
THEOREM IndicesAlwaysInRange == Spec => []IndicesInRange
<1>1. IndInv => IndicesInRange
  BY DEF IndInv
<1>2. QED
  BY <1>1, InitIndInv, StepIndInv, PTL DEF Spec

\* Entries the lookup cannot tell apart always share their ring, so a frame's
\* ring does not depend on the order of the list, whatever the hash function.
THEOREM RingOfTagIsUnique == Spec => []SameTagSameRing
<1>1. IndInv => SameTagSameRing
  BY DEF IndInv
<1>2. QED
  BY <1>1, InitIndInv, StepIndInv, PTL DEF Spec

----------------------------------------------------------------------------
(* The programs on top of the table.                                        *)

\* The programs that use the driver's request structure, with any lists of streams.
Stream == [tag : Tags, trigger : Nat, count : Nat]
KnownPrograms ==
  /\ Clients \subseteq {"any", "sendHello", "tadma_prog"}
  /\ \A who \in Clients \ {"any"} : Configs[who] \subseteq Seq(Stream)

\* What sendHello asks for: streams that hash_tag_equal tells apart, with counts the driver takes.
Distinct(c) ==
  /\ \A i \in 1 .. Len(c) : c[i].count <= MAX_TRIG_COUNT
  /\ \A i, j \in 1 .. Len(c) : i # j => ~hash_tag_equal(c[i].tag, c[j].tag)
SendHelloDistinct == "sendHello" \in Clients => \A c \in Configs["sendHello"] : Distinct(c)

\* The list is the one of a program, what remains of it are positions in it.
ListOK ==
  /\ conf \in Seq(Stream) /\ order \in Seq(1 .. Len(conf))
  /\ client \in {"any", "sendHello", "tadma_prog"}
  /\ client = "any" => pc = "idle"
CInv == IndInv /\ ListOK

\* A request of sendHello or tadma_prog is what the driver reads.
LEMMA ReceivedFacts ==
  ASSUME ListOK, order # <<>>, client # "transHello", NEW pad, NEW behind
  PROVE  LET i == Head(order)
             r == Received(i, pad, behind)
         IN  /\ i \in 1 .. Len(conf) /\ r \in Request
             /\ r = [tag |-> conf[i].tag, trigger |-> conf[i].trigger, count |-> conf[i].count,
                     start |-> StartOf(i)]
<1> DEFINE i == Head(order)
<1>1. i \in 1 .. Len(conf)
  <2> DEFINE S == 1 .. Len(conf)
  <2>1. order \in Seq(S)
    BY DEF ListOK
  <2> HIDE DEF S
  <2>2. i \in S
    BY <2>1
  <2>3. QED
    BY <2>2 DEF S
<1> HIDE DEF i
<1>2. conf[i] \in Stream
  BY <1>1 DEF ListOK
<1>3. StartOf(i) \in BOOLEAN
  BY DEF StartOf
<1>4. Received(i, pad, behind) = [tag |-> conf[i].tag, trigger |-> conf[i].trigger,
                                 count |-> conf[i].count, start |-> StartOf(i)]
  BY DEF Received
<1>5. Received(i, pad, behind) \in Request
  BY <1>2, <1>3, <1>4 DEF Stream, Request
<1>6. QED
  BY <1>1, <1>4, <1>5 DEF i

\* A flush empties the table.
LEMMA FlushFacts ==
  ASSUME IndInv, FlushStream
  PROVE  IndInv' /\ \A b \in Buckets : DOMAIN tab'[b] = {}
<1>1. IndInv'
  BY StepIndInv DEF Next
<1>2. \A b \in Buckets : tab'[b] = <<>>
  BY DEF FlushStream
<1>3. QED
  BY <1>1, <1>2

\* What is left to add, once the first of it is taken.
LEMMA TailFacts ==
  ASSUME NEW n \in Nat, NEW s \in Seq(1 .. n), s # <<>>
  PROVE  /\ Tail(s) \in Seq(1 .. n) /\ Len(s) \in Nat /\ Len(s) > 0 /\ Len(Tail(s)) = Len(s) - 1
         /\ Head(s) = s[1] /\ \A i \in 1 .. Len(s) - 1 : Tail(s)[i] = s[i + 1]
<1> DEFINE S == 1 .. n
<1>1. s \in Seq(S)
  OBVIOUS
<1> HIDE DEF S
<1>2. /\ Tail(s) \in Seq(S) /\ Len(s) \in Nat /\ Len(s) > 0 /\ Len(Tail(s)) = Len(s) - 1
      /\ Head(s) = s[1] /\ \A i \in 1 .. Len(s) - 1 : Tail(s)[i] = s[i + 1]
  BY <1>1
<1>3. QED
  BY <1>2 DEF S

LEMMA OrdersFacts ==
  ASSUME NEW who, NEW c, c \in Seq(Stream), NEW o \in Orders(who, c)
  PROVE  /\ o \in Seq(1 .. Len(c)) /\ Len(o) = Len(c)
         /\ who # "tadma_prog" => \A i \in 1 .. Len(c) : o[i] = i
         /\ \A k \in 1 .. Len(c) : \E i \in 1 .. Len(c) : o[i] = k
<1>1. Len(c) \in Nat /\ o \in [1 .. Len(c) -> 1 .. Len(c)]
  BY DEF Orders
<1>2. /\ who # "tadma_prog" => \A i \in 1 .. Len(c) : o[i] = i
      /\ \A k \in 1 .. Len(c) : \E i \in 1 .. Len(c) : o[i] = k
  BY DEF Orders
<1> DEFINE S == 1 .. Len(c)
<1> HIDE DEF S
<1>3. o \in [1 .. Len(c) -> S]
  BY <1>1 DEF S
<1>4. o \in Seq(S) /\ Len(o) = Len(c)
  BY <1>1, <1>3
<1>5. QED
  BY <1>2, <1>4 DEF S

LEMMA CInitInv == KnownPrograms /\ CInit => CInv
<1> SUFFICES ASSUME KnownPrograms, CInit PROVE CInv
  OBVIOUS
<1>1. IndInv
  BY InitIndInv DEF CInit
<1>2. conf = <<>> /\ order = <<>> /\ pc = "idle" /\ client \in {"any", "sendHello", "tadma_prog"}
  BY DEF CInit, KnownPrograms
<1>3. conf \in Seq(Stream) /\ order \in Seq(1 .. Len(conf))
  BY <1>2
<1>4. QED
  BY <1>1, <1>2, <1>3 DEF CInv, ListOK

\* The actions of the programs keep the table's invariant and the lists.
LEMMA BeginInv ==
  ASSUME KnownPrograms, CInv, NEW who \in Clients \ {"any"}, NEW c \in Configs[who], Begin(who, c)
  PROVE  CInv' /\ \A b \in Buckets : DOMAIN tab'[b] = {}
<1>1. IndInv' /\ \A b \in Buckets : DOMAIN tab'[b] = {}
  BY FlushFacts DEF CInv, Begin
<1>2. c \in Seq(Stream) /\ who \in {"sendHello", "tadma_prog"}
  BY DEF KnownPrograms
<1>3. conf' = c /\ client' = who /\ order' \in Orders(who, c)
  BY DEF Begin
<1>4. order' \in Seq(1 .. Len(c))
  BY <1>2, <1>3, OrdersFacts
<1>5. ListOK'
  BY <1>2, <1>3, <1>4 DEF ListOK
<1>6. QED
  BY <1>1, <1>5 DEF CInv

LEMMA AddInv ==
  ASSUME CInv, Add
  PROVE  CInv'
<1>1. order # <<>> /\ client # "transHello" /\ ListOK /\ IndInv /\ client # "any"
  BY DEF Add, CInv, ListOK
<1>2. PICK pad \in Pads, behind \in BOOLEAN : AddStream(Received(Head(order), pad, behind))
  BY <1>1 DEF Add
<1> DEFINE r == Received(Head(order), pad, behind)
<1>3. r \in Request
  BY <1>1, ReceivedFacts
<1> HIDE DEF r
<1>4. IndInv'
  BY <1>1, <1>2, <1>3, AddOkKeepsTable, RefusalKeepsTable DEF AddStream, r
<1>5. order' = Tail(order) /\ UNCHANGED <<client, conf>>
  BY DEF Add
<1>6. Len(conf) \in Nat /\ order \in Seq(1 .. Len(conf))
  BY <1>1 DEF ListOK
<1>7. order' \in Seq(1 .. Len(conf))
  BY <1>1, <1>5, <1>6, TailFacts
<1>8. QED
  BY <1>1, <1>4, <1>5, <1>7 DEF CInv, ListOK

LEMMA OtherInv ==
  ASSUME CInv, ProgramAll \/ BeginOff \/ ChangeToContinuous \/ AnyIoctl \/ UNCHANGED cvars
  PROVE  CInv'
<1>1. [Next]_vars
  BY DEF ProgramAll, BeginOff, ChangeToContinuous, AnyIoctl, Next, cvars, vars
<1>2. IndInv'
  BY <1>1, StepIndInv DEF CInv
<1>3. ListOK'
  <2>1. CASE ProgramAll \/ ChangeToContinuous
    <3>1. UNCHANGED <<client, conf, order>> /\ client # "any"
      BY <2>1 DEF ProgramAll, ChangeToContinuous, CInv, ListOK
    <3>2. QED
      BY <3>1 DEF CInv, ListOK
  <2>2. CASE BeginOff
    <3>1. conf' = <<>> /\ order' = <<>> /\ client' = "tadma_prog"
      BY <2>2 DEF BeginOff
    <3>2. conf' \in Seq(Stream) /\ order' \in Seq(1 .. Len(conf'))
      BY <3>1
    <3>3. QED
      BY <3>1, <3>2 DEF ListOK
  <2>3. CASE AnyIoctl \/ UNCHANGED cvars
    BY <2>3 DEF AnyIoctl, clientVars, cvars, CInv, ListOK
  <2>4. QED
    BY <2>1, <2>2, <2>3
<1>4. QED
  BY <1>2, <1>3 DEF CInv

LEMMA CNextInv == KnownPrograms /\ CInv /\ [CNext]_cvars => CInv'
  BY BeginInv, AddInv, OtherInv, Zenon DEF CNext

\* While sendHello adds, everything before the present position was accepted: the counters are the
\* number of streams added, the rest of the list follows in order, and the table holds nothing else.
\* FittingConfigAccepted looks at the end only; this is what makes it inductive.
Added == Len(conf) - Len(order)
SendAdds ==
  client = "sendHello" /\ pc = "adding" =>
    /\ Distinct(conf) /\ Len(order) <= Len(conf)
    /\ \A i \in 1 .. Len(order) : order[i] = Added + i
    /\ Added > 0 => getSid = Added /\ getSfm = Added
    /\ \A b \in Buckets : \A p \in DOMAIN tab[b] :
         \E j \in 1 .. Added : tab[b][p].tag = conf[j].tag
FitInv == CInv /\ SendAdds /\ FittingConfigAccepted

LEMMA BeginFit ==
  ASSUME KnownPrograms, SendHelloDistinct, FitInv,
         NEW who \in Clients \ {"any"}, NEW c \in Configs[who], Begin(who, c)
  PROVE  FitInv'
<1>1. CInv' /\ \A b \in Buckets : DOMAIN tab'[b] = {}
  BY BeginInv DEF FitInv
<1>2. c \in Seq(Stream) /\ who \in {"sendHello", "tadma_prog"}
  BY DEF KnownPrograms
<1>3. conf' = c /\ client' = who /\ order' \in Orders(who, c) /\ pc' = "adding"
  BY DEF Begin
<1>4. /\ Len(order') = Len(c) /\ Len(c) \in Nat
      /\ who = "sendHello" => \A i \in 1 .. Len(c) : order'[i] = i
  BY <1>2, <1>3, OrdersFacts
<1>5. Added' = 0
  BY <1>3, <1>4 DEF Added
<1>6. SendAdds'
  <2> SUFFICES ASSUME who = "sendHello"
               PROVE  /\ Distinct(conf') /\ Len(order') <= Len(conf')
                      /\ \A i \in 1 .. Len(order') : order'[i] = 0 + i
                      /\ \A b \in Buckets : \A p \in DOMAIN tab'[b] :
                           \E j \in 1 .. 0 : tab'[b][p].tag = conf'[j].tag
    BY <1>3, <1>5 DEF SendAdds, Distinct, hash_tag_equal
  <2>1. Distinct(c)
    BY DEF SendHelloDistinct
  <2>2. QED
    BY <1>1, <1>3, <1>4, <2>1
<1>7. FittingConfigAccepted'
  BY <1>3 DEF FittingConfigAccepted
<1>8. QED
  BY <1>1, <1>6, <1>7 DEF FitInv

\* The stream that sendHello adds is new to the table and gets the next ring.
LEMMA SendHelloNew ==
  ASSUME FitInv, client = "sendHello", pc = "adding", order # <<>>, NEW pad, NEW behind
  PROVE  LET n == Added
             r == Received(Head(order), pad, behind)
         IN  /\ n \in Nat /\ n < Len(conf) /\ Len(order) = Len(conf) - n /\ Head(order) = n + 1
             /\ r \in Request /\ r.tag = conf[n + 1].tag /\ r.count <= MAX_TRIG_COUNT
             /\ Lookup(r.tag) = 0
             /\ SidAfterStart(r) = n /\ SfmAfterStart(r) = n
<1> DEFINE n == Added
           r == Received(Head(order), pad, behind)
<1>1. /\ Distinct(conf) /\ Len(order) <= Len(conf)
      /\ \A i \in 1 .. Len(order) : order[i] = n + i
      /\ n > 0 => getSid = n /\ getSfm = n
      /\ \A b \in Buckets : \A p \in DOMAIN tab[b] :
           \E j \in 1 .. n : tab[b][p].tag = conf[j].tag
  BY DEF FitInv, SendAdds
<1>2. ListOK /\ IndInv /\ Len(conf) \in Nat /\ order \in Seq(1 .. Len(conf))
  BY DEF FitInv, CInv, ListOK
<1>3. Len(order) \in Nat /\ Len(order) > 0 /\ Head(order) = order[1]
  BY <1>2, TailFacts
<1>4. n \in Nat /\ n < Len(conf) /\ Len(order) = Len(conf) - n
  BY <1>1, <1>2, <1>3 DEF Added
<1>5. Head(order) = n + 1
  BY <1>1, <1>3
<1> HIDE DEF n
<1>6. /\ r \in Request
      /\ r = [tag |-> conf[n + 1].tag, trigger |-> conf[n + 1].trigger, count |-> conf[n + 1].count,
              start |-> StartOf(n + 1)]
  BY <1>2, <1>5, ReceivedFacts
<1>7. r.tag = conf[n + 1].tag /\ r.count = conf[n + 1].count /\ r.start = (n = 0)
  BY <1>4, <1>6 DEF StartOf
<1> HIDE DEF r
<1>8. n + 1 \in 1 .. Len(conf) /\ r.count <= MAX_TRIG_COUNT
  BY <1>1, <1>2, <1>4, <1>7 DEF Distinct
<1>9. Lookup(r.tag) = 0
  <2> DEFINE t == r.tag
             k == BucketOf[t]
             i == Lookup(t)
  <2>1. t \in Tags /\ k \in Buckets /\ TabOK
    BY <1>2, <1>6, TagsAssumption DEF Request, IndInv
  <2> SUFFICES ASSUME i # 0 PROVE FALSE
    OBVIOUS
  <2>2. i \in DOMAIN tab[k] /\ hash_tag_equal(tab[k][i].tag, t)
    BY <2>1, LookupFacts
  <2> HIDE DEF i, k
  <2>3. PICK j \in 1 .. n : tab[k][i].tag = conf[j].tag
    BY <1>1, <2>1, <2>2
  <2>4. hash_tag_equal(conf[j].tag, conf[n + 1].tag)
    BY <1>7, <2>2, <2>3
  <2>5. j \in 1 .. Len(conf) /\ j # n + 1
    BY <1>2, <1>4
  <2>6. QED
    BY <1>1, <1>8, <2>4, <2>5 DEF Distinct
<1>10. SidAfterStart(r) = n /\ SfmAfterStart(r) = n
  <2>1. CASE n = 0
    BY <1>7, <2>1 DEF SidAfterStart, SfmAfterStart
  <2>2. CASE n > 0
    <3>1. ~r.start
      <4>1. ~(n = 0)
        BY <1>4, <2>2
      <4>2. QED
        BY <1>7, <4>1, Zenon
    <3>2. QED
      BY <1>1, <2>2, <3>1 DEF SidAfterStart, SfmAfterStart
  <2>3. QED
    BY <1>4, <2>1, <2>2
<1>11. QED
  BY <1>4, <1>5, <1>6, <1>7, <1>8, <1>9, <1>10 DEF n, r

LEMMA SendHelloAdds ==
  ASSUME FitInv, Add, client = "sendHello"
  PROVE  SendAdds' /\ FittingConfigAccepted'
<1> DEFINE n == Added
<1>1. /\ pc = "adding" /\ order # <<>> /\ order' = Tail(order) /\ UNCHANGED <<client, conf>>
      /\ pc' = IF ret' = "ok" THEN "adding" ELSE "failed"
  BY DEF Add
<1>2. PICK pad \in Pads, behind \in BOOLEAN : AddStream(Received(Head(order), pad, behind))
  BY DEF Add
<1> DEFINE r == Received(Head(order), pad, behind)
<1>3. /\ n \in Nat /\ n < Len(conf) /\ Len(order) = Len(conf) - n /\ Head(order) = n + 1
      /\ r \in Request /\ r.tag = conf[n + 1].tag /\ r.count <= MAX_TRIG_COUNT
      /\ Lookup(r.tag) = 0
      /\ SidAfterStart(r) = n /\ SfmAfterStart(r) = n
  BY <1>1, SendHelloNew
<1>4. /\ Distinct(conf) /\ Len(order) <= Len(conf)
      /\ \A i \in 1 .. Len(order) : order[i] = n + i
      /\ \A b \in Buckets : \A p \in DOMAIN tab[b] :
           \E j \in 1 .. n : tab[b][p].tag = conf[j].tag
  BY <1>1 DEF FitInv, SendAdds
<1>5. /\ Len(conf) \in Nat /\ order \in Seq(1 .. Len(conf)) /\ IndInv
  BY DEF FitInv, CInv, ListOK
<1>6. /\ Len(order) \in Nat /\ Len(order') = Len(order) - 1
      /\ \A i \in 1 .. Len(order) - 1 : order'[i] = order[i + 1]
  BY <1>1, <1>5, TailFacts
<1> HIDE DEF r
<1>7. Added' = n + 1
  <2>1. Added' = Len(conf) - Len(order')
    BY <1>1 DEF Added
  <2> HIDE DEF n
  <2>2. QED
    BY <1>3, <1>5, <1>6, <2>1
<1> HIDE DEF n
<1>8. AddStream(r)
  BY <1>2 DEF r
<1>9. NewSid(r) = n /\ SidTaken(r) = n + 1 /\ ~SameEntry(r)
  BY <1>3 DEF NewSid, SidTaken, SameEntry
<1>10. FittingConfigAccepted'
  <2> SUFFICES ASSUME pc' = "failed", Len(conf) <= NumStreams PROVE ret' = "ENOMEM"
    BY <1>1 DEF FittingConfigAccepted
  <2>1. ~NoRoom(r)
    BY <1>3, <1>5, <1>9, SizesAssumption DEF NoRoom
  <2>2. ~AddBadCount(r) /\ ~AddSame(r) /\ ~AddNoRoom(r)
    <3>1. ~(r.count > MAX_TRIG_COUNT)
      BY <1>3 DEF Request, MAX_TRIG_COUNT
    <3>2. QED
      BY <1>9, <2>1, <3>1 DEF AddBadCount, AddSame, AddNoRoom
  <2>3. AddNoMem(r) \/ AddOk(r)
    BY <1>8, <2>2 DEF AddStream
  <2>4. QED
    BY <1>1, <2>3 DEF AddNoMem, AddOk
<1>11. ASSUME pc' = "adding"
       PROVE  /\ Distinct(conf) /\ Len(order') <= Len(conf)
              /\ \A i \in 1 .. Len(order') : order'[i] = (n + 1) + i
              /\ getSid' = n + 1 /\ getSfm' = n + 1
              /\ \A b \in Buckets : \A p \in DOMAIN tab'[b] :
                   \E j \in 1 .. (n + 1) : tab'[b][p].tag = conf[j].tag
  <2>1. ret' = "ok" /\ AddOk(r)
    BY <1>1, <1>8, <1>11 DEF AddStream, AddBadCount, AddSame, AddNoRoom, AddNoMem
  <2>2. getSid' = n + 1 /\ getSfm' = n + 1
    BY <1>3, <1>9, <2>1 DEF AddOk
  <2>3. ASSUME NEW i \in 1 .. Len(order') PROVE order'[i] = (n + 1) + i
    <3>1. i \in 1 .. Len(order) - 1 /\ i + 1 \in 1 .. Len(order) /\ i \in Nat
      BY <1>6, <2>3
    <3>2. order'[i] = order[i + 1] /\ order[i + 1] = n + (i + 1)
      BY <1>4, <1>6, <3>1
    <3>3. n + (i + 1) = (n + 1) + i
      BY <1>3, <3>1
    <3>4. QED
      BY <3>2, <3>3
  <2>4. ASSUME NEW b \in Buckets, NEW p \in DOMAIN tab'[b]
        PROVE  \E j \in 1 .. (n + 1) : tab'[b][p].tag = conf[j].tag
    <3> DEFINE k == BucketOf[r.tag]
               e == [tag |-> r.tag, tticks |-> r.trigger, count |-> r.count,
                     sid |-> NewSid(r), sfm |-> SfmAfterStart(r)]
    <3>1. k \in Buckets /\ tab[k] \in Seq(Entry) /\ TabOK
      BY <1>3, <1>5, TagsAssumption DEF IndInv, TabOK, Request
    <3>2. e \in Entry /\ e.tag = conf[n + 1].tag
      BY <1>3, <1>9 DEF Request, Entry
    <3>3. tab' = [tab EXCEPT ![k] = <<e>> \o tab[k]]
      BY <2>1 DEF AddOk
    <3> HIDE DEF k, e
    <3>4. tab'[b] = IF b = k THEN <<e>> \o tab[k] ELSE tab[b]
      BY <3>1, <3>3 DEF TabOK
    <3>5. \A j \in 1 .. n : j \in 1 .. (n + 1)
      BY <1>3
    <3>6. CASE b # k
      <4>1. p \in DOMAIN tab[b] /\ tab'[b][p] = tab[b][p]
        BY <3>4, <3>6
      <4>2. QED
        BY <1>4, <3>5, <4>1
    <3>7. CASE b = k
      <4>1. \/ tab'[b][p] = e
            \/ p - 1 \in DOMAIN tab[k] /\ tab'[b][p] = tab[k][p - 1]
        BY <3>1, <3>2, <3>4, <3>7, PrependFacts
      <4>2. CASE tab'[b][p] = e
        <5>1. n + 1 \in 1 .. (n + 1)
          BY <1>3
        <5>2. QED
          BY <3>2, <4>2, <5>1
      <4>3. CASE p - 1 \in DOMAIN tab[k] /\ tab'[b][p] = tab[k][p - 1]
        BY <1>4, <3>1, <3>5, <4>3
      <4>4. QED
        BY <4>1, <4>2, <4>3
    <3>8. QED
      BY <3>6, <3>7
  <2>5. Len(order') <= Len(conf)
    BY <1>3, <1>5, <1>6
  <2>6. QED
    BY <1>4, <2>2, <2>3, <2>4, <2>5
<1>12. SendAdds'
  BY <1>1, <1>7, <1>11 DEF SendAdds, Distinct, hash_tag_equal
<1>13. QED
  BY <1>10, <1>12

LEMMA FitNextInv == KnownPrograms /\ SendHelloDistinct /\ FitInv /\ [CNext]_cvars => FitInv'
<1> SUFFICES ASSUME KnownPrograms, SendHelloDistinct, FitInv, [CNext]_cvars PROVE FitInv'
  OBVIOUS
<1>1. CASE \E who \in Clients \ {"any"} : \E c \in Configs[who] : Begin(who, c)
  BY <1>1, BeginFit
<1>2. CASE Add
  <2>1. CInv'
    BY <1>2, AddInv DEF FitInv
  <2>2. CASE client = "sendHello"
    BY <1>2, <2>1, <2>2, SendHelloAdds DEF FitInv
  <2>3. CASE client # "sendHello"
    <3>1. client = "tadma_prog"
      BY <1>2, <2>3 DEF FitInv, CInv, ListOK, Add
    <3>2. pc' = "adding" /\ client' = "tadma_prog"
      BY <1>2, <3>1 DEF Add
    <3>3. QED
      BY <2>1, <3>2 DEF FitInv, SendAdds, FittingConfigAccepted
  <2>4. QED
    BY <2>2, <2>3
<1>3. CASE ProgramAll \/ BeginOff \/ ChangeToContinuous
  <2>1. CInv'
    BY <1>3, OtherInv DEF FitInv
  <2>2. pc' \in {"done", "off", "offDone"}
    BY <1>3 DEF ProgramAll, BeginOff, ChangeToContinuous
  <2>3. QED
    BY <2>1, <2>2 DEF FitInv, SendAdds, FittingConfigAccepted
<1>4. CASE AnyIoctl
  <2>1. CInv'
    BY <1>4, OtherInv DEF FitInv
  <2>2. client' = "any" /\ pc' = "idle"
    BY <1>4 DEF AnyIoctl, clientVars, FitInv, CInv, ListOK
  <2>3. QED
    BY <2>1, <2>2 DEF FitInv, SendAdds, FittingConfigAccepted
<1>5. CASE UNCHANGED cvars
  <2>1. CInv'
    BY <1>5, OtherInv DEF FitInv
  <2>2. QED
    BY <1>5, <2>1 DEF cvars, FitInv, SendAdds, FittingConfigAccepted, Added
<1>6. QED
  BY <1>1, <1>2, <1>3, <1>4, <1>5 DEF CNext

\* With the programs in charge, too, every ring and fetch entry of the table exists and equal tags
\* share their ring (axienet_tadma_add_stream), for all lists of streams.
THEOREM ProgramsKeepTable ==
  ASSUME KnownPrograms
  PROVE  CSpec => [](IndicesInRange /\ SameTagSameRing)
<1>1. CInit => CInv
  BY CInitInv
<1>2. CInv /\ [CNext]_cvars => CInv'
  BY CNextInv
<1>3. CInv => IndicesInRange /\ SameTagSameRing
  BY DEF CInv, IndInv
<1>4. QED
  BY <1>1, <1>2, <1>3, PTL DEF CSpec

\* A list of streams that hash_tag_equal tells apart and that fits into the rings is accepted: sendHello
\* stops for want of memory only, whatever ran before it and however far that had got
\* (axienet_tadma_add_stream: flush leaves get_sid and get_sfm, start resets them).
THEOREM FittingAlwaysAccepted ==
  ASSUME KnownPrograms, SendHelloDistinct
  PROVE  CSpec => []FittingConfigAccepted
<1>1. CInit => FitInv
  <2> SUFFICES ASSUME CInit PROVE FitInv
    OBVIOUS
  <2>1. CInv
    BY CInitInv
  <2>2. pc = "idle"
    BY DEF CInit
  <2>3. QED
    BY <2>1, <2>2 DEF FitInv, SendAdds, FittingConfigAccepted
<1>2. FitInv /\ [CNext]_cvars => FitInv'
  BY FitNextInv
<1>3. FitInv => FittingConfigAccepted
  BY DEF FitInv
<1>4. QED
  BY <1>1, <1>2, <1>3, PTL DEF CSpec

----------------------------------------------------------------------------
(* A configuration that was accepted is in force.                            *)

\* The places of the table are its buckets' positions.
LEMMA PlacesFacts ==
  /\ \A b \in Buckets : \A i \in DOMAIN tab[b] : <<b, i>> \in Places /\ At(<<b, i>>) = tab[b][i]
  /\ \A p \in Places : \E b \in Buckets : \E i \in DOMAIN tab[b] : p = <<b, i>> /\ At(p) = tab[b][i]
<1>1. ASSUME NEW b \in Buckets, NEW i \in DOMAIN tab[b]
      PROVE  <<b, i>> \in Places /\ At(<<b, i>>) = tab[b][i]
  BY DEF Places, At
<1>2. ASSUME NEW p \in Places
      PROVE  \E b \in Buckets : \E i \in DOMAIN tab[b] : p = <<b, i>> /\ At(p) = tab[b][i]
  <2>1. PICK b \in Buckets : p \in {<<b, i>> : i \in DOMAIN tab[b]}
    BY DEF Places
  <2>2. PICK i \in DOMAIN tab[b] : p = <<b, i>>
    BY <2>1
  <2>3. QED
    BY <2>2 DEF At
<1>3. QED
  BY <1>1, <1>2

\* The table after an entry was put in front of a bucket: the entry, and every other one place on.
LEMMA PlacesAfterAdd ==
  ASSUME TabOK, NEW k \in Buckets, NEW e \in Entry, tab' = [tab EXCEPT ![k] = <<e>> \o tab[k]]
  PROVE  /\ 1 \in DOMAIN tab'[k] /\ tab'[k][1] = e
         /\ \A b \in Buckets : \A i \in DOMAIN tab'[b] :
              \/ b = k /\ i = 1 /\ tab'[b][i] = e
              \/ b = k /\ i - 1 \in DOMAIN tab[b] /\ i \in Int /\ tab'[b][i] = tab[b][i - 1]
              \/ b # k /\ i \in DOMAIN tab[b] /\ tab'[b][i] = tab[b][i]
         /\ \A b \in Buckets : \A i \in DOMAIN tab[b] :
              \E l \in DOMAIN tab'[b] : tab'[b][l] = tab[b][i]
<1>1. tab[k] \in Seq(Entry)
  BY DEF TabOK
<1> DEFINE s == tab[k]
           u == <<e>> \o s
<1>2. tab'[k] = u /\ \A b \in Buckets : b # k => tab'[b] = tab[b]
  BY DEF TabOK
<1>3. /\ u \in Seq(Entry) /\ Len(u) = Len(s) + 1 /\ Len(s) \in Nat
      /\ DOMAIN u = 1 .. Len(s) + 1 /\ DOMAIN s = 1 .. Len(s)
  <2>1. <<e>> \in Seq(Entry) /\ Len(<<e>>) = 1
    OBVIOUS
  <2>2. QED
    BY <1>1, <2>1
<1>4. u[1] = e /\ \A i \in 1 .. Len(s) : u[i + 1] = s[i]
  <2>1. <<e>> \in Seq(Entry) /\ Len(<<e>>) = 1 /\ <<e>>[1] = e
    OBVIOUS
  <2>2. QED
    BY <1>1, <2>1
<1> HIDE DEF s, u
<1>5. 1 \in DOMAIN tab'[k] /\ tab'[k][1] = e
  BY <1>2, <1>3, <1>4
<1>6. ASSUME NEW b \in Buckets, NEW i \in DOMAIN tab'[b]
      PROVE  \/ b = k /\ i = 1 /\ tab'[b][i] = e
             \/ b = k /\ i - 1 \in DOMAIN tab[b] /\ i \in Int /\ tab'[b][i] = tab[b][i - 1]
             \/ b # k /\ i \in DOMAIN tab[b] /\ tab'[b][i] = tab[b][i]
  <2>1. CASE b # k
    BY <1>2, <2>1
  <2>2. CASE b = k
    <3>1. i \in 1 .. Len(s) + 1 /\ tab'[b][i] = u[i] /\ tab[b] = s
      BY <1>2, <1>3, <2>2 DEF s
    <3>2. CASE i = 1
      BY <1>4, <2>2, <3>1, <3>2
    <3>3. CASE i # 1
      <4>1. i - 1 \in 1 .. Len(s) /\ i = (i - 1) + 1 /\ i \in Int
        BY <1>3, <3>1, <3>3
      <4>2. u[i] = s[i - 1]
        BY <1>4, <4>1
      <4>3. QED
        BY <1>3, <2>2, <3>1, <4>1, <4>2
    <3>4. QED
      BY <3>2, <3>3
  <2>3. QED
    BY <2>1, <2>2
<1>7. ASSUME NEW b \in Buckets, NEW i \in DOMAIN tab[b]
      PROVE  \E l \in DOMAIN tab'[b] : tab'[b][l] = tab[b][i]
  <2>1. CASE b # k
    BY <1>2, <2>1
  <2>2. CASE b = k
    <3>1. i \in 1 .. Len(s) /\ tab[b] = s
      BY <1>3, <2>2 DEF s
    <3>2. i + 1 \in DOMAIN u /\ u[i + 1] = s[i]
      BY <1>3, <1>4, <3>1
    <3>3. QED
      BY <1>2, <2>2, <3>1, <3>2
  <2>3. QED
    BY <2>1, <2>2
<1>8. QED
  BY <1>5, <1>6, <1>7

\* What a trigger needs: the fetch memory has its entries, and a valid one that is not best effort is
\* that of an entry of the table.
SfmInv == DOMAIN sfm = 0 .. NumEntries - 1 /\ NoStaleTrigger

\* The same without Places.
TriggersInTable ==
  \A x \in DOMAIN sfm :
    sfm[x].valid /\ sfm[x] # SfmValue(STRID_BE, NSEC_PER_MSEC, 0) =>
      \E b \in Buckets : \E i \in DOMAIN tab[b] : tab[b][i].sfm = x

LEMMA StaleFacts == NoStaleTrigger <=> TriggersInTable
<1>1. ASSUME NEW x
      PROVE  (\E p \in Places : At(p).sfm = x)
               <=> \E b \in Buckets : \E i \in DOMAIN tab[b] : tab[b][i].sfm = x
  <2>1. ASSUME NEW p \in Places, At(p).sfm = x
        PROVE  \E b \in Buckets : \E i \in DOMAIN tab[b] : tab[b][i].sfm = x
    BY <2>1, PlacesFacts
  <2>2. ASSUME NEW b \in Buckets, NEW i \in DOMAIN tab[b], tab[b][i].sfm = x
        PROVE  \E p \in Places : At(p).sfm = x
    BY <2>2, PlacesFacts
  <2>3. QED
    BY <2>1, <2>2
<1>2. QED
  BY <1>1 DEF NoStaleTrigger, TriggersInTable

LEMMA StaleFactsNext == NoStaleTrigger' <=> TriggersInTable'
  BY StaleFacts, PTL

\* Adding, accepted or not, leaves the fetch memory alone and no entry out of the table.
LEMMA AddKeepsSfm ==
  ASSUME IndInv, SfmInv, NEW r \in Request, AddStream(r)
  PROVE  SfmInv'
<1>1. sfm' = sfm
  BY DEF AddStream, AddBadCount, AddSame, AddNoRoom, AddNoMem, AddOk, Table
<1>2. \A b \in Buckets : \A i \in DOMAIN tab[b] : \E l \in DOMAIN tab'[b] : tab'[b][l] = tab[b][i]
  <2>1. CASE tab' = tab
    BY <2>1
  <2>2. CASE AddOk(r)
    <3> DEFINE k == BucketOf[r.tag]
               e == [tag |-> r.tag, tticks |-> r.trigger, count |-> r.count,
                     sid |-> NewSid(r), sfm |-> SfmAfterStart(r)]
    <3>1. k \in Buckets /\ TabOK
      BY TagsAssumption DEF IndInv, Request
    <3>2. e \in Entry
      BY NewSidFacts DEF Request, Entry
    <3>3. tab' = [tab EXCEPT ![k] = <<e>> \o tab[k]]
      BY <2>2 DEF AddOk
    <3> HIDE DEF k, e
    <3>4. QED
      BY <3>1, <3>2, <3>3, PlacesAfterAdd
  <2>3. QED
    BY <2>1, <2>2 DEF AddStream, AddBadCount, AddSame, AddNoRoom, AddNoMem, Table
<1>3. (NoStaleTrigger)'
  <2> SUFFICES ASSUME NEW x \in DOMAIN sfm, sfm[x].valid, sfm[x] # SfmValue(STRID_BE, NSEC_PER_MSEC, 0)
               PROVE  \E b \in Buckets : \E i \in DOMAIN tab'[b] : tab'[b][i].sfm = x
    BY <1>1, StaleFactsNext DEF TriggersInTable, SfmValue
  <2>1. PICK b \in Buckets : \E i \in DOMAIN tab[b] : tab[b][i].sfm = x
    BY StaleFacts DEF SfmInv, TriggersInTable
  <2>2. QED
    BY <1>2, <2>1
<1>4. QED
  BY <1>1, <1>3 DEF SfmInv

LEMMA IoctlsKeepSfm ==
  ASSUME SfmInv, Program \/ Off \/ FlushStream
  PROVE  SfmInv'
<1>1. DOMAIN sfm' = DOMAIN sfm
  BY DEF Program, Off, FlushStream
<1>2. TriggersInTable
  BY StaleFacts DEF SfmInv
<1>3. TriggersInTable'
  <2> SUFFICES ASSUME NEW x \in DOMAIN sfm, sfm'[x].valid,
                      sfm'[x] # SfmValue(STRID_BE, NSEC_PER_MSEC, 0)
               PROVE  \E b \in Buckets : \E i \in DOMAIN tab'[b] : tab'[b][i].sfm = x
    BY <1>1 DEF TriggersInTable, SfmValue
  <2>1. CASE Program
    <3> DEFINE here == {p \in Places : At(p).sfm = x}
    <3>1. tab' = tab
      BY <2>1 DEF Program
    <3>2. here = {} => sfm'[x] = sfm[x]
      BY <2>1 DEF Program
    <3>3. CASE here = {}
      BY <1>2, <3>1, <3>2, <3>3 DEF TriggersInTable
    <3>4. CASE here # {}
      <4>1. PICK p \in Places : At(p).sfm = x
        BY <3>4
      <4>2. QED
        BY <3>1, <4>1, PlacesFacts
    <3>5. QED
      BY <3>3, <3>4
  <2>2. CASE Off
    <3>1. x # STRID_BE /\ sfm'[x] = sfm[x] /\ tab' = tab
      BY <2>2 DEF Off
    <3>2. QED
      BY <1>2, <3>1 DEF TriggersInTable
  <2>3. CASE FlushStream
    <3>1. sfm'[x] = NoEntry
      BY <2>3 DEF FlushStream
    <3>2. QED
      BY <3>1 DEF NoEntry
  <2>4. QED
    BY <2>1, <2>2, <2>3
<1>4. QED
  BY <1>1, <1>3, StaleFactsNext DEF SfmInv

\* The entry that stands for position j, when everything before it was accepted.
EntryFor(j) ==
  [tag |-> conf[j].tag, tticks |-> conf[j].trigger, count |-> conf[j].count, sid |-> j - 1, sfm |-> j - 1]

\* The table holds the entries of the first n positions, each once and in its bucket.
Holds(n) ==
  /\ \A b \in Buckets : \A i \in DOMAIN tab[b] :
       \E j \in 1 .. n : tab[b][i] = EntryFor(j) /\ b = BucketOf[conf[j].tag]
  /\ \A j \in 1 .. n : \E b \in Buckets : \E i \in DOMAIN tab[b] : tab[b][i] = EntryFor(j)
  /\ \A b, c \in Buckets : \A i \in DOMAIN tab[b] : \A l \in DOMAIN tab[c] :
       tab[b][i].sfm = tab[c][l].sfm => b = c /\ i = l

\* While a program adds, whatever its list: the table holds triggers of the list only, the fetch memory is
\* empty, and a stream that is not waiting to be added is in the table unless its add was refused.
Waits(j) == \E i \in 1 .. Len(order) : order[i] = j
InTable(j) ==
  \E i \in DOMAIN tab[BucketOf[conf[j].tag]] : hash_tag_equal(tab[BucketOf[conf[j].tag]][i].tag, conf[j].tag)
FromList ==
  \A b \in Buckets : \A i \in DOMAIN tab[b] : \E j \in 1 .. Len(conf) : tab[b][i].tticks = conf[j].trigger
AllInTable == errs \subseteq {"EEXIST"} => \A j \in 1 .. Len(conf) : Waits(j) \/ InTable(j)
Filling == pc = "adding" => FromList /\ AllInTable /\ \A x \in DOMAIN sfm : sfm[x] = NoEntry

\* While a program adds a list that is in order and no add was refused for good, table and counters are
\* those of the part of the list that was added.
Applying ==
  pc = "adding" /\ errs \subseteq {"EEXIST"} /\ InOrder(client, conf) =>
    /\ ToldApart(conf) /\ Len(order) <= Len(conf) /\ client # "any"
    /\ client = "tadma_prog" => Len(conf) <= 256
    /\ \A i \in 1 .. Len(order) : order[i] = Added + i
    /\ Added > 0 => getSid = Added /\ getSfm = Added
    /\ Holds(Added)
InForce == EveryStreamHasARing /\ NothingElseTriggered /\ OneRingPerStream /\ TriggeredAsConfigured
ForceInv == CInv /\ SfmInv /\ Filling /\ Applying /\ InForce /\ OffServesEverything

\* Where a program is not done, nothing is promised yet.
LEMMA NotDone == pc # "done" => InForce
  BY DEF InForce, EveryStreamHasARing, OneRingPerStream, TriggeredAsConfigured, NothingElseTriggered,
         AppliedInOrder, Applied

LEMMA NotDoneNext == pc' # "done" => InForce'
  BY DEF InForce, EveryStreamHasARing, OneRingPerStream, TriggeredAsConfigured, NothingElseTriggered,
         AppliedInOrder, Applied

LEMMA BeginForce ==
  ASSUME KnownPrograms, ForceInv,
         NEW who \in Clients \ {"any"}, NEW c \in Configs[who], Begin(who, c)
  PROVE  ForceInv'
<1>1. CInv' /\ \A b \in Buckets : DOMAIN tab'[b] = {}
  BY BeginInv DEF ForceInv
<1>2. c \in Seq(Stream) /\ who \in {"sendHello", "tadma_prog"}
  BY DEF KnownPrograms
<1>3. conf' = c /\ client' = who /\ order' \in Orders(who, c) /\ pc' = "adding" /\ FlushStream
  BY DEF Begin
<1>4. /\ Len(order') = Len(c) /\ Len(c) \in Nat
      /\ \A k \in 1 .. Len(c) : \E i \in 1 .. Len(c) : order'[i] = k
  BY <1>2, <1>3, OrdersFacts
<1>5. Added' = 0
  BY <1>3, <1>4 DEF Added
<1>6. SfmInv' /\ \A x \in DOMAIN sfm' : sfm'[x] = NoEntry
  BY <1>3, IoctlsKeepSfm DEF ForceInv, FlushStream
<1>7. Filling'
  <2>1. FromList'
    BY <1>1 DEF FromList
  <2>2. AllInTable'
    BY <1>3, <1>4 DEF AllInTable, Waits
  <2>3. QED
    BY <1>6, <2>1, <2>2 DEF Filling
<1>8. Applying'
  <2>1. SUFFICES ASSUME InOrder(who, c) PROVE Applying'
    BY <1>3 DEF Applying
  <2>2. (ToldApart(conf))' /\ (who = "tadma_prog" => Len(c) <= 256) /\ \A i \in 1 .. Len(c) : order'[i] = i
    BY <1>3, <2>1 DEF InOrder, ToldApart, hash_tag_equal
  <2>3. (Holds(Added))'
    BY <1>1, <1>5 DEF Holds
  <2>4. (\A i \in 1 .. Len(order) : order[i] = Added + i)'
    BY <1>4, <1>5, <2>2
  <2>5. ~(Added > 0)'
    BY <1>5
  <2>6. (Len(order) <= Len(conf) /\ client # "any" /\ (client = "tadma_prog" => Len(conf) <= 256))'
    BY <1>2, <1>3, <1>4, <2>2
  <2>7. QED
    BY <2>2, <2>3, <2>4, <2>5, <2>6 DEF Applying
<1>9. InForce' /\ OffServesEverything'
  BY <1>3, NotDoneNext DEF OffServesEverything
<1>10. QED
  BY <1>1, <1>6, <1>7, <1>8, <1>9 DEF ForceInv

\* A stream in the table stays there while others are added in front.
LEMMA KeptInTable ==
  ASSUME TabOK, NEW j, conf[j].tag \in Tags, InTable(j), conf' = conf,
         \A b \in Buckets : \A i \in DOMAIN tab[b] : \E l \in DOMAIN tab'[b] : tab'[b][l] = tab[b][i]
  PROVE  InTable(j)'
<1> DEFINE k == BucketOf[conf[j].tag]
<1>1. k \in Buckets
  BY TagsAssumption
<1>2. PICK i \in DOMAIN tab[k] : hash_tag_equal(tab[k][i].tag, conf[j].tag)
  BY DEF InTable
<1>3. PICK l \in DOMAIN tab'[k] : tab'[k][l] = tab[k][i]
  BY <1>1
<1>4. QED
  BY <1>2, <1>3 DEF InTable, hash_tag_equal

\* One add, accepted or refused, of whatever list.
LEMMA AddFilling ==
  ASSUME CInv, SfmInv, Filling, Add
  PROVE  Filling'
<1>1. ListOK /\ IndInv /\ TabOK /\ client # "transHello"
  BY DEF CInv, IndInv, ListOK
<1>2. /\ pc = "adding" /\ order # <<>> /\ order' = Tail(order) /\ conf' = conf
      /\ errs' = errs \cup ({ret'} \ {"ok"})
  BY DEF Add
<1> PICK m : m = Head(order)
  OBVIOUS
<1>3. PICK pad \in Pads, behind \in BOOLEAN : AddStream(Received(m, pad, behind))
  BY <1>1 DEF Add
<1> DEFINE r == Received(m, pad, behind)
<1>4. m \in 1 .. Len(conf) /\ r \in Request /\ r.tag = conf[m].tag /\ r.trigger = conf[m].trigger
  BY <1>1, <1>2, ReceivedFacts
<1>5. /\ Len(order) \in Nat /\ Len(order) > 0 /\ Len(order') = Len(order) - 1 /\ m = order[1]
      /\ \A i \in 1 .. Len(order) - 1 : order'[i] = order[i + 1]
  <2>1. Len(conf) \in Nat /\ order \in Seq(1 .. Len(conf))
    BY <1>1 DEF ListOK
  <2>2. QED
    BY <1>2, <2>1, TailFacts
<1> DEFINE k == BucketOf[r.tag]
           e == [tag |-> r.tag, tticks |-> r.trigger, count |-> r.count,
                 sid |-> NewSid(r), sfm |-> SfmAfterStart(r)]
<1>6. k \in Buckets /\ AddStream(r) /\ e \in Entry
  <2>1. r.tag \in Tags /\ r.trigger \in Nat /\ r.count \in Nat
    BY <1>4 DEF Request
  <2>2. NewSid(r) \in Nat /\ SfmAfterStart(r) \in Nat
    <3> HIDE DEF r
    <3>1. QED
      BY <1>1, <1>4, NewSidFacts
  <2>3. QED
    BY <1>3, <2>1, <2>2, TagsAssumption DEF Entry
<1> HIDE DEF r
<1>7. sfm' = sfm /\ (tab' = tab \/ AddOk(r))
  BY <1>6 DEF AddStream, AddBadCount, AddSame, AddNoRoom, AddNoMem, AddOk, Table
<1>8. AddOk(r) => tab' = [tab EXCEPT ![k] = <<e>> \o tab[k]]
  BY DEF AddOk
<1> DEFINE tag == r.tag
<1>9. e.tag = r.tag /\ e.tticks = r.trigger
  OBVIOUS
<1> HIDE DEF k, e
<1>10. /\ \A b \in Buckets : \A i \in DOMAIN tab[b] : \E l \in DOMAIN tab'[b] : tab'[b][l] = tab[b][i]
       /\ \A b \in Buckets : \A i \in DOMAIN tab'[b] :
            tab'[b][i] = e \/ \E l \in DOMAIN tab[b] : tab'[b][i] = tab[b][l]
       /\ AddOk(r) => 1 \in DOMAIN tab'[k] /\ tab'[k][1] = e
  <2>1. CASE tab' = tab /\ ~AddOk(r)
    BY <2>1
  <2>2. CASE AddOk(r)
    BY <1>1, <1>6, <1>8, <2>2, PlacesAfterAdd
  <2>3. QED
    BY <1>7, <2>1, <2>2
<1>11. FromList'
  <2> SUFFICES ASSUME NEW b \in Buckets, NEW i \in DOMAIN tab'[b]
               PROVE  \E j \in 1 .. Len(conf) : tab'[b][i].tticks = conf[j].trigger
    BY <1>2 DEF FromList
  <2>1. CASE tab'[b][i] = e
    BY <1>4, <1>9, <2>1
  <2>2. CASE \E l \in DOMAIN tab[b] : tab'[b][i] = tab[b][l]
    BY <1>2, <2>2 DEF Filling, FromList
  <2>3. QED
    BY <1>10, <2>1, <2>2
<1>12. ASSUME errs' \subseteq {"EEXIST"} PROVE InTable(m)'
  <2>1. ret' \in {"ok", "EEXIST"}
    BY <1>2, <1>12
  <2>2. CASE AddOk(r)
    BY <1>2, <1>4, <1>9, <1>10, <2>2 DEF InTable, hash_tag_equal, k
  <2>3. CASE AddSame(r)
    <3>1. Lookup(r.tag) # 0 /\ tab' = tab
      BY <2>3 DEF AddSame, SameEntry, Table
    <3>2. r.tag \in Tags
      BY <1>4 DEF Request
    <3>3. \E i \in DOMAIN tab[k] : hash_tag_equal(tab[k][i].tag, r.tag)
      BY <1>1, <3>1, <3>2, LookupFacts DEF k
    <3>4. QED
      BY <1>2, <1>4, <3>1, <3>3 DEF InTable, hash_tag_equal, k
  <2>4. QED
    BY <1>6, <2>1, <2>2, <2>3 DEF AddStream, AddBadCount, AddNoRoom, AddNoMem
<1>13. AllInTable'
  <2> SUFFICES ASSUME errs' \subseteq {"EEXIST"}, NEW j \in 1 .. Len(conf), ~InTable(j)'
               PROVE  Waits(j)'
    BY <1>2 DEF AllInTable
  <2>1. j # m
    BY <1>12
  <2>2. conf[j].tag \in Tags
    <3>1. conf[j] \in Stream
      BY <1>1 DEF ListOK
    <3>2. QED
      BY <3>1 DEF Stream
  <2>3. ~InTable(j)
    BY <1>1, <1>2, <1>10, <2>2, KeptInTable
  <2>4. PICK i \in 1 .. Len(order) : order[i] = j
    BY <1>2, <2>3 DEF Filling, AllInTable, Waits
  <2>5. i # 1 /\ i - 1 \in 1 .. Len(order) - 1 /\ (i - 1) + 1 = i
    BY <1>5, <2>1, <2>4
  <2>6. order'[i - 1] = j
    BY <1>5, <2>4, <2>5
  <2>7. QED
    BY <1>5, <2>5, <2>6 DEF Waits
<1>14. QED
  BY <1>2, <1>7, <1>11, <1>13 DEF Filling

\* The stream added next is new to the table; it gets the ring and the fetch entry of its position.
LEMMA ApplyNew ==
  ASSUME CInv, Applying, InOrder(client, conf), pc = "adding", errs \subseteq {"EEXIST"}, order # <<>>,
         NEW pad, NEW behind
  PROVE  LET n == Added
             r == Received(Head(order), pad, behind)
         IN  /\ n \in Nat /\ n < Len(conf) /\ Len(order) = Len(conf) - n
             /\ r \in Request /\ r.tag = conf[n + 1].tag
             /\ r.trigger = conf[n + 1].trigger /\ r.count = conf[n + 1].count
             /\ Lookup(r.tag) = 0
             /\ SidAfterStart(r) = n /\ SfmAfterStart(r) = n
<1> DEFINE n == Added
           r == Received(Head(order), pad, behind)
<1>1. /\ ToldApart(conf) /\ Len(order) <= Len(conf) /\ (client = "tadma_prog" => Len(conf) <= 256)
      /\ \A i \in 1 .. Len(order) : order[i] = n + i
      /\ n > 0 => getSid = n /\ getSfm = n
      /\ Holds(n)
  BY DEF Applying
<1>2. ListOK /\ IndInv /\ Len(conf) \in Nat /\ order \in Seq(1 .. Len(conf)) /\ client # "transHello"
  BY DEF CInv, ListOK
<1>3. Len(order) \in Nat /\ Len(order) > 0 /\ Head(order) = order[1]
  BY <1>2, TailFacts
<1>4. n \in Nat /\ n < Len(conf) /\ Len(order) = Len(conf) - n
  BY <1>1, <1>2, <1>3 DEF Added
<1>5. Head(order) = n + 1
  BY <1>1, <1>3
<1> HIDE DEF n
<1>6. /\ r \in Request
      /\ r = [tag |-> conf[n + 1].tag, trigger |-> conf[n + 1].trigger, count |-> conf[n + 1].count,
              start |-> StartOf(n + 1)]
  BY <1>2, <1>5, ReceivedFacts
<1>7. StartOf(n + 1) <=> n = 0
  <2>1. CASE client # "tadma_prog"
    BY <1>4, <2>1 DEF StartOf
  <2>2. CASE client = "tadma_prog"
    <3>1. n \in 0 .. 255
      BY <1>1, <1>2, <1>4, <2>2
    <3>2. (n + 1) - 1 = n /\ n % 256 = n
      BY <3>1
    <3>3. QED
      BY <2>2, <3>2 DEF StartOf
  <2>3. QED
    BY <2>1, <2>2
<1>8. /\ r.tag = conf[n + 1].tag /\ r.trigger = conf[n + 1].trigger /\ r.count = conf[n + 1].count
      /\ r.start = StartOf(n + 1)
  BY <1>6
<1> HIDE DEF r
<1>9. Lookup(r.tag) = 0
  <2> DEFINE t == r.tag
             k == BucketOf[t]
             i == Lookup(t)
  <2>1. t \in Tags /\ k \in Buckets /\ TabOK
    BY <1>2, <1>6, TagsAssumption DEF Request, IndInv
  <2> SUFFICES ASSUME i # 0 PROVE FALSE
    OBVIOUS
  <2>2. i \in DOMAIN tab[k] /\ hash_tag_equal(tab[k][i].tag, t)
    BY <2>1, LookupFacts
  <2> HIDE DEF i, k
  <2>2a. PICK j \in 1 .. n : tab[k][i] = EntryFor(j)
    BY <1>1, <2>1, <2>2 DEF Holds
  <2>3. tab[k][i].tag = conf[j].tag
    BY <2>2a DEF EntryFor
  <2>4. hash_tag_equal(conf[j].tag, conf[n + 1].tag)
    BY <1>8, <2>2, <2>3
  <2>5. j \in 1 .. Len(conf) /\ j # n + 1 /\ n + 1 \in 1 .. Len(conf)
    BY <1>2, <1>4
  <2>6. QED
    BY <1>1, <2>4, <2>5 DEF ToldApart
<1>10. SidAfterStart(r) = n /\ SfmAfterStart(r) = n
  <2>1. CASE n = 0
    BY <1>7, <1>8, <2>1 DEF SidAfterStart, SfmAfterStart
  <2>2. CASE n > 0
    <3>1. ~(n = 0)
      BY <1>4, <2>2
    <3>2. ~r.start
      BY <1>7, <1>8, <3>1, Zenon
    <3>3. QED
      BY <1>1, <2>2, <3>2 DEF SidAfterStart, SfmAfterStart
  <2>3. QED
    BY <1>4, <2>1, <2>2
<1>11. QED
  BY <1>4, <1>6, <1>8, <1>9, <1>10 DEF n, r

\* With the entry of position n + 1 in front of its bucket the table holds n + 1 positions.
LEMMA HoldsMore ==
  ASSUME TabOK, NEW n \in Nat, n < Len(conf), conf \in Seq(Stream), conf' = conf, Holds(n),
         tab' = [tab EXCEPT ![BucketOf[conf[n + 1].tag]] =
                   <<EntryFor(n + 1)>> \o tab[BucketOf[conf[n + 1].tag]]]
  PROVE  /\ \A b \in Buckets : \A i \in DOMAIN tab'[b] :
              \E j \in 1 .. (n + 1) : tab'[b][i] = EntryFor(j) /\ b = BucketOf[conf[j].tag]
         /\ \A j \in 1 .. (n + 1) : \E b \in Buckets : \E i \in DOMAIN tab'[b] :
              tab'[b][i] = EntryFor(j)
         /\ \A b, c \in Buckets : \A i \in DOMAIN tab'[b] : \A l \in DOMAIN tab'[c] :
              tab'[b][i].sfm = tab'[c][l].sfm => b = c /\ i = l
<1> DEFINE k == BucketOf[conf[n + 1].tag]
           e == EntryFor(n + 1)
<1>1. n + 1 \in 1 .. Len(conf) /\ Len(conf) \in Nat
  OBVIOUS
<1>2. conf[n + 1] \in Stream
  BY <1>1
<1>3. k \in Buckets
  BY <1>2, TagsAssumption DEF Stream
<1>4. e \in Entry /\ e.sfm = n
  BY <1>2 DEF EntryFor, Entry, Stream
<1>5. tab' = [tab EXCEPT ![k] = <<e>> \o tab[k]]
  OBVIOUS
<1>6. e = EntryFor(n + 1) /\ k = BucketOf[conf[n + 1].tag]
  OBVIOUS
<1> HIDE DEF k, e
<1>7. /\ 1 \in DOMAIN tab'[k] /\ tab'[k][1] = e
      /\ \A b \in Buckets : \A i \in DOMAIN tab'[b] :
           \/ b = k /\ i = 1 /\ tab'[b][i] = e
           \/ b = k /\ i - 1 \in DOMAIN tab[b] /\ i \in Int /\ tab'[b][i] = tab[b][i - 1]
           \/ b # k /\ i \in DOMAIN tab[b] /\ tab'[b][i] = tab[b][i]
      /\ \A b \in Buckets : \A i \in DOMAIN tab[b] :
           \E l \in DOMAIN tab'[b] : tab'[b][l] = tab[b][i]
  BY <1>3, <1>4, <1>5, PlacesAfterAdd
<1>8. \A j \in 1 .. n : j \in 1 .. (n + 1)
  OBVIOUS
<1>9. ASSUME NEW b \in Buckets, NEW i \in DOMAIN tab[b]
      PROVE  /\ \E j \in 1 .. (n + 1) : tab[b][i] = EntryFor(j) /\ b = BucketOf[conf[j].tag]
             /\ tab[b][i].sfm # n
  <2>1. PICK j \in 1 .. n : tab[b][i] = EntryFor(j) /\ b = BucketOf[conf[j].tag]
    BY DEF Holds
  <2>2. tab[b][i].sfm = j - 1
    BY <2>1 DEF EntryFor
  <2>3. QED
    BY <1>8, <2>1, <2>2
<1>10. ASSUME NEW b \in Buckets, NEW i \in DOMAIN tab'[b]
       PROVE  \E j \in 1 .. (n + 1) : tab'[b][i] = EntryFor(j) /\ b = BucketOf[conf[j].tag]
  <2>1. CASE b = k /\ i = 1 /\ tab'[b][i] = e
    <3>1. n + 1 \in 1 .. (n + 1)
      OBVIOUS
    <3>2. QED
      BY <1>6, <2>1, <3>1
  <2>2. CASE b = k /\ i - 1 \in DOMAIN tab[b] /\ i \in Int /\ tab'[b][i] = tab[b][i - 1]
    <3> DEFINE m == i - 1
    <3>1. m \in DOMAIN tab[b] /\ tab'[b][i] = tab[b][m]
      BY <2>2
    <3> HIDE DEF m
    <3>2. QED
      BY <1>9, <3>1
  <2>3. CASE b # k /\ i \in DOMAIN tab[b] /\ tab'[b][i] = tab[b][i]
    BY <1>9, <2>3
  <2>4. QED
    BY <1>7, <2>1, <2>2, <2>3
<1>11. ASSUME NEW j \in 1 .. (n + 1)
       PROVE  \E b \in Buckets : \E i \in DOMAIN tab'[b] : tab'[b][i] = EntryFor(j)
  <2>1. CASE j = n + 1
    BY <1>3, <1>6, <1>7, <2>1
  <2>2. CASE j # n + 1
    <3>1. j \in 1 .. n
      BY <2>2
    <3>2. PICK b \in Buckets : \E i \in DOMAIN tab[b] : tab[b][i] = EntryFor(j)
      BY <3>1 DEF Holds
    <3>3. PICK i \in DOMAIN tab[b] : tab[b][i] = EntryFor(j)
      BY <3>2
    <3>4. PICK l \in DOMAIN tab'[b] : tab'[b][l] = tab[b][i]
      BY <1>7
    <3>5. tab'[b][l] = EntryFor(j)
      BY <3>3, <3>4
    <3>6. QED
      BY <3>5
  <2>3. QED
    BY <2>1, <2>2
<1>12. ASSUME NEW b \in Buckets, NEW c \in Buckets, NEW i \in DOMAIN tab'[b], NEW l \in DOMAIN tab'[c],
              tab'[b][i].sfm = tab'[c][l].sfm
       PROVE  b = c /\ i = l
  <2>1. \A d \in Buckets : \A m \in DOMAIN tab'[d] :
          \/ d = k /\ m = 1 /\ tab'[d][m].sfm = n
          \/ /\ d = k /\ m - 1 \in DOMAIN tab[d] /\ m \in Int /\ tab'[d][m] = tab[d][m - 1]
             /\ tab'[d][m].sfm # n
          \/ d # k /\ m \in DOMAIN tab[d] /\ tab'[d][m] = tab[d][m] /\ tab'[d][m].sfm # n
    <3> SUFFICES ASSUME NEW d \in Buckets, NEW m \in DOMAIN tab'[d]
                 PROVE  \/ d = k /\ m = 1 /\ tab'[d][m].sfm = n
                        \/ /\ d = k /\ m - 1 \in DOMAIN tab[d] /\ m \in Int /\ tab'[d][m] = tab[d][m - 1]
                           /\ tab'[d][m].sfm # n
                        \/ d # k /\ m \in DOMAIN tab[d] /\ tab'[d][m] = tab[d][m] /\ tab'[d][m].sfm # n
      OBVIOUS
    <3>1. CASE d = k /\ m = 1 /\ tab'[d][m] = e
      BY <1>4, <3>1
    <3>2. CASE d = k /\ m - 1 \in DOMAIN tab[d] /\ m \in Int /\ tab'[d][m] = tab[d][m - 1]
      <4>1. tab[d][m - 1].sfm # n
        BY <1>9, <3>2
      <4>2. QED
        BY <3>2, <4>1
    <3>3. CASE d # k /\ m \in DOMAIN tab[d] /\ tab'[d][m] = tab[d][m]
      BY <1>9, <3>3
    <3>4. \/ d = k /\ m = 1 /\ tab'[d][m] = e
          \/ d = k /\ m - 1 \in DOMAIN tab[d] /\ m \in Int /\ tab'[d][m] = tab[d][m - 1]
          \/ d # k /\ m \in DOMAIN tab[d] /\ tab'[d][m] = tab[d][m]
      BY <1>7
    <3>5. QED
      BY <3>1, <3>2, <3>3, <3>4, Zenon
  <2>2. \A d, f \in Buckets : \A m \in DOMAIN tab[d] : \A q \in DOMAIN tab[f] :
          tab[d][m].sfm = tab[f][q].sfm => d = f /\ m = q
    BY DEF Holds
  <2>3. CASE tab'[b][i].sfm = n
    <3>1. b = k /\ i = 1
      BY <2>1, <2>3, Zenon
    <3>2. tab'[c][l].sfm = n
      BY <1>12, <2>3, Zenon
    <3>3. c = k /\ l = 1
      BY <2>1, <3>2, Zenon
    <3>4. QED
      BY <3>1, <3>3
  <2>4. CASE tab'[b][i].sfm # n
    <3>1. \/ b = k /\ i - 1 \in DOMAIN tab[b] /\ i \in Int /\ tab'[b][i] = tab[b][i - 1]
          \/ b # k /\ i \in DOMAIN tab[b] /\ tab'[b][i] = tab[b][i]
      BY <2>1, <2>4
    <3>2. \/ c = k /\ l - 1 \in DOMAIN tab[c] /\ l \in Int /\ tab'[c][l] = tab[c][l - 1]
          \/ c # k /\ l \in DOMAIN tab[c] /\ tab'[c][l] = tab[c][l]
      BY <1>12, <2>1, <2>4
    <3>2a. PICK p \in DOMAIN tab[b] : /\ tab'[b][i] = tab[b][p]
                                      /\ p = IF b = k THEN i - 1 ELSE i
      BY <3>1
    <3>2b. PICK q \in DOMAIN tab[c] : /\ tab'[c][l] = tab[c][q]
                                      /\ q = IF c = k THEN l - 1 ELSE l
      BY <3>2
    <3>2c. tab[b][p].sfm = tab[c][q].sfm
      BY <1>12, <3>2a, <3>2b
    <3>3. b = c /\ p = q
      BY <2>2, <3>2c
    <3>4. CASE b # k
      BY <3>2a, <3>2b, <3>3, <3>4
    <3>5. CASE b = k
      <4>1. i - 1 = l - 1
        BY <3>2a, <3>2b, <3>3, <3>5
      <4>2. QED
        BY <3>1, <3>2, <3>3, <3>5, <4>1
    <3>6. QED
      BY <3>4, <3>5
  <2>5. QED
    BY <2>3, <2>4
<1>13. QED
  BY <1>10, <1>11, <1>12

LEMMA AddForce ==
  ASSUME ForceInv, Add
  PROVE  ForceInv'
<1>1. CInv' /\ CInv /\ ListOK /\ IndInv /\ SfmInv /\ Applying
  BY AddInv DEF ForceInv, CInv
<1>2. /\ pc = "adding" /\ order # <<>> /\ order' = Tail(order) /\ client' = client /\ conf' = conf
      /\ errs' = errs \cup ({ret'} \ {"ok"}) /\ pc' \in {"adding", "failed"}
  BY DEF Add
<1>3. client # "transHello"
  BY <1>1 DEF ListOK
<1>4. PICK pad \in Pads, behind \in BOOLEAN : AddStream(Received(Head(order), pad, behind))
  BY <1>3 DEF Add
<1> DEFINE r == Received(Head(order), pad, behind)
<1>5. r \in Request
  BY <1>1, <1>2, <1>3, ReceivedFacts
<1>6. AddStream(r)
  BY <1>4
<1>7. SfmInv'
  <2> HIDE DEF r
  <2>1. QED
    BY <1>1, <1>5, <1>6, AddKeepsSfm
<1>8. sfm' = sfm
  <2> HIDE DEF r
  <2>1. QED
    BY <1>6 DEF AddStream, AddBadCount, AddSame, AddNoRoom, AddNoMem, AddOk, Table
<1>9. InForce' /\ OffServesEverything' /\ Filling'
  BY <1>2, NotDoneNext, AddFilling DEF OffServesEverything, ForceInv, CInv
<1>10. ASSUME errs' \subseteq {"EEXIST"}, InOrder(client, conf) PROVE Applying'
  <2> DEFINE n == Added
  <2>1. errs \subseteq {"EEXIST"} /\ ret' \in {"ok", "EEXIST"}
    BY <1>2, <1>10
  <2>2. /\ n \in Nat /\ n < Len(conf) /\ Len(order) = Len(conf) - n
        /\ r.tag = conf[n + 1].tag
        /\ r.trigger = conf[n + 1].trigger /\ r.count = conf[n + 1].count
        /\ Lookup(r.tag) = 0
        /\ SidAfterStart(r) = n /\ SfmAfterStart(r) = n
    BY <1>1, <1>2, <1>10, <2>1, ApplyNew
  <2>3. /\ ToldApart(conf) /\ Len(order) <= Len(conf) /\ client # "any"
        /\ (client = "tadma_prog" => Len(conf) <= 256)
        /\ \A i \in 1 .. Len(order) : order[i] = n + i
        /\ Holds(n)
    BY <1>1, <1>2, <1>10, <2>1 DEF Applying
  <2>4. Len(conf) \in Nat /\ order \in Seq(1 .. Len(conf)) /\ conf \in Seq(Stream) /\ TabOK
    BY <1>1 DEF ListOK, IndInv
  <2>5. /\ Len(order) \in Nat /\ Len(order') = Len(order) - 1
        /\ \A i \in 1 .. Len(order) - 1 : order'[i] = order[i + 1]
    BY <1>2, <2>4, TailFacts
  <2> HIDE DEF r
  <2>6. Added' = n + 1
    <3>1. Added' = Len(conf) - Len(order')
      BY <1>2 DEF Added
    <3> HIDE DEF n
    <3>2. QED
      BY <2>2, <2>4, <2>5, <3>1
  <2> HIDE DEF n
  <2>7. NewSid(r) = n /\ SidTaken(r) = n + 1 /\ ~SameEntry(r)
    BY <2>2 DEF NewSid, SidTaken, SameEntry
  <2>8. AddOk(r)
    BY <1>6, <2>1, <2>7 DEF AddStream, AddBadCount, AddSame, AddNoRoom, AddNoMem
  <2>9. getSid' = n + 1 /\ getSfm' = n + 1
    BY <2>2, <2>7, <2>8 DEF AddOk
  <2>10. ASSUME NEW i \in 1 .. Len(order') PROVE order'[i] = (n + 1) + i
    <3>1. i \in 1 .. Len(order) - 1 /\ i + 1 \in 1 .. Len(order) /\ i \in Nat
      BY <2>5, <2>10
    <3>2. order'[i] = order[i + 1] /\ order[i + 1] = n + (i + 1)
      BY <2>3, <2>5, <3>1
    <3>3. n + (i + 1) = (n + 1) + i
      BY <2>2, <3>1
    <3>4. QED
      BY <3>2, <3>3
  <2>11. tab' = [tab EXCEPT ![BucketOf[conf[n + 1].tag]] =
                   <<EntryFor(n + 1)>> \o tab[BucketOf[conf[n + 1].tag]]]
    <3>1. (n + 1) - 1 = n
      BY <2>2
    <3>2. EntryFor(n + 1) = [tag |-> r.tag, tticks |-> r.trigger, count |-> r.count,
                             sid |-> NewSid(r), sfm |-> SfmAfterStart(r)]
      BY <2>2, <2>7, <3>1 DEF EntryFor
    <3>3. QED
      BY <2>2, <2>8, <3>2 DEF AddOk
  <2>12. (Holds(Added))'
    <3>1. /\ \A b \in Buckets : \A i \in DOMAIN tab'[b] :
               \E j \in 1 .. (n + 1) : tab'[b][i] = EntryFor(j) /\ b = BucketOf[conf[j].tag]
          /\ \A j \in 1 .. (n + 1) : \E b \in Buckets : \E i \in DOMAIN tab'[b] :
               tab'[b][i] = EntryFor(j)
          /\ \A b, c \in Buckets : \A i \in DOMAIN tab'[b] : \A l \in DOMAIN tab'[c] :
               tab'[b][i].sfm = tab'[c][l].sfm => b = c /\ i = l
      BY <1>2, <2>2, <2>3, <2>4, <2>11, HoldsMore
    <3> DEFINE A == Added'
    <3>2. A = n + 1
      BY <2>6
    <3> HIDE DEF A
    <3>3. \A b \in Buckets : \A i \in DOMAIN tab'[b] :
            \E j \in 1 .. A : tab'[b][i] = EntryFor(j) /\ b = BucketOf[conf[j].tag]
      BY <3>1, <3>2
    <3>4. \A j \in 1 .. A : \E b \in Buckets : \E i \in DOMAIN tab'[b] : tab'[b][i] = EntryFor(j)
      BY <3>1, <3>2
    <3>5. \A j : EntryFor(j)' = EntryFor(j)
      BY <1>2 DEF EntryFor
    <3>6. QED
      BY <1>2, <3>1, <3>3, <3>4, <3>5 DEF A, Holds
  <2>13. (ToldApart(conf))'
    BY <1>2, <2>3 DEF ToldApart, hash_tag_equal
  <2>14. Len(order') <= Len(conf)
    BY <2>2, <2>4, <2>5
  <2>15. QED
    BY <1>2, <2>3, <2>6, <2>9, <2>10, <2>12, <2>13, <2>14 DEF Applying
<1>11. Applying'
  <2>1. CASE errs' \subseteq {"EEXIST"} /\ InOrder(client, conf)
    BY <1>10, <2>1
  <2>2. CASE ~(errs' \subseteq {"EEXIST"} /\ InOrder(client, conf))
    BY <1>2, <2>2 DEF Applying
  <2>3. QED
    BY <2>1, <2>2
<1>12. QED
  BY <1>1, <1>7, <1>9, <1>11 DEF ForceInv

\* All positions are in the table.
Ready ==
  /\ TabOK /\ conf \in Seq(Stream) /\ ToldApart(conf) /\ Holds(Len(conf))
  /\ Len(conf) > 0 => getSid = Len(conf)

\* A frame of position j then goes into ring j - 1.
LEMMA RingOfStream == Ready => \A j \in 1 .. Len(conf) : GetStrid(conf[j].tag) = j - 1
<1> SUFFICES ASSUME Ready, NEW j \in 1 .. Len(conf) PROVE GetStrid(conf[j].tag) = j - 1
  OBVIOUS
<1>1. TabOK /\ conf \in Seq(Stream) /\ Len(conf) \in Nat /\ Len(conf) > 0 /\ getSid = Len(conf)
  BY DEF Ready
<1> DEFINE n == Len(conf)
           t == conf[j].tag
           k == BucketOf[t]
           m == Lookup(t)
<1>2. conf[j] \in Stream
  BY <1>1
<1>3. t \in Tags /\ k \in Buckets
  BY <1>2, TagsAssumption DEF Stream
<1>4. \A b \in Buckets : \A i \in DOMAIN tab[b] :
        \E l \in 1 .. n : tab[b][i] = EntryFor(l) /\ b = BucketOf[conf[l].tag]
  BY DEF Ready, Holds
<1>5. /\ m # 0 => m \in DOMAIN tab[k] /\ hash_tag_equal(tab[k][m].tag, t)
      /\ m = 0 => \A i \in DOMAIN tab[k] : ~hash_tag_equal(tab[k][i].tag, t)
  BY <1>1, <1>3, LookupFacts
<1> HIDE DEF m, k
<1>6. \E i \in DOMAIN tab[k] : tab[k][i] = EntryFor(j)
  <2>1. PICK b \in Buckets : \E i \in DOMAIN tab[b] : tab[b][i] = EntryFor(j)
    BY DEF Ready, Holds
  <2>2. PICK i \in DOMAIN tab[b] : tab[b][i] = EntryFor(j)
    BY <2>1
  <2>3. PICK l \in 1 .. n : tab[b][i] = EntryFor(l) /\ b = BucketOf[conf[l].tag]
    BY <1>4
  <2>4. EntryFor(j).sid = j - 1 /\ EntryFor(l).sid = l - 1
    BY DEF EntryFor
  <2>5. l = j
    BY <1>1, <2>2, <2>3, <2>4
  <2>6. QED
    BY <2>2, <2>3, <2>5 DEF k
<1>7. m # 0
  <2>1. PICK i \in DOMAIN tab[k] : tab[k][i] = EntryFor(j)
    BY <1>6
  <2>2. hash_tag_equal(tab[k][i].tag, t)
    BY <2>1 DEF EntryFor, hash_tag_equal
  <2>3. QED
    BY <1>5, <2>2
<1>8. m \in DOMAIN tab[k] /\ hash_tag_equal(tab[k][m].tag, t)
  BY <1>5, <1>7
<1>9. PICK l \in 1 .. n : tab[k][m] = EntryFor(l)
  BY <1>3, <1>4, <1>8
<1>10. tab[k][m].tag = conf[l].tag /\ tab[k][m].sid = l - 1
  BY <1>9 DEF EntryFor
<1>11. l = j
  BY <1>8, <1>10 DEF Ready, ToldApart
<1>12. GetStrid(t) = tab[k][m].sid
  BY <1>1, <1>7 DEF GetStrid, m, k
<1>13. QED
  BY <1>10, <1>11, <1>12

LEMMA RingOfStreamNext == Ready' => (\A j \in 1 .. Len(conf) : GetStrid(conf[j].tag) = j - 1)'
  BY RingOfStream, PTL

\* Programming writes position j at fetch entry j - 1, and nothing where no position is.
LEMMA ProgramWrites ==
  ASSUME IndInv, SfmInv, Program, NEW n \in Nat, Holds(n), \A x \in DOMAIN sfm : sfm[x] = NoEntry
  PROVE  /\ \A j \in 1 .. n : /\ j - 1 \in DOMAIN sfm
                              /\ sfm'[j - 1] = SfmValue(j - 1, conf[j].trigger, conf[j].count)
         /\ \A x \in DOMAIN sfm : sfm'[x].valid => x + 1 \in 1 .. n
<1>1. ASSUME NEW j \in 1 .. n
      PROVE  /\ j - 1 \in DOMAIN sfm
             /\ sfm'[j - 1] = SfmValue(j - 1, conf[j].trigger, conf[j].count)
  <2>1. PICK b \in Buckets : \E i \in DOMAIN tab[b] : tab[b][i] = EntryFor(j)
    BY DEF Holds
  <2>2. PICK i \in DOMAIN tab[b] : tab[b][i] = EntryFor(j)
    BY <2>1
  <2> DEFINE x == j - 1
             p == <<b, i>>
             here == {q \in Places : At(q).sfm = x}
  <2>3. tab[b][i].sfm = x /\ tab[b][i].tticks = conf[j].trigger /\ tab[b][i].count = conf[j].count
    BY <2>2 DEF EntryFor
  <2>4. x \in DOMAIN sfm
    <3>1. tab[b][i].sfm < NumEntries
      BY DEF IndInv, IndicesInRange
    <3>2. QED
      BY <2>3, <3>1, SizesAssumption DEF SfmInv
  <2>5. p \in here /\ At(p) = tab[b][i]
    BY <2>3, PlacesFacts
  <2>6. ASSUME NEW q \in here PROVE q = p
    <3>1. q \in Places /\ At(q).sfm = x
      OBVIOUS
    <3>2. PICK c \in Buckets : \E l \in DOMAIN tab[c] : q = <<c, l>> /\ At(q) = tab[c][l]
      BY <3>1, PlacesFacts
    <3>3. PICK l \in DOMAIN tab[c] : q = <<c, l>> /\ At(q) = tab[c][l]
      BY <3>2
    <3>4. tab[c][l].sfm = tab[b][i].sfm
      BY <2>3, <3>1, <3>3
    <3>5. b = c /\ i = l
      BY <3>4 DEF Holds
    <3>6. QED
      BY <3>3, <3>5
  <2>7. sfm'[x] = LET last == CHOOSE r \in here : \A q \in here : q = r \/ Before(q, r)
                  IN  IF here = {} THEN sfm[x] ELSE SfmValue(x, At(last).tticks, At(last).count)
    <3> HIDE DEF x
    <3>1. QED
      BY <2>4 DEF Program
  <2> HIDE DEF here, p, x
  <2> DEFINE last == CHOOSE r \in here : \A q \in here : q = r \/ Before(q, r)
  <2>8. here # {} /\ \A q \in here : q = p \/ Before(q, p)
    BY <2>5, <2>6
  <2>9. last = p
    <3>1. last \in here
      BY <2>5, <2>8
    <3>2. QED
      BY <2>6, <3>1
  <2> HIDE DEF last
  <2>10. sfm'[x] = SfmValue(x, At(last).tticks, At(last).count)
    BY <2>7, <2>8 DEF last
  <2>11. QED
    BY <2>3, <2>4, <2>5, <2>9, <2>10 DEF x
<1>2. ASSUME NEW x \in DOMAIN sfm, sfm'[x].valid PROVE x + 1 \in 1 .. n
  <2> DEFINE here == {q \in Places : At(q).sfm = x}
  <2>1. CASE here = {}
    <3>1. sfm'[x] = NoEntry
      BY <2>1 DEF Program
    <3>2. QED
      BY <1>2, <3>1 DEF NoEntry
  <2>2. CASE here # {}
    <3>1. PICK q \in Places : At(q).sfm = x
      BY <2>2
    <3>2. PICK c \in Buckets : \E l \in DOMAIN tab[c] : q = <<c, l>> /\ At(q) = tab[c][l]
      BY <3>1, PlacesFacts
    <3>3. PICK l \in DOMAIN tab[c] : q = <<c, l>> /\ At(q) = tab[c][l]
      BY <3>2
    <3>4. PICK j \in 1 .. n : tab[c][l] = EntryFor(j)
      BY DEF Holds
    <3>5. x = j - 1
      BY <3>1, <3>3, <3>4 DEF EntryFor
    <3>6. QED
      BY <3>5
  <2>3. QED
    BY <2>1, <2>2
<1>3. QED
  BY <1>1, <1>2

\* Sets of naturals have a least element, bounded ones a greatest.
LEMMA LeastElement ==
  ASSUME NEW S \in SUBSET Nat, S # {}
  PROVE  \E m \in S : \A x \in S : m <= x
<1>1. \E m \in S : \A x \in S : ~(<<x, m>> \in OpToRel(<, Nat))
  BY WFMin, NatLessThanWellFounded
<1>2. \A x, m \in Nat : x < m => <<x, m>> \in OpToRel(<, Nat)
  BY Zenon DEF OpToRel
<1>3. PICK less : /\ \A x, m \in Nat : x < m => <<x, m>> \in less
                  /\ \E m \in S : \A x \in S : ~(<<x, m>> \in less)
  BY <1>1, <1>2, Zenon
<1>4. PICK m \in S : \A x \in S : ~(<<x, m>> \in less)
  BY <1>3
<1>5. \A x \in S : ~(x < m)
  BY <1>3, <1>4, Zenon
<1>6. QED
  BY <1>5

LEMMA GreatestElement ==
  ASSUME NEW n \in Nat, NEW S \in SUBSET (0 .. n), S # {}
  PROVE  \E m \in S : \A x \in S : x <= m
<1> DEFINE T == {n - x : x \in S}
<1>1. T \in SUBSET Nat /\ T # {}
  <2>1. ASSUME NEW x \in S PROVE n - x \in Nat
    BY <2>1
  <2>2. QED
    BY <2>1
<1>2. PICK t \in T : \A u \in T : t <= u
  <2> HIDE DEF T
  <2>1. QED
    BY <1>1, LeastElement
<1>3. PICK m \in S : t = n - m
  OBVIOUS
<1>4. ASSUME NEW x \in S PROVE x <= m
  <2>1. n - m <= n - x
    BY <1>2, <1>3
  <2>2. QED
    BY <2>1
<1>5. QED
  BY <1>4

\* axienet_tadma_program writes some place last.
LEMMA LastPlace ==
  ASSUME TabOK, NEW here \in SUBSET Places, here # {}
  PROVE  \E p \in here : \A q \in here : q = p \/ Before(q, p)
<1>1. ASSUME NEW q \in here
      PROVE  \E b \in Buckets : \E i \in DOMAIN tab[b] : q = <<b, i>>
  BY PlacesFacts
<1> DEFINE B == {b \in Buckets : \E i \in DOMAIN tab[b] : <<b, i>> \in here}
<1>2. B # {} /\ B \in SUBSET (0 .. NumStreams - 1) /\ NumStreams - 1 \in Nat
  BY <1>1, SizesAssumption DEF Buckets
<1>3. PICK b \in B : \A x \in B : x <= b
  <2> HIDE DEF B
  <2>1. QED
    BY <1>2, GreatestElement
<1> DEFINE I == {i \in DOMAIN tab[b] : <<b, i>> \in here}
<1>4. b \in Buckets /\ Len(tab[b]) \in Nat /\ DOMAIN tab[b] = 1 .. Len(tab[b])
  <2>1. tab[b] \in Seq(Entry)
    BY DEF TabOK
  <2>2. QED
    BY <2>1
<1>5. I # {} /\ I \in SUBSET (0 .. Len(tab[b]))
  <2>1. \E i \in DOMAIN tab[b] : <<b, i>> \in here
    BY <1>3
  <2>2. QED
    BY <1>4, <2>1
<1>6. PICK i \in I : \A x \in I : x <= i
  <2> HIDE DEF I
  <2>1. QED
    BY <1>4, <1>5, GreatestElement
<1> DEFINE p == <<b, i>>
<1>7. p \in here
  OBVIOUS
<1>8. ASSUME NEW q \in here PROVE q = p \/ Before(q, p)
  <2>1. PICK c \in Buckets : \E l \in DOMAIN tab[c] : q = <<c, l>>
    BY <1>1
  <2>2. PICK l \in DOMAIN tab[c] : q = <<c, l>>
    BY <2>1
  <2>3. c \in B /\ c <= b /\ c \in Int /\ b \in Int
    BY <1>2, <1>3, <2>2 DEF Buckets
  <2>4. q[1] = c /\ q[2] = l /\ p[1] = b /\ p[2] = i
    BY <2>2
  <2>5. CASE c < b
    BY <2>4, <2>5 DEF Before
  <2>6. CASE c = b
    <3>1. l \in I /\ l <= i /\ l \in Int /\ i \in Int
      BY <1>4, <1>6, <2>2, <2>6
    <3>2. CASE l = i
      BY <2>2, <2>6, <3>2
    <3>3. CASE l < i
      BY <2>4, <2>6, <3>3 DEF Before
    <3>4. QED
      BY <3>1, <3>2, <3>3
  <2>7. QED
    BY <2>3, <2>5, <2>6
<1>9. QED
  BY <1>7, <1>8

\* Programming an empty fetch memory writes triggers of the list only.
LEMMA ProgramFromList ==
  ASSUME TabOK, Program, FromList, \A x \in DOMAIN sfm : sfm[x] = NoEntry,
         NEW x \in DOMAIN sfm, sfm'[x].valid
  PROVE  \E j \in 1 .. Len(conf) : sfm'[x].ticks = conf[j].trigger \div 8
<1> DEFINE here == {p \in Places : At(p).sfm = x}
           last == CHOOSE p \in here : \A q \in here : q = p \/ Before(q, p)
<1>1. sfm'[x] = IF here = {} THEN sfm[x] ELSE SfmValue(x, At(last).tticks, At(last).count)
  BY DEF Program
<1>2. here # {}
  BY <1>1 DEF NoEntry
<1>3. \E p \in here : \A q \in here : q = p \/ Before(q, p)
  BY <1>2, LastPlace
<1>4. last \in here
  BY <1>3
<1>5. last \in Places
  BY <1>4
<1> HIDE DEF last, here
<1>6. PICK b \in Buckets : \E i \in DOMAIN tab[b] : At(last) = tab[b][i]
  BY <1>5, PlacesFacts
<1>7. PICK j \in 1 .. Len(conf) : At(last).tticks = conf[j].trigger
  BY <1>6 DEF FromList
<1>8. sfm'[x] = SfmValue(x, At(last).tticks, At(last).count)
  BY <1>1, <1>2
<1>9. sfm'[x].ticks = At(last).tticks \div 8
  BY <1>8 DEF SfmValue
<1>10. QED
  BY <1>7, <1>9

\* A stream in the table goes into a ring that exists.
LEMMA RingExists ==
  ASSUME IndInv, NEW t \in Tags, \E i \in DOMAIN tab[BucketOf[t]] : hash_tag_equal(tab[BucketOf[t]][i].tag, t)
  PROVE  GetStrid(t) \in Buckets
<1> DEFINE k == BucketOf[t]
           m == Lookup(t)
<1>1. k \in Buckets /\ TabOK /\ 0 \in Buckets
  BY TagsAssumption, SizesAssumption DEF IndInv, Buckets
<1>2. m # 0 /\ m \in DOMAIN tab[k]
  BY <1>1, LookupFacts
<1>3. tab[k][m].sid \in Nat /\ tab[k][m].sid < NumStreams
  <2>1. tab[k] \in Seq(Entry)
    BY <1>1 DEF TabOK
  <2>2. tab[k][m] \in Entry
    <3> HIDE DEF m, k
    <3>1. QED
      BY <1>2, <2>1
  <2>3. QED
    BY <1>1, <1>2, <2>2 DEF Entry, IndInv, IndicesInRange
<1>4. tab[k][m].sid \in Buckets
  BY <1>3, SizesAssumption DEF Buckets
<1>5. QED
  BY <1>1, <1>2, <1>4 DEF GetStrid, STRID_BE

LEMMA ProgramForce ==
  ASSUME ForceInv, ProgramAll
  PROVE  ForceInv'
<1>1. CInv' /\ CInv /\ ListOK /\ IndInv /\ SfmInv /\ Applying
  BY OtherInv DEF ForceInv, CInv
<1>2. /\ pc = "adding" /\ order = <<>> /\ pc' = "done" /\ Program
      /\ client' = client /\ conf' = conf /\ order' = order /\ errs' = errs
  BY DEF ProgramAll
<1>3. SfmInv'
  BY <1>1, <1>2, IoctlsKeepSfm
<1>4. Applying' /\ OffServesEverything' /\ Filling'
  BY <1>2 DEF Applying, OffServesEverything, Filling
<1>5. ASSUME errs \subseteq {"EEXIST"}, InOrder(client, conf)
      PROVE  OneRingPerStream' /\ TriggeredAsConfigured'
  <2> DEFINE n == Len(conf)
  <2>1. n \in Nat /\ conf \in Seq(Stream)
    BY <1>1 DEF ListOK
  <2>2. Added = n
    BY <1>2, <2>1 DEF Added
  <2>3. /\ ToldApart(conf) /\ (n > 0 => getSid = n) /\ Holds(n)
        /\ \A x \in DOMAIN sfm : sfm[x] = NoEntry
    BY <1>1, <1>2, <1>5, <2>2 DEF Applying, Filling, ForceInv
  <2>4. tab' = tab /\ getSid' = getSid /\ DOMAIN sfm' = DOMAIN sfm
    BY <1>2 DEF Program
  <2>5. Ready'
    <3>1. TabOK' <=> TabOK
      BY <2>4 DEF TabOK
    <3>2. ToldApart(conf)' <=> ToldApart(conf)
      BY <1>2 DEF ToldApart, hash_tag_equal
    <3>3. Holds(Len(conf))' <=> Holds(Len(conf))
      <4>1. \A j : (EntryFor(j))' = EntryFor(j)
        BY <1>2 DEF EntryFor
      <4>2. QED
        BY <1>2, <2>4, <4>1, SMTT(60) DEF Holds
    <3>4. Ready
      BY <1>1, <2>1, <2>3, Zenon DEF Ready, IndInv
    <3>5. QED
      BY <1>2, <2>4, <3>1, <3>2, <3>3, <3>4, Zenon DEF Ready
  <2>6. \A j \in 1 .. n : (GetStrid(conf[j].tag))' = j - 1
    BY <1>2, <2>5, RingOfStreamNext
  <2>7. /\ \A j \in 1 .. n : /\ j - 1 \in DOMAIN sfm
                             /\ sfm'[j - 1] = SfmValue(j - 1, conf[j].trigger, conf[j].count)
        /\ \A x \in DOMAIN sfm : sfm'[x].valid => x + 1 \in 1 .. n
    BY <1>1, <1>2, <2>1, <2>3, ProgramWrites
  <2>8. \A j \in 1 .. n : conf[j].count \in Nat
    <3>1. \A j \in 1 .. n : conf[j] \in Stream
      BY <2>1
    <3>2. QED
      BY <3>1 DEF Stream
  <2>9. OneRingPerStream'
    <3> SUFFICES ASSUME NEW i \in 1 .. n, NEW j \in 1 .. n, i # j
                 PROVE  (GetStrid(conf[i].tag))' # (GetStrid(conf[j].tag))'
      BY <1>2 DEF OneRingPerStream
    <3>1. QED
      BY <2>1, <2>6
  <2>10. TriggeredAsConfigured'
    <3> SUFFICES ASSUME NEW i \in 1 .. n
                 PROVE  \E e \in DOMAIN sfm' :
                          /\ sfm'[e].valid
                          /\ sfm'[e].strId = (GetStrid(conf[i].tag))'
                          /\ sfm'[e].ticks = conf[i].trigger \div 8
                          /\ sfm'[e].cont = (conf[i].count = 0)
                          /\ conf[i].count > 0 => sfm'[e].frames + 1 = conf[i].count
      BY <1>2 DEF TriggeredAsConfigured
    <3> DEFINE e == i - 1
    <3>1. e \in DOMAIN sfm' /\ sfm'[e] = SfmValue(e, conf[i].trigger, conf[i].count)
      BY <2>4, <2>7
    <3>2. (GetStrid(conf[i].tag))' = e
      BY <2>6
    <3> HIDE DEF e
    <3>3. /\ sfm'[e].valid /\ sfm'[e].strId = e /\ sfm'[e].ticks = conf[i].trigger \div 8
          /\ sfm'[e].cont = (conf[i].count = 0)
          /\ sfm'[e].frames = IF conf[i].count > 0 THEN conf[i].count - 1 ELSE conf[i].count
      BY <3>1 DEF SfmValue
    <3>4. conf[i].count > 0 => sfm'[e].frames + 1 = conf[i].count
      BY <2>8, <3>3
    <3>5. QED
      BY <3>1, <3>2, <3>3, <3>4
  <2>11. QED
    BY <2>9, <2>10
<1>6. OneRingPerStream' /\ TriggeredAsConfigured'
  <2>1. CASE errs \subseteq {"EEXIST"} /\ InOrder(client, conf)
    BY <1>5, <2>1
  <2>2. CASE ~(errs \subseteq {"EEXIST"} /\ InOrder(client, conf))
    BY <1>2, <2>2 DEF OneRingPerStream, TriggeredAsConfigured, AppliedInOrder, Applied
  <2>3. QED
    BY <2>1, <2>2
<1>7. TabOK /\ FromList /\ AllInTable /\ \A x \in DOMAIN sfm : sfm[x] = NoEntry
  BY <1>1, <1>2 DEF ForceInv, Filling, IndInv
<1>8. NothingElseTriggered'
  <2> SUFFICES ASSUME NEW x \in DOMAIN sfm, sfm'[x].valid
               PROVE  \E j \in 1 .. Len(conf) : sfm'[x].ticks = conf[j].trigger \div 8
    <3>1. DOMAIN sfm' = DOMAIN sfm
      BY <1>2 DEF Program
    <3>2. QED
      BY <1>2, <3>1 DEF NothingElseTriggered
  <2>1. QED
    BY <1>2, <1>7, ProgramFromList
<1>9. EveryStreamHasARing'
  <2> SUFFICES ASSUME errs \subseteq {"EEXIST"}, NEW j \in 1 .. Len(conf)
               PROVE  (GetStrid(conf[j].tag))' \in Buckets
    BY <1>2 DEF EveryStreamHasARing, Applied
  <2>1. conf[j].tag \in Tags
    <3>1. conf[j] \in Stream
      BY <1>1 DEF ListOK
    <3>2. QED
      BY <3>1 DEF Stream
  <2>2. ~Waits(j)
    BY <1>2 DEF Waits
  <2>3. GetStrid(conf[j].tag) \in Buckets
    BY <1>1, <1>7, <2>1, <2>2, RingExists DEF AllInTable, InTable
  <2>4. tab' = tab /\ getSid' = getSid
    BY <1>2 DEF Program
  <2>5. QED
    BY <1>2, <2>3, <2>4 DEF GetStrid, Lookup, hash_tag_equal
<1>10. QED
  BY <1>1, <1>3, <1>4, <1>6, <1>8, <1>9 DEF ForceInv, InForce

LEMMA OffForce ==
  ASSUME ForceInv, BeginOff \/ ChangeToContinuous \/ AnyIoctl
  PROVE  ForceInv'
<1>1. CInv' /\ CInv /\ ListOK /\ IndInv /\ SfmInv
  BY OtherInv DEF ForceInv, CInv
<1>2. pc' \in {"off", "offDone", "idle"}
  BY <1>1 DEF BeginOff, ChangeToContinuous, AnyIoctl, clientVars, ListOK
<1>3. Applying' /\ InForce' /\ Filling'
  BY <1>2, NotDoneNext DEF Applying, Filling
<1>4. SfmInv'
  <2>1. CASE Program \/ Off \/ FlushStream
    BY <1>1, <2>1, IoctlsKeepSfm
  <2>2. CASE \E r \in [tag : Tags, trigger : Triggers, count : Counts, start : BOOLEAN] : AddStream(r)
    <3>1. PICK r \in [tag : Tags, trigger : Triggers, count : Counts, start : BOOLEAN] : AddStream(r)
      BY <2>2
    <3>2. r \in Request
      BY TagsAssumption DEF Request
    <3>3. QED
      BY <1>1, <3>1, <3>2, AddKeepsSfm
  <2>3. QED
    BY <2>1, <2>2 DEF BeginOff, ChangeToContinuous, AnyIoctl, Next
<1>5. OffServesEverything'
  <2>1. CASE BeginOff \/ AnyIoctl
    BY <1>1, <2>1 DEF BeginOff, AnyIoctl, clientVars, ListOK, OffServesEverything
  <2>2. CASE ChangeToContinuous
    <3>1. Off
      BY <2>2 DEF ChangeToContinuous
    <3>2. STRID_BE \in DOMAIN sfm
      BY <1>1, SizesAssumption DEF SfmInv, STRID_BE
    <3>3. sfm'[STRID_BE] = SfmValue(STRID_BE, NSEC_PER_MSEC, 0) /\ getSid' = 0
      BY <3>1, <3>2 DEF Off
    <3>4. sfm'[STRID_BE].valid /\ sfm'[STRID_BE].cont
      <4>1. /\ SfmValue(STRID_BE, NSEC_PER_MSEC, 0).valid = TRUE
            /\ SfmValue(STRID_BE, NSEC_PER_MSEC, 0).cont = (0 = 0)
        BY Zenon DEF SfmValue
      <4>2. QED
        BY <3>3, <4>1, Zenon
    <3>5. ASSUME NEW t \in Tags PROVE (GetStrid(t))' = STRID_BE
      BY <3>3 DEF GetStrid
    <3>6. QED
      BY <3>4, <3>5 DEF OffServesEverything, STRID_BE
  <2>3. QED
    BY <2>1, <2>2
<1>6. QED
  BY <1>1, <1>3, <1>4, <1>5 DEF ForceInv

LEMMA StutterForce ==
  ASSUME ForceInv, UNCHANGED cvars
  PROVE  ForceInv'
<1>1. CInv'
  BY OtherInv DEF ForceInv
<1>2. /\ tab' = tab /\ sfm' = sfm /\ getSid' = getSid /\ getSfm' = getSfm
      /\ client' = client /\ conf' = conf /\ order' = order /\ errs' = errs /\ pc' = pc
  BY DEF cvars
<1>3. SfmInv'
  BY <1>2 DEF ForceInv, SfmInv, NoStaleTrigger, Places, At, SfmValue
<1>4. Applying'
  <2>1. \A j : EntryFor(j)' = EntryFor(j)
    BY <1>2 DEF EntryFor
  <2>2. Added' = Added
    BY <1>2 DEF Added
  <2>3. (Holds(Added))' <=> Holds(Added)
    BY <1>2, <2>1, <2>2 DEF Holds
  <2>4. (ToldApart(conf))' <=> ToldApart(conf)
    BY <1>2 DEF ToldApart, hash_tag_equal
  <2>5. QED
    BY <1>2, <2>2, <2>3, <2>4 DEF ForceInv, Applying
<1>5. \A t : (GetStrid(t))' = GetStrid(t)
  BY <1>2 DEF GetStrid, Lookup, hash_tag_equal
<1>6. InForce' /\ Filling'
  <2>1. InOrder(client, conf)' <=> InOrder(client, conf)
    BY <1>2 DEF InOrder, ToldApart, Orders, hash_tag_equal
  <2>2. InForce'
    BY <1>2, <1>5, <2>1 DEF ForceInv, InForce, OneRingPerStream, TriggeredAsConfigured,
         NothingElseTriggered, EveryStreamHasARing, AppliedInOrder, Applied
  <2>3. Filling'
    BY <1>2 DEF ForceInv, Filling, FromList, AllInTable, Waits, InTable, hash_tag_equal
  <2>4. QED
    BY <2>2, <2>3
<1>7. OffServesEverything'
  BY <1>2, <1>5 DEF ForceInv, OffServesEverything
<1>8. QED
  BY <1>1, <1>3, <1>4, <1>6, <1>7 DEF ForceInv

\* What a configuration of sendHello or tadma_prog leaves behind, for every table, every hash and all lists
\* of streams, sorted or not (axienet_tadma_add_stream, _program, _flush_stream, _off): every stream has a
\* ring, no trigger is that of an earlier configuration; a list that is in order (InOrder) is in force as
\* configured; and off leads all frames to best effort.
THEOREM ConfigAlwaysInForce ==
  ASSUME KnownPrograms
  PROVE  CSpec => []ConfigInForce
<1>1. CInit => ForceInv
  <2> SUFFICES ASSUME CInit PROVE ForceInv
    OBVIOUS
  <2>1. CInv
    BY CInitInv
  <2>2. pc = "idle" /\ Init
    BY DEF CInit
  <2>3. SfmInv
    <3>1. DOMAIN sfm = 0 .. NumEntries - 1
      BY <2>2 DEF Init
    <3>2. ASSUME NEW x \in DOMAIN sfm, sfm[x].valid PROVE sfm[x] = SfmValue(STRID_BE, NSEC_PER_MSEC, 0)
      BY <2>2, <3>2 DEF Init, NoEntry
    <3>3. QED
      BY <3>1, <3>2 DEF SfmInv, NoStaleTrigger
  <2>4. QED
    BY <2>1, <2>2, <2>3, NotDone DEF ForceInv, Applying, Filling, OffServesEverything
<1>2. ForceInv /\ [CNext]_cvars => ForceInv'
  BY BeginForce, AddForce, ProgramForce, OffForce, StutterForce, Zenon DEF CNext
<1>3. ForceInv => ConfigInForce
  BY DEF ForceInv, InForce, SfmInv, ConfigInForce
<1>4. QED
  BY <1>1, <1>2, <1>3, PTL DEF CSpec

=============================================================================
