----------------------------- MODULE TauMarshall -----------------------------
(***************************************************************************)
(* Marshalling of data sets (tau_marshall.c): a structure in memory is      *)
(* packed into a telegram, and unpacked on the other side, element after    *)
(* element as the data set's description says; elements may be other data   *)
(* sets, and an element of variable size takes its number of items from the *)
(* element before it.                                                       *)
(*                                                                         *)
(* Addresses and byte counts are those of the code, relative to a buffer    *)
(* that is aligned for every type.  An item's value is where it was in the  *)
(* sender's memory (at) and the number it is taken for as a count (n).      *)
(* Telegrams and memory map the address of an item to its size and value.   *)
(* On a big or a little endian machine values are the same, except where    *)
(* size_unmarshall reads a count without converting it: the machine is      *)
(* little endian.                                                           *)
(***************************************************************************)
EXTENDS Integers, Sequences, SequencesExt

CONSTANTS MaTop,      \* data sets of the telegram: sequences of elements [type, size]
          MaInner,    \* the other data sets, by their id; an id that is not there is unknown
          MaComIds,   \* ComIds that the application uses
          MaKnown,    \* those that are in the map
          MaSeeds,    \* the counts in the sender's memory: the low digit of address plus seed
          MaRooms,    \* sizes of the destination buffer
          MaCuts,     \* by how many bytes a telegram may be shorter than the data set
          MaMaxLevel  \* TAU_MAX_DS_LEVEL

VARIABLES maDs,       \* the data set
          maSeed,     \* the sender's memory
          maRoom,     \* the receiver's buffer
          maPc,       \* "new", "ready", "packed", "unpacked"
          maWire,     \* the telegram: [mem, len]
          maDest,     \* the receiver's memory: [mem, len]
          maSize,     \* what tau_calcDatasetSize said
          maCut,      \* history: bytes of the telegram that were left off
          maErr       \* result of the last call

maVars == <<maDs, maSeed, maRoom, maPc, maWire, maDest, maSize, maCut, maErr>>

\* Types: size in the telegram, size and alignment in memory (STRUCT_T has the alignment 1)
MaWidth == [U8 |-> 1, U16 |-> 2, U32 |-> 4, T48 |-> 6, T64 |-> 8, U64 |-> 8]
MaHost == [U8 |-> 1, U16 |-> 2, U32 |-> 4, T48 |-> 8, T64 |-> 8, U64 |-> 8]
MaAlign == [U8 |-> 1, U16 |-> 2, U32 |-> 4, T48 |-> 4, T64 |-> 4, U64 |-> 8]
MaIsBasic(e) == e.type \in DOMAIN MaWidth
MaCounts == {"U8", "U16", "U32"}
\* alignePtr
AlignePtr(a, al) == ((a + al - 1) \div al) * al

\* The sender's memory
MaValue(a) == [at |-> a, n |-> (a + maSeed) % 3]
MaGarbage == [at |-> -1, n |-> 1]
MaRead(mem, a, size) == IF a \in DOMAIN mem /\ mem[a].size = size THEN mem[a].val ELSE MaGarbage
MaPut(mem, items) == [a \in DOMAIN mem \cup DOMAIN items |-> IF a \in DOMAIN items THEN items[a] ELSE mem[a]]
\* findDs; pCachedDS only saves the search
MaUnknown == << >>
FindDs(id) == IF id \in DOMAIN MaInner THEN MaInner[id] ELSE MaUnknown
\* findDSFromComId
FindDSFromComId(comId) == IF comId \in MaKnown THEN maDs ELSE MaUnknown

(***************************************************************************)
(* info: source and destination, the nesting level, the memory written so   *)
(* far, the count, the error                                                *)
(***************************************************************************)
MaInfo(srcEnd, dstEnd) == [src |-> 0, srcEnd |-> srcEnd, dst |-> 0, dstEnd |-> dstEnd, level |-> 0, mem |-> << >>, var |-> 0, err |-> "ok"]
MaItems(info, e) == IF e.size = 0 THEN info.var ELSE e.size
MaGoesOn(info) == info.err = "ok" /\ info.srcEnd > info.src
MaFails(info, e) == [info EXCEPT !.err = e]

\* marshallDs, an element of a basic type: the count is the first item
MaMarshallItem(info, e) ==
  LET n == MaItems(info, e)
      w == MaWidth[e.type]
      h == MaHost[e.type]
      base == IF e.type = "T48" /\ n = 0 THEN info.src ELSE AlignePtr(info.src, MaAlign[e.type]) IN
  IF info.dst + n * w > info.dstEnd THEN MaFails(info, "param")
  ELSE [info EXCEPT !.src = base + n * h, !.dst = @ + n * w,
                    !.var = IF e.type \in MaCounts THEN MaValue(base).n ELSE @,
                    !.mem = MaPut(@, [a \in {info.dst + k * w : k \in 0 .. n - 1} |->
                                        [size |-> w, val |-> MaValue(base + ((a - info.dst) \div w) * h)]])]
\* Mutant: the destination of 64 bit numbers is not aligned.
MaUnmarshallBase64(info, e, n) ==
  IF (e.type \in {"T48", "T64"} /\ n = 0) \/ e.type = "U64" THEN info.dst ELSE AlignePtr(info.dst, MaAlign[e.type])
MaUnmarshallBase(info, e, n) ==
  IF e.type \in {"T48", "T64"} /\ n = 0 THEN info.dst ELSE AlignePtr(info.dst, MaAlign[e.type])
\* unmarshallDs, an element of a basic type: the count is the last item; of several TIMEDATE64 the last one
\* overwrites the others
MaUnmarshallItem(info, wire, e) ==
  LET n == MaItems(info, e)
      w == MaWidth[e.type]
      h == MaHost[e.type]
      base == MaUnmarshallBase(info, e, n)
      last == info.src + (n - 1) * w IN
  IF info.dst + n * w > info.dstEnd THEN MaFails(info, "param")
  ELSE [info EXCEPT !.src = @ + n * w,
                    !.dst = IF e.type = "T64" THEN base + (IF n = 0 THEN 0 ELSE h) ELSE base + n * h,
                    !.var = IF e.type \in MaCounts /\ n > 0 THEN MaRead(wire, last, w).n ELSE @,
                    !.mem = MaPut(@, IF e.type = "T64"
                                     THEN [a \in {base : k \in 1 .. n} |-> [size |-> h, val |-> MaRead(wire, last, w)]]
                                     ELSE [a \in {base + k * h : k \in 0 .. n - 1} |->
                                             [size |-> h, val |-> MaRead(wire, info.src + ((a - base) \div h) * w, w)]])]
\* A small count read in the wrong byte order: more items than any telegram has room for (a bound)
MaHuge == 100
\* size_unmarshall, an element of a basic type: a count of 16 or 32 bits is not converted, a TIMEDATE48 counts
\* 6 bytes and a TIMEDATE64 4
MaSizeItem(info, wire, e) ==
  LET n == MaItems(info, e)
      w == MaWidth[e.type]
      h == CASE e.type = "T48" -> 6 [] e.type = "T64" -> 4 [] OTHER -> MaHost[e.type]
      first == MaRead(wire, info.src, w).n
      one(d, k) == AlignePtr(d, MaAlign[e.type]) + h
      base == AlignePtr(info.dst, IF n = 0 /\ e.type \notin MaCounts THEN 1 ELSE MaAlign[e.type]) IN
  [info EXCEPT !.src = @ + n * w,
               !.dst = IF e.type = "T48" THEN FoldLeft(one, info.dst, [k \in 1 .. n |-> k]) ELSE base + n * h,
               !.var = CASE e.type = "U8" -> first [] e.type \in {"U16", "U32"} -> IF first = 0 THEN 0 ELSE MaHuge [] OTHER -> @]

\* The walk over a data set: op says what is done with an element of a basic type
MaItem(op, info, wire, e) ==
  CASE op = "marshall" -> MaMarshallItem(info, e)
    [] op = "unmarshall" -> MaUnmarshallItem(info, wire, e)
    [] op = "size" -> MaSizeItem(info, wire, e)
RECURSIVE MaWalk(_, _, _, _)
MaNested(op, info, wire, e) ==
  LET outer == info.var
      one(i, k) == IF i.err # "ok" THEN i
                   ELSE IF FindDs(e.type) = MaUnknown THEN MaFails(i, "comid")
                   ELSE [MaWalk(op, i, wire, FindDs(e.type)) EXCEPT !.var = outer] IN
  FoldLeft(one, info, [k \in 1 .. MaItems(info, e) |-> k])
\* marshallDs, unmarshallDs, size_unmarshall: the elements in turn, while there is something to read
MaWalk(op, info, wire, ds) ==
  LET step(i, e) == IF ~MaGoesOn(i) THEN i
                    ELSE IF MaIsBasic(e) THEN MaItem(op, i, wire, e) ELSE MaNested(op, i, wire, e)
      start == [info EXCEPT !.level = @ + 1, !.var = 0]
      end == FoldLeft(step, start, ds) IN
  IF start.level > MaMaxLevel THEN MaFails(start, "state")
  ELSE IF end.err # "ok" THEN end
  ELSE IF end.src > end.srcEnd THEN MaFails(end, "marshalling")
  ELSE [end EXCEPT !.level = @ - 1]

(***************************************************************************)
(* The calls                                                               *)
(***************************************************************************)
\* The size of the sender's structure: the application knows it
MaSourceSize == MaWalk("marshall", MaInfo(1000, 1000), << >>, maDs).src
MaTo(i) == [mem |-> i.mem, len |-> i.dst]
\* tau_initMarshall
MaInitMarshall ==
  /\ maPc = "new" /\ maPc' = "ready" /\ maErr' = "ok"
  /\ UNCHANGED <<maDs, maSeed, maRoom, maWire, maDest, maSize, maCut>>
\* tau_marshall and tau_marshallDs: the data set is looked up by the ComId, or given by its own id
MaPack(ds) ==
  /\ maPc = "ready"
  /\ IF ds = MaUnknown THEN maErr' = "comid" /\ UNCHANGED <<maWire, maPc>>
     ELSE LET i == MaWalk("marshall", MaInfo(MaSourceSize, 64), << >>, ds) IN
          /\ maErr' = i.err /\ maWire' = MaTo(i)
          /\ maPc' = IF i.err = "ok" THEN "packed" ELSE maPc
  /\ UNCHANGED <<maDs, maSeed, maRoom, maDest, maSize, maCut>>
MaMarshall(comId) == MaPack(FindDSFromComId(comId))
MaMarshallDs == MaPack(maDs)
\* The telegram that arrives may be shorter: the sender has fewer elements, or its data set ends earlier
MaShorter ==
  /\ maPc = "packed" /\ maCut = 0 /\ maSize = -1
  /\ \E n \in {c \in MaCuts : c < maWire.len} :
       /\ maCut' = n
       /\ LET len == maWire.len - n
              whole == {a \in DOMAIN maWire.mem : a + maWire.mem[a].size <= len} IN
          maWire' = [mem |-> [a \in whole |-> maWire.mem[a]], len |-> len]
  /\ UNCHANGED <<maDs, maSeed, maRoom, maPc, maDest, maSize, maErr>>
\* tau_unmarshall and tau_unmarshallDs
MaUnpack(ds) ==
  /\ maPc = "packed"
  /\ IF ds = MaUnknown THEN maErr' = "comid" /\ UNCHANGED <<maDest, maPc>>
     ELSE LET i == MaWalk("unmarshall", MaInfo(maWire.len, maRoom), maWire.mem, ds) IN
          maErr' = i.err /\ maDest' = MaTo(i) /\ maPc' = "unpacked"
  /\ UNCHANGED <<maDs, maSeed, maRoom, maWire, maSize, maCut>>
MaUnmarshall(comId) == MaUnpack(FindDSFromComId(comId))
MaUnmarshallDs == MaUnpack(maDs)
\* tau_calcDatasetSize and tau_calcDatasetSizeByComId
MaCalc(ds) ==
  /\ maPc = "packed" /\ maSize = -1 /\ ds # MaUnknown
  /\ maSize' = LET i == MaWalk("size", MaInfo(maWire.len, 0), maWire.mem, ds) IN IF i.err = "ok" THEN i.dst ELSE -2
  /\ UNCHANGED <<maDs, maSeed, maRoom, maPc, maWire, maDest, maCut, maErr>>
MaCalcDatasetSizeByComId(comId) == MaCalc(FindDSFromComId(comId))
MaCalcDatasetSize == MaCalc(maDs)

MaInit ==
  /\ maDs \in MaTop /\ maSeed \in MaSeeds /\ maRoom \in MaRooms /\ maPc = "new"
  /\ maWire = [mem |-> << >>, len |-> 0] /\ maDest = [mem |-> << >>, len |-> 0] /\ maSize = -1 /\ maCut = 0 /\ maErr = "ok"
MaNext ==
  \/ MaInitMarshall \/ MaMarshallDs \/ MaUnmarshallDs \/ MaCalcDatasetSize \/ MaShorter
  \/ \E comId \in MaComIds : MaMarshall(comId) \/ MaUnmarshall(comId) \/ MaCalcDatasetSizeByComId(comId)

(***************************************************************************)
(* Properties                                                              *)
(***************************************************************************)
\* Data sets as the standard has them: a number of items stands in a single integer right before the
\* element it is for, and TIMEDATE64 are not in arrays (unmarshallDs does not unpack those)
MaWellFormed(ds) ==
  \A i \in DOMAIN ds :
    /\ ds[i].size = 0 => i > 1 /\ ds[i - 1].size = 1 /\ ds[i - 1].type \in MaCounts
    /\ ds[i].type = "T64" => ds[i].size = 1
\* Data sets that size_unmarshall measures right: no TIMEDATE of more than 32 bits, no count of more than
\* 8 bits, no variable number of 64 bit items (with zero of them unmarshallDs aligns, size_unmarshall does not)
MaSimple(ds) ==
  \A i \in DOMAIN ds :
    ds[i].type \notin {"T48", "T64"} /\ (ds[i].size = 0 => ds[i].type # "U64" /\ ds[i - 1].type = "U8")
MaAllWellFormed == MaWellFormed(maDs) /\ \A id \in DOMAIN MaInner : MaWellFormed(MaInner[id])
\* What is packed on one side and unpacked on the other is the same structure in memory: every item
\* at the address it was read from and none left out, at any nesting, with any numbers of items; a
\* shorter telegram gives the beginning of it or an error; and where size_unmarshall can measure the data
\* set, the size it tells the receiver to provide is the size that is filled (marshallDs, unmarshallDs).
MaRoundTrip ==
  maPc = "unpacked" /\ maErr = "ok" /\ MaAllWellFormed =>
    /\ \A a \in DOMAIN maDest.mem : maDest.mem[a].val = MaValue(a)
    /\ maCut = 0 => DOMAIN maDest.mem = {maWire.mem[a].val.at : a \in DOMAIN maWire.mem}
    /\ maSize >= 0 /\ MaSimple(maDs) /\ (\A i \in DOMAIN maDs : maDs[i].type \in DOMAIN MaInner => MaSimple(MaInner[maDs[i].type]))
         => maDest.len = maSize
==============================================================================
