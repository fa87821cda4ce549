------------------------------- MODULE Lists -------------------------------
(***************************************************************************)
(* Lists (src/internal/engine/list*.go, server/list_commands.go).  A list  *)
(* is packed (its records one after another), indexed (a table of offsets  *)
(* into the records, with room for more of both) or cold (an offset for    *)
(* every Stride-th record only).  An element is a sequence of bytes and    *)
(* its record the length followed by them.  Every command is compared with *)
(* what it promises on plain sequences.                                    *)
(***************************************************************************)
EXTENDS Typed

CONSTANTS Promote,      \* elements from which a list is indexed (32)
          Stride,       \* records per offset of a cold list (8)
          MinRoom,      \* least room left for records (512)
          NarrowMax,    \* most bytes of records under two-byte offsets (2^16 - 2)
          Doubling,     \* bytes of records from which the room doubles (8 KiB)
          MaxHeadroom,  \* most room left for records (1 MiB)
          Varint,       \* bytes a length may take (10)
          MaxList       \* most bytes of a list (32 MiB)

LOCAL A == INSTANCE Arena WITH GenerationMask <- 1

TooLong == [rep |-> "none"]

Record(v) == <<Len(v)>> \o v

Records(els) == FlattenSeq([i \in DOMAIN els |-> Record(els[i])])

\* Where each record begins.
Starts(els) == [i \in DOMAIN els |-> Len(Records(SubSeq(els, 1, i - 1)))]

\* What is read where no record is.
Corrupt == <<-1>>

RecordAt(heap, pos) ==
  IF pos < 0 \/ pos >= Len(heap) \/ pos + 1 + heap[pos + 1] > Len(heap) THEN Corrupt
  ELSE SubSeq(heap, pos + 2, pos + 1 + heap[pos + 1])

\* n records read one after another from a position.
Walk(heap, pos, n) ==
  FoldLeft(LAMBDA w, i : [at |-> w.at + 1 + Len(RecordAt(heap, w.at)), out |-> Append(w.out, RecordAt(heap, w.at))],
           [at |-> pos, out |-> <<>>], [i \in 1..n |-> i])

OffsetWidth(wide) == IF wide THEN 4 ELSE 2

indexedListWidthForWide(room) == room > NarrowMax + 2

indexedListWidthFor(room) == room > NarrowMax

\* Two bytes keep an offset below NarrowMax + 2.
putListOffset(wide, n) == IF wide THEN n ELSE n % (NarrowMax + 2)

nextListPow2(n) == Min({p \in {Promote * 2^i : i \in 0..8} : p >= n})

LengthBytes(els) == MapThenSumSet(LAMBDA i : Varint + Len(els[i]), DOMAIN els)

Total(v) ==
  CASE v.rep = "packed" -> 4 + Len(v.heap)
    [] v.rep = "indexed" -> 15 + Len(v.table) * OffsetWidth(v.wide) + v.room
    [] v.rep = "cold" -> 11 + Len(v.table) * OffsetWidth(v.wide) + Len(v.heap)

Bounded(v) == IF Total(v) > MaxList THEN TooLong ELSE v

----------------------------------------------------------------------------
\* The three layouts.

Packed(count, heap) ==
  [rep |-> "packed", count |-> count, table |-> <<>>, wide |-> FALSE, room |-> 0, heap |-> heap]

\* The limit is tested on an estimate with lengths of Varint bytes.
encodePackedList(els) ==
  IF 3 + Varint + LengthBytes(els) > MaxList THEN TooLong ELSE Packed(Len(els), Records(els))

appendPackedListRight(v, vals) ==
  IF 3 + Varint + Len(v.heap) + LengthBytes(vals) > MaxList THEN TooLong
  ELSE Packed(v.count + Len(vals), v.heap \o Records(vals))

Indexed(els, cap, room) ==
  [rep |-> "indexed", count |-> Len(els), wide |-> indexedListWidthFor(room), room |-> room, heap |-> Records(els),
   table |-> [i \in 1..cap |-> IF i <= Len(els) THEN putListOffset(indexedListWidthFor(room), Starts(els)[i] + 1) ELSE 0]]

Roomy(used) == used + Max({used \div 4, MinRoom})

encodeIndexedList(els) == Bounded(Indexed(els, nextListPow2(2 * Len(els)), Roomy(Len(Records(els)))))

decodeIndexedList(v) == [i \in 1..v.count |-> RecordAt(v.heap, v.table[i] - 1)]

\* The table and the records are kept as they are, and values follow.
Extended(v, vals, cap, wide, room) ==
  [v EXCEPT !.count = @ + Len(vals), !.wide = wide, !.room = room, !.heap = @ \o Records(vals),
            !.table = [i \in 1..cap |->
                         IF i <= v.count THEN putListOffset(wide, v.table[i])
                         ELSE IF i <= v.count + Len(vals) THEN putListOffset(wide, Len(v.heap) + Starts(vals)[i - v.count] + 1)
                         ELSE 0]]

indexedListLiveBytes(v) == Len(Records(decodeIndexedList(v)))

\* Records that were popped from the left are left behind.
Moved(v, vals, cap, room) ==
  IF indexedListLiveBytes(v) = Len(v.heap) THEN Extended(v, vals, cap, indexedListWidthFor(room), room)
  ELSE Indexed(decodeIndexedList(v) \o vals, cap, room)

Headroom(used) == Max({MinRoom, Min({MaxHeadroom, IF used < Doubling THEN used \div 4 ELSE used})})

growIndexedListRaw(v, vals, count, used) ==
  Bounded(Moved(v, vals, IF count > Len(v.table) THEN nextListPow2(2 * count) ELSE Len(v.table), used + Headroom(used)))

indexedListAppend(v, vals) ==
  IF v.count + Len(vals) <= Len(v.table) /\ Len(v.heap) + Len(Records(vals)) <= v.room
  THEN [inPlace |-> TRUE, val |-> Extended(v, vals, Len(v.table), v.wide, v.room)]
  ELSE [inPlace |-> FALSE, val |-> growIndexedListRaw(v, vals, v.count + Len(vals), indexedListLiveBytes(v) + Len(Records(vals)))]

trimIndexedList(v) ==
  LET t == Moved(v, <<>>, Max({v.count, Promote}), indexedListLiveBytes(v))
  IN IF Total(t) >= Total(v) THEN v ELSE t

\* The records at the end of the heap that are popped from the right are given back.
Reclaimed(v, n) ==
  FoldLeft(LAMBDA used, i : IF v.table[i] + v.heap[v.table[i]] = used THEN v.table[i] - 1 ELSE used,
           Len(v.heap), [j \in 1..n |-> v.count + 1 - j])

PopsInPlace(v, n) == v.rep = "indexed" /\ n > 0 /\ n <= v.count /\ v.count - n >= Promote \div 2

indexedListPop(v, n, left) ==
  IF left
  THEN [v EXCEPT !.count = @ - n, !.table = [i \in DOMAIN @ |-> IF i <= v.count - n THEN @[i + n] ELSE IF i <= v.count THEN 0 ELSE @[i]]]
  ELSE [v EXCEPT !.count = @ - n, !.table = [i \in DOMAIN @ |-> IF i <= v.count - n \/ i > v.count THEN @[i] ELSE 0],
                 !.heap = SubSeq(@, 1, Reclaimed(v, n))]

coldListTableEntries(n) == (n + Stride - 1) \div Stride

encodeColdList(els) ==
  Bounded([rep |-> "cold", count |-> Len(els), wide |-> Len(Records(els)) >= NarrowMax + 2, room |-> 0, heap |-> Records(els),
           table |-> [j \in 1..coldListTableEntries(Len(els)) |->
                        putListOffset(Len(Records(els)) >= NarrowMax + 2, Starts(els)[(j - 1) * Stride + 1])]])

\* From the nearest record below that has an offset.
coldListSeek(v, i) == Walk(v.heap, v.table[(i \div Stride) + 1], i % Stride).at

coldListElement(v, i) == RecordAt(v.heap, coldListSeek(v, i))

coldListRange(v, from, to) == Walk(v.heap, coldListSeek(v, from), to - from + 1).out

decodeColdList(v) == Walk(v.heap, 0, v.count).out

packedListElement(v, i) == Walk(v.heap, 0, i + 1).out[i + 1]

listElementsFromEntry(v) ==
  CASE v.rep = "indexed" -> decodeIndexedList(v)
    [] v.rep = "cold" -> decodeColdList(v)
    [] OTHER -> Walk(v.heap, 0, v.count).out

Nth(v, i) ==
  CASE v.rep = "indexed" -> RecordAt(v.heap, v.table[i + 1] - 1)
    [] v.rep = "cold" -> coldListElement(v, i)
    [] OTHER -> packedListElement(v, i)

----------------------------------------------------------------------------
\* The operations of the store.

Put(d, k, v, at, reply) ==
  IF v.rep = "none" THEN Done(d, Err("size")) ELSE Attempt(publish(d, k, Entry("list", v, Total(v), at)), reply)

Repack(d, k, els, reply) == Put(d, k, encodePackedList(els), d[k].at, reply)

InPlace(d, k, v, reply) == Done([d EXCEPT ![k].val = v], reply)

\* What commands on a list that must exist do first.
OnList(d, k, missing, found) ==
  IF ~isLive(d, k) THEN Done(Purged(d, k), missing)
  ELSE IF d[k].type # "list" THEN WrongType(d)
  ELSE found

Elements(d, k) == IF isLive(d, k) THEN listElementsFromEntry(d[k].val) ELSE <<>>

With(els, vals, left) == IF left THEN Reverse(vals) \o els ELSE els \o vals

Fresh(d, k, els) ==
  Put(d, k, IF Len(els) >= Promote THEN encodeIndexedList(els) ELSE encodePackedList(els), d[k].at, Num(Len(els)))

PushIndexed(d, k, w) ==
  IF w.inPlace THEN InPlace(d, k, w.val, Num(w.val.count))
  ELSE Put(d, k, w.val, d[k].at, IF w.val.rep = "none" THEN Nil ELSE Num(w.val.count))

PushPacked(d, k, w) ==
  IF w.rep = "none" THEN Done(d, Err("size"))
  ELSE IF w.count < Promote THEN Put(d, k, w, d[k].at, Num(w.count))
  ELSE Fresh(d, k, Walk(w.heap, 0, w.count).out)

Push(d, k, vals, left) ==
  IF Has(d, k) /\ d[k].type # "list" THEN WrongType(d)
  ELSE IF Has(d, k) /\ ~left /\ d[k].val.rep = "indexed" THEN PushIndexed(d, k, indexedListAppend(d[k].val, vals))
  ELSE IF Has(d, k) /\ ~left /\ d[k].val.rep = "packed" THEN PushPacked(d, k, appendPackedListRight(d[k].val, vals))
  ELSE Fresh(d, k, With(Elements(d, k), vals, left))

listPush(d, k, vals, left) == Push(Purged(d, k), k, vals, left)

listPushX(d, k, vals, left) ==
  OnList(d, k, Num(0), Repack(d, k, With(Elements(d, k), vals, left), Num(Len(Elements(d, k)) + Len(vals))))

\* The first n from an end, in the order they leave, and the others.
Taken(els, n, left) ==
  IF left THEN SubSeq(els, 1, Min({n, Len(els)})) ELSE SubSeq(Reverse(els), 1, Min({n, Len(els)}))
Kept(els, n, left) ==
  IF left THEN SubSeq(els, n + 1, Len(els)) ELSE SubSeq(els, 1, Len(els) - n)

PopPacked(d, k, els, n, left) ==
  IF n = 0 THEN Done(d, Many(<<>>))
  ELSE IF n >= Len(els) THEN Done(remove(d, k), Many(Taken(els, n, left)))
  ELSE Repack(d, k, Kept(els, n, left), Many(Taken(els, n, left)))

listPop(d, k, n, left) ==
  OnList(d, k, Many(<<>>),
    IF PopsInPlace(d[k].val, n)
    THEN InPlace(d, k, indexedListPop(d[k].val, n, left), Many(Taken(decodeIndexedList(d[k].val), n, left)))
    ELSE PopPacked(d, k, Elements(d, k), n, left))

\* The first key that has a list answers.
executeListMPop(d, keys, n, left) ==
  LET busy == {i \in DOMAIN keys : isLive(d, keys[i])}
      popped == listPop(d, keys[Min(busy)], n, left)
  IN IF busy = {} THEN Done(d, Nil)
     ELSE IF popped.reply[1] = "many" THEN Done(popped.db, <<"many", Min(busy), popped.reply[3]>>)
     ELSE popped

PopReply(done, counted) ==
  IF counted \/ done.reply[1] # "many" THEN done
  ELSE Done(done.db, IF done.reply[3] = <<>> THEN Nil ELSE Bulk(done.reply[3][1]))

\* Reads do not remove what has expired.
Reading(d, k, missing, found) == [OnList(d, k, missing, found) EXCEPT !.db = d]

Counted(n, i) == IF i < 0 THEN i + n ELSE i

InRange(n, i) == Counted(n, i) >= 0 /\ Counted(n, i) < n

ListIndex(d, k, i) ==
  Reading(d, k, Nil, Done(d, IF InRange(d[k].val.count, i) THEN Bulk(Nth(d[k].val, Counted(d[k].val.count, i))) ELSE Nil))

\* The first and the last of a range, or nothing.
normalizeListRange(n, a, b) ==
  LET from == Max({0, Counted(n, a)})
      to == Counted(n, b)
  IN IF to < 0 \/ from >= n \/ from > to THEN <<>> ELSE <<from, Min({to, n - 1})>>

RangeOf(v, range) ==
  CASE range = <<>> -> <<>>
    [] v.rep = "indexed" -> [i \in 1..(range[2] - range[1] + 1) |-> RecordAt(v.heap, v.table[range[1] + i] - 1)]
    [] v.rep = "cold" -> coldListRange(v, range[1], range[2])
    [] OTHER -> SubSeq(listElementsFromEntry(v), range[1] + 1, range[2] + 1)

ListRange(d, k, a, b) ==
  Reading(d, k, Many(<<>>), Done(d, Many(RangeOf(d[k].val, normalizeListRange(d[k].val.count, a, b)))))

ListSet(d, k, els, i, v) ==
  IF ~InRange(Len(els), i) THEN Done(d, Err("index"))
  ELSE Repack(d, k, [els EXCEPT ![Counted(Len(els), i) + 1] = v], OK)

ListTrim(d, k, els, range) ==
  IF range = <<>> THEN Done(remove(d, k), OK) ELSE Repack(d, k, SubSeq(els, range[1] + 1, range[2] + 1), OK)

\* The positions of a value, scanned from the side of the sign of count and up to its size.
Scan(els, v, count) ==
  FoldLeft(LAMBDA found, i : IF els[i] = v /\ (count = 0 \/ Cardinality(found) < (IF count > 0 THEN count ELSE 0 - count))
                             THEN found \cup {i} ELSE found,
           {}, IF count < 0 THEN Reverse([i \in DOMAIN els |-> i]) ELSE [i \in DOMAIN els |-> i])

Dropped(d, k, els, gone) ==
  IF gone = {} THEN Done(d, Num(0))
  ELSE IF gone = DOMAIN els THEN Done(remove(d, k), Num(Cardinality(gone)))
  ELSE Repack(d, k, [j \in 1..(Len(els) - Cardinality(gone)) |->
                       els[CHOOSE i \in DOMAIN els \ gone : Cardinality((1..i) \ gone) = j]], Num(Cardinality(gone)))

ListRemove(d, k, els, count, v) == Dropped(d, k, els, Scan(els, v, count))

ListInsert(d, k, els, pivot, v, after) ==
  IF \A i \in DOMAIN els : els[i] # pivot THEN Done(d, Num(-1))
  ELSE Repack(d, k, InsertAt(els, Min({i \in DOMAIN els : els[i] = pivot}) + after, v), Num(Len(els) + 1))

\* rank < 0 searches from the end; most = -1 is a search without COUNT and 0 one for all.
ListPos(els, v, rank, most, maxLen) ==
  FoldLeft(LAMBDA s, i :
             IF s.stop \/ (maxLen > 0 /\ s.scanned >= maxLen) THEN [s EXCEPT !.stop = TRUE]
             ELSE IF els[i] # v THEN [s EXCEPT !.scanned = @ + 1]
             ELSE IF s.seen + 1 < (IF rank > 0 THEN rank ELSE 0 - rank) THEN [s EXCEPT !.scanned = @ + 1, !.seen = @ + 1]
             ELSE [scanned |-> s.scanned + 1, seen |-> s.seen + 1, out |-> Append(s.out, i - 1),
                   stop |-> most = -1 \/ (most > 0 /\ Len(s.out) + 1 >= most)],
           [scanned |-> 0, seen |-> 0, out |-> <<>>, stop |-> FALSE],
           IF rank > 0 THEN [i \in DOMAIN els |-> i] ELSE Reverse([i \in DOMAIN els |-> i])).out

PosReply(out, most) == IF most # -1 THEN Many(out) ELSE IF out = <<>> THEN Nil ELSE Num(out[1])

----------------------------------------------------------------------------

Rotated(d, k, els, fromLeft, toLeft, moved) ==
  IF Len(els) = 1 \/ fromLeft = toLeft THEN Done(d, Bulk(moved))
  ELSE Repack(d, k, With(Kept(els, 1, fromLeft), <<moved>>, toLeft), Bulk(moved))

Packs(v, at) == Entry("list", v, Total(v), at)

Transfer(d, from, to, rest, grown, moved) ==
  IF (rest # <<>> /\ encodePackedList(rest).rep = "none") \/ encodePackedList(grown).rep = "none" THEN Done(d, Err("size"))
  ELSE Attempt(applyPreparedBatchLocked(d, [k \in {from, to} |->
                 IF k = to THEN Packs(encodePackedList(grown), d[to].at)
                 ELSE IF rest = <<>> THEN Gone ELSE Packs(encodePackedList(rest), d[from].at)]), Bulk(moved))

MoveBetween(d, from, to, els, fromLeft, toLeft, moved) ==
  IF Has(d, to) /\ d[to].type # "list" THEN WrongType(d)
  ELSE Transfer(d, from, to, Kept(els, 1, fromLeft), With(Elements(d, to), <<moved>>, toLeft), moved)

ListMove(d, from, to, els, fromLeft, toLeft) ==
  IF from = to THEN Rotated(d, from, els, fromLeft, toLeft, Taken(els, 1, fromLeft)[1])
  ELSE MoveBetween(Purged(d, to), from, to, els, fromLeft, toLeft, Taken(els, 1, fromLeft)[1])

\* RENAME and RENAMENX of a list; with NX an existing destination stays.
RenameList(d, from, to, nx, els) ==
  IF from = to THEN Done(d, Err("same"))
  ELSE IF nx /\ isLive(d, to) THEN Done(d, Num(0))
  ELSE IF encodePackedList(els).rep = "none" THEN Done(Purged(d, to), Err("size"))
  ELSE LET r == Renamed(Purged(d, to), from, to, Packs(encodePackedList(els), d[from].at))
       IN IF nx /\ r.reply = OK THEN Done(r.db, Num(1)) ELSE r

ListReplace(d, k, els) ==
  IF els = <<>> THEN Done(remove(d, k), Num(0)) ELSE Put(d, k, encodePackedList(els), 0, Num(Len(els)))

----------------------------------------------------------------------------
\* A request: op, keys, values, two numbers, and an option.

Inside(d, r, k, els) ==
  CASE r.op = "LLEN" -> Reading(d, k, Num(0), Done(d, Num(d[k].val.count)))
    [] r.op = "LINDEX" -> ListIndex(d, k, r.a)
    [] r.op = "LRANGE" -> ListRange(d, k, r.a, r.b)
    [] r.op = "LSET" -> OnList(d, k, Err("no key"), ListSet(d, k, els, r.a, r.vals[1]))
    [] r.op = "LTRIM" -> OnList(d, k, OK, ListTrim(d, k, els, normalizeListRange(Len(els), r.a, r.b)))
    [] r.op = "LREM" -> OnList(d, k, Num(0), ListRemove(d, k, els, r.a, r.vals[1]))
    [] r.op = "LINSERT" -> OnList(d, k, Num(0), ListInsert(d, k, els, r.vals[1], r.vals[2], IF r.opt = "before" THEN 0 ELSE 1))
    [] r.op = "LPOS" -> Reading(d, k, PosReply(<<>>, r.vals[2][1]),
                                Done(d, PosReply(ListPos(els, r.vals[1], r.a, r.vals[2][1], r.b), r.vals[2][1])))

Execute(d, r) ==
  LET k == r.keys[1]
      els == Elements(d, k)
  IN CASE r.op \in {"LPUSH", "RPUSH"} -> listPush(d, k, r.vals, r.op = "LPUSH")
       [] r.op \in {"LPUSHX", "RPUSHX"} -> listPushX(d, k, r.vals, r.op = "LPUSHX")
       [] r.op \in {"LPOP", "RPOP"} -> PopReply(listPop(d, k, r.a, r.op = "LPOP"), r.opt = "count")
       [] r.op = "LMPOP" -> executeListMPop(d, r.keys, r.a, r.opt = "left")
       [] r.op = "LMOVE" -> OnList(d, k, Nil, ListMove(d, k, r.keys[2], els, r.a = 0, r.b = 0))
       [] r.op = "RENAME" -> OnList(d, k, Err("no key"), RenameList(d, k, r.keys[2], r.opt = "NX", els))
       [] r.op = "REPLACE" -> ListReplace(d, k, r.vals)
       [] r.op \in {"SET", "EXPIRE", "DEL"} -> Plainly(d, r)
       [] OTHER -> Inside(d, r, k, els)

----------------------------------------------------------------------------
\* Compaction: an idle list is trimmed, or made cold where that takes a smaller block.

Colder(v, best) ==
  IF v.count >= Promote /\ encodeColdList(decodeIndexedList(v)).rep # "none"
     /\ A!Block(Total(encodeColdList(decodeIndexedList(v)))) < A!Block(Total(best))
  THEN encodeColdList(decodeIndexedList(v)) ELSE best

CompactKey(d, k) ==
  IF d[k].type # "list" \/ d[k].val.rep # "indexed" THEN d
  ELSE Put(d, k, Colder(d[k].val, trimIndexedList(d[k].val)), d[k].at, OK).db

Compact(d) == FoldLeft(CompactKey, d, SetToSeq(Keys))

----------------------------------------------------------------------------
\* What the commands promise, on sequences.

Visible(d, t) ==
  [k \in Keys |-> IF Has(d, k) /\ ~Expired(d, k, t)
                  THEN Item(d[k].type, IF d[k].type = "list" THEN listElementsFromEntry(d[k].val) ELSE d[k].val, d[k].at)
                  ELSE Missing]

Listed(m, k, missing, found) ==
  IF m[k].type = "none" THEN Wanted(m, missing)
  ELSE IF m[k].type # "list" THEN Wanted(m, Err("wrongtype"))
  ELSE found

To(m, k, els) == [m EXCEPT ![k] = IF els = <<>> THEN Missing ELSE Item("list", els, @.at)]

\* Seen from the left.
Facing(els, left) == IF left THEN els ELSE Reverse(els)

PushWant(m, k, vals, left) ==
  IF m[k].type \notin {"none", "list"} THEN Wanted(m, Err("wrongtype"))
  ELSE Wanted(To(m, k, Facing(Facing(m[k].val, ~left) \o vals, ~left)), Num(Len(m[k].val) + Len(vals)))

PopWant(m, k, n, left, answer(_)) ==
  LET s == Facing(m[k].val, left)
      cut == IF n < Len(s) THEN n ELSE Len(s)
  IN Wanted(To(m, k, Facing(SubSeq(s, cut + 1, Len(s)), left)), answer(SubSeq(s, 1, cut)))

MPopWant(m, keys, n, left) ==
  IF \A i \in DOMAIN keys : m[keys[i]].type = "none" THEN Wanted(m, Nil)
  ELSE LET i == CHOOSE j \in DOMAIN keys : m[keys[j]].type # "none" /\ \A h \in 1..(j - 1) : m[keys[h]].type = "none"
       IN Listed(m, keys[i], Nil, PopWant(m, keys[i], n, left, LAMBDA s : <<"many", i, s>>))

\* The part of a sequence from one index to another, indexes below zero counted from the end.
Part(els, a, b) ==
  LET n == Len(els)
      in == {i \in 1..n : (IF a < 0 THEN i - 1 >= a + n ELSE i - 1 >= a) /\ (IF b < 0 THEN i - 1 <= b + n ELSE i - 1 <= b)}
  IN IF in = {} THEN <<>> ELSE SubSeq(els, Min(in), Max(in))

\* The positions of a value in the order of a search that sees maxLen elements.
PosWant(els, v, rank, most, maxLen) ==
  LET s == Facing([i \in DOMAIN els |-> i - 1], rank > 0)
      hits == SelectSeq(IF maxLen = 0 \/ maxLen > Len(s) THEN s ELSE SubSeq(s, 1, maxLen), LAMBDA i : els[i + 1] = v)
      from == SubSeq(hits, IF rank > 0 THEN rank ELSE 0 - rank, Len(hits))
  IN IF most = 0 \/ Len(from) <= most THEN from ELSE SubSeq(from, 1, IF most = -1 THEN Min({1, Len(from)}) ELSE most)

RemoveWant(m, k, count, v) ==
  LET els == m[k].val
      rank(i) == IF count >= 0 THEN Cardinality({j \in 1..i : els[j] = v}) ELSE Cardinality({j \in i..Len(els) : els[j] = v})
      gone == {i \in DOMAIN els : els[i] = v /\ (count = 0 \/ rank(i) <= (IF count > 0 THEN count ELSE 0 - count))}
  IN Wanted(To(m, k, FoldLeft(LAMBDA s, i : IF i \in gone THEN s ELSE Append(s, els[i]), <<>>, [i \in DOMAIN els |-> i])),
            Num(Cardinality(gone)))

InsertWant(m, k, pivot, v, before) ==
  LET els == m[k].val
      at == SelectInSeq(els, LAMBDA e : e = pivot)
      cut == IF before THEN at - 1 ELSE at
  IN IF at = 0 THEN Wanted(m, Num(-1))
     ELSE Wanted(To(m, k, SubSeq(els, 1, cut) \o <<v>> \o SubSeq(els, cut + 1, Len(els))), Num(Len(els) + 1))

MoveWant(m, from, to, fromLeft, toLeft) ==
  LET popped == PopWant(m, from, 1, fromLeft, LAMBDA s : Bulk(s[1]))
      \* a list of one element that moves onto its own key keeps its deadline
      at == IF from = to THEN m[from].at ELSE popped.m[to].at
  IN IF m[to].type \notin {"none", "list"} THEN Wanted(m, Err("wrongtype"))
     ELSE Wanted([popped.m EXCEPT ![to] = Item("list", PushWant(popped.m, to, <<popped.reply[3]>>, toLeft).m[to].val, at)], popped.reply)

Want(m, r) ==
  LET k == r.keys[1]
      els == m[k].val
  IN CASE r.op \in {"LPUSH", "RPUSH"} -> PushWant(m, k, r.vals, r.op = "LPUSH")
       [] r.op \in {"LPUSHX", "RPUSHX"} -> Listed(m, k, Num(0), PushWant(m, k, r.vals, r.op = "LPUSHX"))
       [] r.op \in {"LPOP", "RPOP"} /\ r.opt = "count" -> Listed(m, k, Many(<<>>), PopWant(m, k, r.a, r.op = "LPOP", Many))
       [] r.op \in {"LPOP", "RPOP"} -> Listed(m, k, Nil, PopWant(m, k, 1, r.op = "LPOP", LAMBDA s : Bulk(s[1])))
       [] r.op = "LMPOP" -> MPopWant(m, r.keys, r.a, r.opt = "left")
       [] r.op = "LLEN" -> Listed(m, k, Num(0), Wanted(m, Num(Len(els))))
       [] r.op = "LINDEX" -> Listed(m, k, Nil, Wanted(m, IF Part(els, r.a, r.a) = <<>> THEN Nil ELSE Bulk(Part(els, r.a, r.a)[1])))
       [] r.op = "LRANGE" -> Listed(m, k, Many(<<>>), Wanted(m, Many(Part(els, r.a, r.b))))
       [] r.op = "LPOS" -> Listed(m, k, PosReply(<<>>, r.vals[2][1]),
                                 Wanted(m, PosReply(PosWant(els, r.vals[1], r.a, r.vals[2][1], r.b), r.vals[2][1])))
       [] r.op = "LSET" -> Listed(m, k, Err("no key"),
                                 IF Part(els, r.a, r.a) = <<>> THEN Wanted(m, Err("index"))
                                 ELSE Wanted(To(m, k, [els EXCEPT ![(IF r.a < 0 THEN r.a + Len(els) ELSE r.a) + 1] = r.vals[1]]), OK))
       [] r.op = "LTRIM" -> Listed(m, k, OK, Wanted(To(m, k, Part(els, r.a, r.b)), OK))
       [] r.op = "LREM" -> Listed(m, k, Num(0), RemoveWant(m, k, r.a, r.vals[1]))
       [] r.op = "LINSERT" -> Listed(m, k, Num(0), InsertWant(m, k, r.vals[1], r.vals[2], r.opt = "before"))
       [] r.op = "LMOVE" -> Listed(m, k, Nil, MoveWant(m, k, r.keys[2], r.a = 0, r.b = 0))
       [] r.op = "RENAME" -> Listed(m, k, Err("no key"), RenameWant(m, k, r.keys[2], r.opt = "NX"))
       [] r.op = "REPLACE" -> Wanted([m EXCEPT ![k] = IF r.vals = <<>> THEN Missing ELSE Item("list", r.vals, 0)], Num(Len(r.vals)))
       [] OTHER -> PlainWant(m, r)

----------------------------------------------------------------------------

Seeded == FoldLeft(LAMBDA d, r : Execute(d, r).db, [k \in Keys |-> Gone], conf.seed)

Init == Starting /\ db = Seeded

Command ==
  \E r \in conf.requests :
    \E done \in {Execute(db, r)} :
      /\ db' = done.db
      /\ agreed' = Answers(Visible(db, now), Visible(done.db, now), done.reply, Want(Visible(db, now), r))
      /\ UNCHANGED now

Maintain ==
  /\ conf.compacts
  /\ db' = Compact(db)
  /\ agreed' = (Visible(db', now) = Visible(db, now))
  /\ UNCHANGED now

Next == Stepping /\ (Command \/ Maintain \/ Tick)

Spec == Init /\ [][Next]_typedVars

----------------------------------------------------------------------------

TypeOK == TypedOK /\ \A k \in Keys : db[k].type = "list" => db[k].val.count \in 1..MaxList

\* Every offset of an indexed list finds a whole record inside the bytes in use, in the order of the list, and what is
\* left in the table is clear (indexedListMeta, indexedListRecord).
TablesSound ==
  \A k \in Keys : db[k].type = "list" /\ db[k].val.rep = "indexed" =>
    LET v == db[k].val
    IN /\ v.count <= Len(v.table) /\ Len(v.heap) <= v.room /\ Len(v.table) >= Promote
       /\ \A i \in 1..v.count : /\ v.table[i] \in 1..Len(v.heap)
                                /\ v.table[i] + v.heap[v.table[i]] <= IF i < v.count THEN v.table[i + 1] - 1 ELSE Len(v.heap)
       /\ \A i \in (v.count + 1)..Len(v.table) : v.table[i] = 0

\* Every command on a list answers and changes the list as it would a plain sequence, in any layout and through any
\* change of layout, compaction and expiry, and a refused one changes nothing (list.go, list_extra.go, list_move.go).
ListsKept == agreed /\ TablesSound

=============================================================================
