------------------------------- MODULE ZSets -------------------------------
(***************************************************************************)
(* Sorted sets (src/internal/engine/zset*.go, server/zset_*commands.go).   *)
(* A sorted set is packed, with scores as integer differences or as floats *)
(* and members front coded or whole, or it is a hash table of members and  *)
(* scores that is sorted when it is read.  A score is a number of halves,  *)
(* so that some are integers and some are not, or infinite.  Every command *)
(* is compared with what it promises on a plain map from members to        *)
(* scores.                                                                 *)
(***************************************************************************)
EXTENDS Typed, SlotTable

CONSTANTS Promote,    \* members from which a sorted set is indexed (32)
          PlainMax,   \* most pairs of a ZADD that are inserted one by one (8)
          Aggressive, \* members from which half of the payload is kept as room (64)
          SmallRange, \* ranks below which a range is selected without sorting (64)
          NarrowMax,  \* most bytes two-byte slots can refer to (65534)
          MaxZSet     \* most bytes of a sorted set (32 MiB)

Inf == 100

NaN == 101

TooLong == [rep |-> "none"]

It(m, s) == [key |-> m, score |-> s]

zsetLess(a, b) == a.score < b.score \/ (a.score = b.score /\ Before(a.key, b.key))

Ordered(S) == [i \in 1..Cardinality(S) |-> CHOOSE x \in S : Cardinality({y \in S : zsetLess(y, x)}) = i - 1]

Infinite(s) == s \in {Inf, 0 - Inf}

zsetExactInt64(s) == ~Infinite(s) /\ s % 2 = 0

Plus(a, b) == IF Infinite(a) /\ b = 0 - a THEN NaN ELSE IF Infinite(a) THEN a ELSE IF Infinite(b) THEN b ELSE a + b

Times(s, w) ==
  IF ~Infinite(s) /\ ~Infinite(w) THEN s * w
  ELSE IF s = 0 \/ w = 0 THEN NaN
  ELSE IF (s > 0) = (w > 0) THEN Inf ELSE 0 - Inf

zsetSafeScore(s) == IF s = NaN THEN 0 ELSE s

----------------------------------------------------------------------------
\* Layouts.

\* Bytes that neighbours share.
SharedPrefix(items) == MapThenSumSet(LAMBDA i : Common(items[i - 1].key, items[i].key), 2..Len(items))

\* Front coding costs a byte for each member but the first and one for the mode.
zsetPrefixMemberBytes(items) == SharedPrefix(items) > Len(items)

\* A record after another one; the first follows nothing.
RecordAfter(before, it, ints, front) ==
  LET prefix == IF front /\ before # <<>> THEN Common(before[1].key, it.key) ELSE 0
  IN [s |-> IF ~ints THEN it.score ELSE (it.score - (IF before = <<>> THEN 0 ELSE before[1].score)) \div 2,
      prefix |-> prefix, suffix |-> SubSeq(it.key, prefix + 1, Len(it.key))]

PackedAs(items, ints, front) ==
  [rep |-> "packed", ints |-> ints, front |-> front,
   recs |-> [i \in DOMAIN items |-> RecordAfter(IF i = 1 THEN <<>> ELSE <<items[i - 1]>>, items[i], ints, front)]]

PackedBytes(v) ==
  4 + (IF v.front THEN Len(v.recs) ELSE 0)
    + MapThenSumSet(LAMBDA i : (IF v.ints THEN 2 ELSE 9) + Len(v.recs[i].suffix), DOMAIN v.recs)

SizeOf(v) ==
  IF v.rep = "packed" THEN PackedBytes(v) ELSE 15 + (IF v.wide THEN 4 ELSE 2) * Len(v.table.slots) + v.table.room

Limited(v) == IF SizeOf(v) > MaxZSet THEN TooLong ELSE v

encodePackedZSet(items) ==
  Limited(PackedAs(items, \A i \in DOMAIN items : zsetExactInt64(items[i].score), zsetPrefixMemberBytes(items)))

DecodeStep(out, r, ints) ==
  IF out = <<>> THEN <<It(r.suffix, IF ints THEN 2 * r.s ELSE r.s)>>
  ELSE Append(out, It(SubSeq(out[Len(out)].key, 1, r.prefix) \o r.suffix, IF ints THEN out[Len(out)].score + 2 * r.s ELSE r.s))

decodePackedZSet(v) == FoldLeft(LAMBDA out, r : DecodeStep(out, r, v.ints), <<>>, v.recs)

RecordLen(it) == (IF zsetExactInt64(it.score) THEN 1 ELSE 9) + 1 + Len(it.key)

Payload(items) == MapThenSumSet(LAMBDA i : RecordLen(items[i]), DOMAIN items)

DataCap(used, n, aggressive, exact) ==
  IF exact THEN used
  ELSE used + Max({MinRoom, IF aggressive /\ n >= Aggressive THEN used \div 2 ELSE used \div 4})

TableOf(items, room) ==
  [FoldLeft(LAMBDA t, it : Store(t, it, RecordLen(it)), NewTable(NextPow2((5 * Len(items) + 3) \div 4)), items) EXCEPT !.room = room]

Indexed(t) == [rep |-> "indexed", wide |-> t.room > NarrowMax, table |-> t]

buildIndexedZSetUnique(items, aggressive, exact) ==
  Limited(Indexed(TableOf(items, DataCap(Payload(items), Len(items), aggressive, exact))))

liveIndexedZSetItems(t) == FoldLeft(LAMBDA out, i : IF i = 0 THEN out ELSE Append(out, t.recs[i]), <<>>, t.slots)

zsetItemsFromEntry(v) == IF v.rep = "packed" THEN decodePackedZSet(v) ELSE Ordered(Live(v.table))

ItemsAt(d, k) == IF isLive(d, k) THEN zsetItemsFromEntry(d[k].val) ELSE <<>>

----------------------------------------------------------------------------
\* ZADD.

Put(d, k, v, at, reply) ==
  IF v.rep = "none" THEN Done(d, Err("size")) ELSE Attempt(publish(d, k, Entry("zset", v, SizeOf(v), at)), reply)

PutItems(d, k, items, reply) ==
  Put(d, k, IF Len(items) >= Promote THEN buildIndexedZSetUnique(items, TRUE, FALSE) ELSE encodePackedZSet(items), d[k].at, reply)

zsetFindMember(items, m) == SelectInSeq(items, LAMBDA it : it.key = m)

WithItem(items, i, it) == SubSeq(items, 1, i - 1) \o <<it>> \o SubSeq(items, i + 1, Len(items))

zsetInsertSorted(items, it) == InsertAt(items, Cardinality({i \in DOMAIN items : zsetLess(items[i], it)}) + 1, it)

\* A new last member is written behind the others; its layout stays as it is.
AppendsLast(v, items, it) ==
  /\ Len(items) + 1 < Promote
  /\ v.ints => zsetExactInt64(it.score)
  /\ zsetFindMember(items, it.key) = 0
  /\ zsetLess(items[Len(items)], it)
  /\ v.front \/ SharedPrefix(Append(items, it)) <= Len(items) + 1
  /\ SizeOf(v) + 28 + Len(it.key) <= MaxZSet

packedZSetAppendLast(v, last, it) == [v EXCEPT !.recs = Append(@, RecordAfter(<<last>>, it, v.ints, v.front))]

PlainStepInPlace(s, p) ==
  LET i == zsetFindMember(s.items, p.key)
  IN IF i = 0 THEN [items |-> zsetInsertSorted(s.items, p), added |-> s.added + 1, changed |-> TRUE]
     ELSE IF s.items[i].score = p.score THEN s
     ELSE [items |-> WithItem(s.items, i, p), added |-> s.added, changed |-> TRUE]

PlainStep(s, p) ==
  LET i == zsetFindMember(s.items, p.key)
  IN IF i = 0 THEN [items |-> zsetInsertSorted(s.items, p), added |-> s.added + 1, changed |-> TRUE]
     ELSE IF s.items[i].score = p.score THEN s
     ELSE [items |-> zsetInsertSorted(RemoveAt(s.items, i), p), added |-> s.added, changed |-> TRUE]

PlainDone(d, k, s) == IF s.changed THEN PutItems(d, k, s.items, Num(s.added)) ELSE Done(d, Num(s.added))

zsetPlainAddLocked(d, k, items, pairs) ==
  PlainDone(d, k, FoldLeft(PlainStep, [items |-> items, added |-> 0, changed |-> FALSE], pairs))

AddPlain(d, k, items, pairs) ==
  IF items # <<>> /\ Len(pairs) = 1 /\ AppendsLast(d[k].val, items, pairs[1])
  THEN Put(d, k, packedZSetAppendLast(d[k].val, items[Len(items)], pairs[1]), d[k].at, Num(1))
  ELSE zsetPlainAddLocked(d, k, items, pairs)

\* What an option says of a member with score old (or none) that would get score new.
Skips(o, old, new) ==
  IF old = <<>> THEN "XX" \in o
  ELSE "NX" \in o \/ ("GT" \in o /\ new <= old[1]) \/ ("LT" \in o /\ new >= old[1])

OptionStep(s, i, old, p, new, o) ==
  IF s.nan \/ new = NaN THEN [s EXCEPT !.nan = TRUE]
  ELSE IF Skips(o, old, new) THEN s
  ELSE [items |-> IF old = <<>> THEN Append(s.items, It(p.key, new)) ELSE WithItem(s.items, i, It(p.key, new)),
        added |-> s.added + (IF old = <<>> THEN 1 ELSE 0),
        changed |-> IF old = <<new>> THEN s.changed ELSE s.changed \cup {p.key},
        score |-> new, nan |-> FALSE]

GenericStep(s, p, o) ==
  LET i == zsetFindMember(s.items, p.key)
  IN IF i = 0 THEN OptionStep(s, i, <<>>, p, p.score, o)
     ELSE OptionStep(s, i, <<s.items[i].score>>, p, IF "INCR" \in o THEN Plus(s.items[i].score, p.score) ELSE p.score, o)

\* An increment that changes no score is answered like one that was not applied.
GenericDone(d, k, s, o) ==
  IF s.nan THEN Done(d, Err("nan"))
  ELSE IF s.changed = {} THEN Done(d, IF "INCR" \in o THEN Nil ELSE Num(0))
  ELSE PutItems(d, k, Ordered(ToSet(s.items)),
                IF "INCR" \in o THEN Bulk(<<s.score>>) ELSE Num(IF "CH" \in o THEN Cardinality(s.changed) ELSE s.added))

AddGeneric(d, k, items, pairs, o) ==
  GenericDone(d, k, FoldLeft(LAMBDA s, p : GenericStep(s, p, o), [items |-> items, added |-> 0, changed |-> {}, score |-> 0, nan |-> FALSE], pairs), o)

NeedsRebuild(t, it) ==
  (~Holds(t, it.key) /\ (Cardinality(LiveSlots(t)) + 1) * 5 >= Len(t.slots) * 4) \/ t.used + RecordLen(it) > t.room

MergeItem(s, p) ==
  LET i == zsetFindMember(s.items, p.key)
  IN IF i # 0 THEN [items |-> WithItem(s.items, i, p), added |-> s.added]
     ELSE [items |-> Append(s.items, p), added |-> s.added + 1]

Rebuilt(s, merged) ==
  [table |-> s.table, added |-> merged.added, built |-> <<buildIndexedZSetUnique(merged.items, TRUE, FALSE)>>]

\* s.table is written in place, pair by pair, until one needs a larger table.
AddStep(s, pairs, i) ==
  IF s.built # <<>> \/ (Holds(s.table, pairs[i].key) /\ RecordOf(s.table, pairs[i].key).score = pairs[i].score) THEN s
  ELSE IF NeedsRebuild(s.table, pairs[i])
  THEN Rebuilt(s, FoldLeft(MergeItem, [items |-> liveIndexedZSetItems(s.table), added |-> s.added], SubSeq(pairs, i, Len(pairs))))
  ELSE [table |-> Store(s.table, pairs[i], RecordLen(pairs[i])),
        added |-> s.added + (IF Holds(s.table, pairs[i].key) THEN 0 ELSE 1), built |-> <<>>]

indexedZSetAddSimple(v, pairs) ==
  FoldLeft(LAMBDA s, i : AddStep(s, pairs, i), [table |-> v.table, added |-> 0, built |-> <<>>], [i \in DOMAIN pairs |-> i])

Written(d, k, t) ==
  [d EXCEPT ![k] = Entry("zset", [rep |-> "indexed", wide |-> d[k].val.wide, table |-> t], d[k].size, d[k].at)]

InPlace(d, k, s, reply) ==
  IF s.built = <<>> THEN Done(Written(d, k, s.table), reply) ELSE Put(Written(d, k, s.table), k, s.built[1], d[k].at, reply)

AddIndexed(d, k, s) == InPlace(d, k, s, Num(s.added))

\* Unlike a ZADD, an increment always writes a record.
IncrTo(t, it) ==
  IF NeedsRebuild(t, it)
  THEN [table |-> t, built |-> <<buildIndexedZSetUnique(Ordered({r \in Live(t) : r.key # it.key} \cup {it}), TRUE, FALSE)>>]
  ELSE [table |-> Store(t, it, RecordLen(it)), built |-> <<>>]

indexedZSetIncrBy(d, k, m, score) ==
  IF score = NaN THEN Done(d, Err("nan")) ELSE InPlace(d, k, IncrTo(d[k].val.table, It(m, score)), Bulk(<<score>>))

ScoreAfter(t, p) == IF Holds(t, p.key) THEN Plus(RecordOf(t, p.key).score, p.score) ELSE p.score

IsIndexed(d, k) == Has(d, k) /\ d[k].val.rep = "indexed"

ZSetAdd(d, k, pairs, o) ==
  IF Has(d, k) /\ d[k].type # "zset" THEN WrongType(d)
  ELSE IF IsIndexed(d, k) /\ o = {} THEN AddIndexed(d, k, indexedZSetAddSimple(d[k].val, pairs))
  ELSE IF IsIndexed(d, k) /\ o = {"INCR"} THEN indexedZSetIncrBy(d, k, pairs[1].key, ScoreAfter(d[k].val.table, pairs[1]))
  ELSE IF o = {} /\ Len(pairs) <= PlainMax THEN AddPlain(d, k, ItemsAt(d, k), pairs)
  ELSE AddGeneric(d, k, ItemsAt(d, k), pairs, o)

----------------------------------------------------------------------------
\* Ranges.  A score bound is <<exclusive, score>>, a bound on members <<kind>> \o bytes.

OnZSet(d, k, purges, missing, found) ==
  IF ~isLive(d, k) THEN Done(IF purges THEN Purged(d, k) ELSE d, missing)
  ELSE IF d[k].type # "zset" THEN WrongType(d)
  ELSE found

zsetScoreInRange(s, min, max) ==
  (IF min[1] = 1 THEN s > min[2] ELSE s >= min[2]) /\ (IF max[1] = 1 THEN s < max[2] ELSE s <= max[2])

zsetLexAtLeast(m, min) ==
  min[1] = -2 \/ (min[1] \in {0, 1} /\ ~Before(m, Tail(min)) /\ (min[1] = 1 => m # Tail(min)))

zsetLexAtMost(m, max) ==
  max[1] = 2 \/ (max[1] \in {0, 1} /\ ~Before(Tail(max), m) /\ (max[1] = 1 => m # Tail(max)))

InRange(it, r) ==
  IF "LEX" \in r.opt THEN zsetLexAtLeast(it.key, r.vals[1]) /\ zsetLexAtMost(it.key, r.vals[2])
  ELSE zsetScoreInRange(it.score, r.vals[1], r.vals[2])

Turned(items, r) == IF "REV" \in r.opt THEN Reverse(items) ELSE items

\* The first and the last place of a range of ranks, <<>> when there is none.
normalizeZSetRange(n, start, stop) ==
  LET a == Max({0, IF start < 0 THEN start + n ELSE start})
      b == IF stop < 0 THEN stop + n ELSE stop
  IN IF b < 0 \/ a >= n \/ a > b THEN <<>> ELSE <<a + 1, Min({b + 1, n})>>

Between(items, places) == IF places = <<>> THEN <<>> ELSE SubSeq(items, places[1], places[2])

Limit(items, offset, count) ==
  IF offset < 0 \/ count = 0 THEN <<>>
  ELSE SubSeq(items, offset + 1, IF count < 0 THEN Len(items) ELSE Min({Len(items), offset + count}))

zsetLexSorted(items) == FoldLeft(LAMBDA out, it : InsertAt(out, Cardinality({i \in DOMAIN out : Before(out[i].key, it.key)}) + 1, it), <<>>, items)

\* A range of members, when it is not stored, takes a negative offset for none.
Selected(items, r, stored) ==
  CASE "LEX" \in r.opt ->
         Limit(SelectSeq(Turned(zsetLexSorted(items), r), LAMBDA it : InRange(it, r)), IF stored \/ r.a >= 0 THEN r.a ELSE 0, r.b)
    [] "SCORE" \in r.opt -> Limit(SelectSeq(Turned(items, r), LAMBDA it : InRange(it, r)), r.a, r.b)
    [] OTHER -> Between(Turned(items, r), normalizeZSetRange(Len(items), r.a, r.b))

\* The best of a table's items, kept in order up to a limit while the slots are walked.
BestStep(best, it, limit, reverse) ==
  LET worse == {i \in DOMAIN best : IF reverse THEN zsetLess(best[i], it) ELSE zsetLess(it, best[i])}
      pos == IF worse = {} THEN Len(best) + 1 ELSE Min(worse)
  IN IF pos > limit THEN best ELSE SubSeq(InsertAt(best, pos, it), 1, Min({limit, Len(best) + 1}))

BestBetween(t, places, reverse) ==
  IF places = <<>> THEN <<>>
  ELSE Between(FoldLeft(LAMBDA best, it : BestStep(best, it, places[2], reverse), <<>>, liveIndexedZSetItems(t)), places)

indexedZSetSmallRange(t, r) == BestBetween(t, normalizeZSetRange(Cardinality(LiveSlots(t)), r.a, r.b), "REV" \in r.opt)

IsSmall(n, r) == LET places == normalizeZSetRange(n, r.a, r.b) IN places = <<>> \/ places[2] <= SmallRange

ZSetRange(d, k, r) ==
  IF r.opt \cap {"LEX", "SCORE"} = {} /\ IsIndexed(d, k) /\ IsSmall(Cardinality(LiveSlots(d[k].val.table)), r)
  THEN indexedZSetSmallRange(d[k].val.table, r)
  ELSE Selected(ItemsAt(d, k), r, FALSE)

ZSetScore(v, m) ==
  IF v.rep = "indexed" THEN IF Holds(v.table, m) THEN <<RecordOf(v.table, m).score>> ELSE <<>>
  ELSE LET items == decodePackedZSet(v)
           i == zsetFindMember(items, m)
       IN IF i = 0 THEN <<>> ELSE <<items[i].score>>

indexedZSetRank(t, m, reverse) ==
  Cardinality({it \in Live(t) : IF reverse THEN zsetLess(RecordOf(t, m), it) ELSE zsetLess(it, RecordOf(t, m))})

Place(n, i, reverse) == IF reverse THEN n - i ELSE i - 1

ZSetRank(v, m, reverse) ==
  IF v.rep = "indexed" THEN IF Holds(v.table, m) THEN Num(indexedZSetRank(v.table, m, reverse)) ELSE Nil
  ELSE LET items == decodePackedZSet(v)
           i == zsetFindMember(items, m)
       IN IF i = 0 THEN Nil ELSE Num(Place(Len(items), i, reverse))

ZSetScores(items, ms) ==
  [i \in DOMAIN ms |-> LET j == zsetFindMember(items, ms[i]) IN IF j = 0 THEN <<>> ELSE <<items[j].score>>]

----------------------------------------------------------------------------
\* Removing: what is left is packed.

KeepOnly(d, k, kept, reply) ==
  IF kept = <<>> THEN Done(remove(d, k), reply) ELSE Put(d, k, encodePackedZSet(kept), d[k].at, reply)

RemoveFrom(d, k, items, kept) ==
  IF Len(kept) = Len(items) THEN Done(d, Num(0)) ELSE KeepOnly(d, k, kept, Num(Len(items) - Len(kept)))

Outside(items, places) ==
  IF places = <<>> THEN items ELSE SubSeq(items, 1, places[1] - 1) \o SubSeq(items, places[2] + 1, Len(items))

RangeRemoved(items, r) ==
  IF r.opt \cap {"LEX", "SCORE"} = {} THEN Outside(items, normalizeZSetRange(Len(items), r.a, r.b))
  ELSE SelectSeq(items, LAMBDA it : ~InRange(it, r))

PopFrom(d, k, items, n, max, answer) ==
  KeepOnly(d, k, IF max THEN SubSeq(items, 1, Len(items) - n) ELSE SubSeq(items, n + 1, Len(items)),
           answer \o <<SubSeq(IF max THEN Reverse(items) ELSE items, 1, n)>>)

ZSetPop(d, k, count, max) ==
  OnZSet(d, k, TRUE, Many(<<>>),
    IF count = 0 THEN Done(d, Many(<<>>)) ELSE PopFrom(d, k, ItemsAt(d, k), Min({count, Len(ItemsAt(d, k))}), max, <<"many", 0>>))

\* The first key that is there is popped; the answer names it.
ZSetMPop(d, keys, count, max) ==
  LET live == {i \in DOMAIN keys : isLive(d, keys[i])}
  IN IF live = {} THEN Done(d, Nil)
     ELSE LET k == keys[Min(live)]
          IN IF d[k].type # "zset" THEN WrongType(d)
             ELSE PopFrom(d, k, ItemsAt(d, k), Min({count, Len(ItemsAt(d, k))}), max, <<"many", Min(live)>>)

----------------------------------------------------------------------------
\* Storing into another key.  Sets take part in the algebra with score one.

StoreAt(d, to, items) ==
  IF items = <<>> THEN Done(remove(d, to), Num(0)) ELSE Put(d, to, encodePackedZSet(items), 0, Num(Len(items)))

zsetRangeStore(d, to, from, r) ==
  IF isLive(d, from) /\ d[from].type # "zset" THEN WrongType(d)
  ELSE StoreAt(d, to, Ordered(ToSet(Selected(ItemsAt(d, from), r, TRUE))))

ScoresOf(items) == [m \in {items[i].key : i \in DOMAIN items} |-> items[zsetFindMember(items, m)].score]

zsetSourcesLocked(d, keys) ==
  [i \in DOMAIN keys |-> IF isLive(d, keys[i]) /\ d[keys[i]].type = "set" THEN [m \in ToSet(d[keys[i]].val) |-> 2]
                         ELSE ScoresOf(ItemsAt(d, keys[i]))]

OnSources(d, keys, found) ==
  IF \E i \in DOMAIN keys : isLive(d, keys[i]) /\ d[keys[i]].type \notin {"zset", "set"} THEN WrongType(d) ELSE found

normalizeZSetWeights(r, n) == IF r.vals = <<>> THEN [i \in 1..n |-> 1] ELSE r.vals[1]

zsetWeightedScore(s, w, o) == IF "COUNT" \in o THEN (IF Infinite(w) THEN w ELSE 2 * w) ELSE zsetSafeScore(Times(s, w))

zsetAggregateScores(a, b, o) ==
  IF "MIN" \in o THEN Min({a, b}) ELSE IF "MAX" \in o THEN Max({a, b}) ELSE zsetSafeScore(Plus(a, b))

\* The weighted scores of a member, in the order of the sources that have it.
Contributions(sources, weights, m, o) ==
  FoldLeft(LAMBDA out, i : IF m \in DOMAIN sources[i] THEN Append(out, zsetWeightedScore(sources[i][m], weights[i], o)) ELSE out,
           <<>>, [i \in DOMAIN sources |-> i])

Aggregated(scores, o) == FoldLeft(LAMBDA a, b : zsetAggregateScores(a, b, o), scores[1], Tail(scores))

MembersIn(sources, op) ==
  CASE op = "union" -> UNION {DOMAIN sources[i] : i \in DOMAIN sources}
    [] op = "inter" -> {m \in DOMAIN sources[1] : \A i \in 2..Len(sources) : m \in DOMAIN sources[i]}
    [] op = "diff" -> {m \in DOMAIN sources[1] : \A i \in 2..Len(sources) : m \notin DOMAIN sources[i]}

applyZSetAlgebra(sources, weights, o, op) ==
  Ordered({It(m, IF op = "diff" THEN sources[1][m] ELSE Aggregated(Contributions(sources, weights, m, o), o)) : m \in MembersIn(sources, op)})

OpOf(op) ==
  CASE op \in {"ZUNION", "ZUNIONSTORE"} -> "union" [] op \in {"ZINTER", "ZINTERSTORE"} -> "inter" [] OTHER -> "diff"

ZSetAlgebra(d, r, keys) == applyZSetAlgebra(zsetSourcesLocked(d, keys), normalizeZSetWeights(r, Len(keys)), r.opt, OpOf(r.op))

Moved(v, at) == Entry("zset", v, SizeOf(v), at)

RenameZSet(d, from, to, nx) ==
  IF from = to THEN Done(d, Err("same"))
  ELSE IF nx /\ isLive(d, to) THEN Done(d, Num(0))
  ELSE IF encodePackedZSet(ItemsAt(d, from)).rep = "none" THEN Done(Purged(d, to), Err("size"))
  ELSE LET r == Renamed(Purged(d, to), from, to, Moved(encodePackedZSet(ItemsAt(d, from)), d[from].at))
       IN IF nx /\ r.reply = OK THEN Done(r.db, Num(1)) ELSE r

\* What the geo commands store: all members at once, each once.
ZSetReplace(d, k, items) == IF items = <<>> THEN Done(remove(d, k), OK) ELSE Put(d, k, encodePackedZSet(Ordered(ToSet(items))), 0, OK)

----------------------------------------------------------------------------
\* A request: op, keys, values, two numbers, and a set of options.  A pair is <<score>> \o member.

Pairs(vals) == [i \in DOMAIN vals |-> It(Tail(vals[i]), vals[i][1])]

Reading(d, r, k) ==
  CASE r.op = "ZSCORE" -> OnZSet(d, k, FALSE, Bulk(<<>>), Done(d, Bulk(ZSetScore(d[k].val, r.vals[1]))))
    [] r.op = "ZMSCORE" -> OnZSet(d, k, FALSE, Many([i \in DOMAIN r.vals |-> <<>>]), Done(d, Many(ZSetScores(ItemsAt(d, k), r.vals))))
    [] r.op = "ZCARD" -> OnZSet(d, k, FALSE, Num(0), Done(d, Num(IF IsIndexed(d, k) THEN Cardinality(LiveSlots(d[k].val.table)) ELSE Len(ItemsAt(d, k)))))
    [] r.op = "ZRANK" -> OnZSet(d, k, FALSE, Nil, Done(d, ZSetRank(d[k].val, r.vals[1], "REV" \in r.opt)))
    [] r.op = "ZCOUNT" -> OnZSet(d, k, FALSE, Num(0), Done(d, Num(Len(SelectSeq(ItemsAt(d, k), LAMBDA it : InRange(it, r))))))
    [] r.op = "ZRANGE" -> OnZSet(d, k, FALSE, Many(<<>>), Done(d, Many(ZSetRange(d, k, r))))
    [] r.op = "ZSCAN" -> OnZSet(d, k, FALSE, Many(<<>>), Done(d, Page(ItemsAt(d, k), r.a, r.b)))
    [] r.op = "ZRANDMEMBER" ->
         Single(OnZSet(d, k, FALSE, Many(<<>>), Done(d, Many(RandomMembers(ItemsAt(d, k), r.a, r.vals[1])))), "COUNTED" \in r.opt)

Combining(d, r, k) ==
  CASE r.op \in {"ZUNION", "ZINTER", "ZDIFF"} -> OnSources(d, r.keys, Done(d, Many(ZSetAlgebra(d, r, r.keys))))
    [] r.op = "ZINTERCARD" ->
         OnSources(d, r.keys, LET n == Cardinality(MembersIn(zsetSourcesLocked(d, r.keys), "inter")) IN Done(d, Num(IF r.a > 0 /\ n > r.a THEN r.a ELSE n)))
    [] r.op = "ZRANGESTORE" -> zsetRangeStore(d, k, r.keys[2], r)
    [] OTHER -> OnSources(d, Tail(r.keys), StoreAt(d, k, ZSetAlgebra(d, r, Tail(r.keys))))

Reads == {"ZSCORE", "ZMSCORE", "ZCARD", "ZRANK", "ZCOUNT", "ZRANGE", "ZSCAN", "ZRANDMEMBER"}

executeZSet(d, r) ==
  LET k == r.keys[1]
  IN CASE r.op = "ZADD" -> ZSetAdd(Purged(d, k), k, Pairs(r.vals), r.opt)
       [] r.op = "ZREM" -> OnZSet(d, k, TRUE, Num(0), RemoveFrom(d, k, ItemsAt(d, k), SelectSeq(ItemsAt(d, k), LAMBDA it : it.key \notin ToSet(r.vals))))
       [] r.op = "ZREMRANGE" -> OnZSet(d, k, TRUE, Num(0), RemoveFrom(d, k, ItemsAt(d, k), RangeRemoved(ItemsAt(d, k), r)))
       [] r.op = "ZPOP" -> ZSetPop(d, k, r.a, "MAX" \in r.opt)
       [] r.op = "ZMPOP" -> ZSetMPop(d, r.keys, r.a, "MAX" \in r.opt)
       [] r.op = "RENAME" -> OnZSet(d, k, TRUE, Err("no key"), RenameZSet(d, k, r.keys[2], "NX" \in r.opt))
       [] r.op = "REPLACE" -> ZSetReplace(d, k, Pairs(r.vals))
       [] r.op \in {"SET", "EXPIRE", "DEL"} -> Plainly(d, r)
       [] r.op = "SADD" -> Done([d EXCEPT ![k] = Entry("set", r.vals, Len(r.vals), 0)], OK)
       [] r.op \in Reads -> Reading(d, r, k)
       [] OTHER -> Combining(d, r, k)

\* Quiet maintenance gives up the room behind the records.
compactIndexedZSetLocked(d, k) ==
  IF ~isLive(d, k) \/ d[k].type # "zset" \/ d[k].val.rep # "indexed" \/ d[k].val.table.used = d[k].val.table.room THEN d
  ELSE Put(d, k, [d[k].val EXCEPT !.table.room = d[k].val.table.used], d[k].at, OK).db

\* Compaction also drops the records that are dead.
trimIndexedZSet(d, k) ==
  IF d[k].type # "zset" \/ d[k].val.rep # "indexed" THEN d
  ELSE LET v == buildIndexedZSetUnique(liveIndexedZSetItems(d[k].val.table), FALSE, TRUE)
       IN IF v.rep = "none" \/ SizeOf(v) >= SizeOf(d[k].val) THEN d ELSE Put(d, k, v, d[k].at, OK).db

----------------------------------------------------------------------------
\* What the commands promise, on maps from members to scores, which are compared in order.

Visible(d, t) ==
  [k \in Keys |-> IF Has(d, k) /\ ~Expired(d, k, t)
                  THEN Item(d[k].type, IF d[k].type = "zset" THEN zsetItemsFromEntry(d[k].val) ELSE d[k].val, d[k].at)
                  ELSE Missing]

IsZSet(m, k, missing, found) ==
  IF m[k].type = "none" THEN Wanted(m, missing)
  ELSE IF m[k].type # "zset" THEN Wanted(m, Err("wrongtype"))
  ELSE found

Members(m, k) == ToSet(m[k].val)

To(m, k, S, at) == [m EXCEPT ![k] = IF S = {} THEN Missing ELSE Item("zset", Ordered(S), at)]

\* One pair of a ZADD, on a set of items.
AddOne(s, p, o) ==
  LET old == {it \in s.items : it.key = p.key}
      new == IF "INCR" \in o /\ old # {} THEN Plus((CHOOSE it \in old : TRUE).score, p.score) ELSE p.score
      applies == /\ "NX" \in o => old = {}
                 /\ "XX" \in o => old # {}
                 /\ \A it \in old : ("GT" \in o => new > it.score) /\ ("LT" \in o => new < it.score)
  IN IF new = NaN THEN [items |-> s.items, changed |-> s.changed, score |-> <<NaN>>]
     ELSE IF ~applies THEN s
     ELSE [items |-> (s.items \ old) \cup {It(p.key, new)}, changed |-> IF It(p.key, new) \in old THEN s.changed ELSE s.changed \cup {p.key}, score |-> <<new>>]

Keyed(S) == {it.key : it \in S}

AddWant(m, k, o, s) ==
  IF m[k].type \notin {"none", "zset"} THEN Wanted(m, Err("wrongtype"))
  ELSE IF s.score = <<NaN>> THEN Wanted(m, Err("nan"))
  ELSE Wanted(To(m, k, s.items, m[k].at),
              IF "INCR" \in o THEN (IF s.score = <<>> THEN Nil ELSE Bulk(s.score))
              ELSE Num(Cardinality(IF "CH" \in o THEN s.changed ELSE Keyed(s.items) \ Keyed(Members(m, k)))))

\* Whether an item lies within the bounds of a request.
Within(it, r) ==
  IF "SCORE" \in r.opt THEN zsetScoreInRange(it.score, r.vals[1], r.vals[2])
  ELSE (r.vals[1][1] = -2 \/ r.vals[1] = <<0>> \o it.key \/ (r.vals[1][1] # 2 /\ Before(Tail(r.vals[1]), it.key)))
       /\ (r.vals[2][1] = 2 \/ r.vals[2] = <<0>> \o it.key \/ (r.vals[2][1] # -2 /\ Before(it.key, Tail(r.vals[2]))))

\* Rank of an item in a set, from the side a request counts from.
RankIn(S, it, r) ==
  Cardinality({x \in S : LET a == IF "REV" \in r.opt THEN it ELSE x
                             b == IF "REV" \in r.opt THEN x ELSE it
                         IN IF "LEX" \in r.opt THEN Before(a.key, b.key) ELSE zsetLess(a, b)})

ByRank(S, r) == [i \in 1..Cardinality(S) |-> CHOOSE it \in S : RankIn(S, it, r) = i - 1]

\* Those of the items in range whose rank is within the limit, none when it starts below the first.
RangeWant(S, r) ==
  IF r.opt \cap {"LEX", "SCORE"} = {}
  THEN LET n == Cardinality(S)
           a == IF r.a < 0 THEN r.a + n ELSE r.a
           b == IF r.b < 0 THEN r.b + n ELSE r.b
       IN ByRank({it \in S : RankIn(S, it, r) \in a..b}, r)
  ELSE LET T == {it \in S : Within(it, r)}
       IN ByRank({it \in T : r.a >= 0 /\ RankIn(T, it, r) >= r.a /\ (r.b < 0 \/ RankIn(T, it, r) < r.a + r.b)}, r)

ScoreWant(S, m) == {it.score : it \in {x \in S : x.key = m}}

OrNone(S) == IF S = {} THEN <<>> ELSE <<CHOOSE x \in S : TRUE>>

RankWant(S, m, r) == LET at == {it \in S : it.key = m} IN IF at = {} THEN Nil ELSE Num(RankIn(S, CHOOSE it \in at : TRUE, r))

Lowest(S, n, max) == SubSeq(IF max THEN Reverse(Ordered(S)) ELSE Ordered(S), 1, Min({n, Cardinality(S)}))

PopWant(m, k, n, max, answer) ==
  Wanted(To(m, k, Members(m, k) \ ToSet(Lowest(Members(m, k), n, max)), m[k].at), answer \o <<Lowest(Members(m, k), n, max)>>)

FirstKey(m, keys) == Min({i \in DOMAIN keys : m[keys[i]].type # "none"})

PickWant(m, k, r, reply) ==
  IF Plausible(Members(m, k), r.a, Given(reply)) THEN Wanted(m, reply) ELSE Wanted(m, Err("picked"))

\* The score of a member in a source, as a set of at most one.
In(m, k, x) == IF m[k].type = "set" THEN {2 : y \in {z \in {x} : z \in ToSet(m[k].val)}} ELSE ScoreWant(Members(m, k), x)

Names(m, k) == IF m[k].type = "set" THEN ToSet(m[k].val) ELSE Keyed(Members(m, k))

Weighted(m, keys, x, r) ==
  [i \in {j \in DOMAIN keys : In(m, keys[j], x) # {}} |->
     zsetWeightedScore(CHOOSE s \in In(m, keys[i], x) : TRUE, IF r.vals = <<>> THEN 1 ELSE r.vals[1][i], r.opt)]

Combined(scores, o) ==
  LET S == {scores[i] : i \in DOMAIN scores}
  IN IF "MIN" \in o THEN Min(S) ELSE IF "MAX" \in o THEN Max(S)
     ELSE IF {Inf, 0 - Inf} \subseteq S THEN 0
     ELSE IF S \cap {Inf, 0 - Inf} # {} THEN CHOOSE s \in S \cap {Inf, 0 - Inf} : TRUE
     ELSE MapThenSumSet(LAMBDA i : scores[i], DOMAIN scores)

AlgebraWant(m, keys, r) ==
  CASE OpOf(r.op) = "union" -> {It(x, Combined(Weighted(m, keys, x, r), r.opt)) : x \in UNION {Names(m, keys[i]) : i \in DOMAIN keys}}
    [] OpOf(r.op) = "inter" -> {It(x, Combined(Weighted(m, keys, x, r), r.opt)) : x \in {y \in Names(m, keys[1]) : \A i \in DOMAIN keys : y \in Names(m, keys[i])}}
    [] OTHER -> {It(x, CHOOSE s \in In(m, keys[1], x) : TRUE) : x \in {y \in Names(m, keys[1]) : \A i \in 2..Len(keys) : y \notin Names(m, keys[i])}}

SourcesWant(m, keys, found) ==
  IF \E i \in DOMAIN keys : m[keys[i]].type \notin {"none", "zset", "set"} THEN Wanted(m, Err("wrongtype")) ELSE found

StoreWant(m, to, S) == Wanted(To(m, to, S, 0), Num(Cardinality(S)))

ReadWant(m, r, k, S, reply) ==
  CASE r.op = "ZSCORE" -> IsZSet(m, k, Bulk(<<>>), Wanted(m, Bulk(OrNone(ScoreWant(S, r.vals[1])))))
    [] r.op = "ZMSCORE" -> IsZSet(m, k, Many([i \in DOMAIN r.vals |-> <<>>]), Wanted(m, Many([i \in DOMAIN r.vals |-> OrNone(ScoreWant(S, r.vals[i]))])))
    [] r.op = "ZCARD" -> IsZSet(m, k, Num(0), Wanted(m, Num(Cardinality(S))))
    [] r.op = "ZRANK" -> IsZSet(m, k, Nil, Wanted(m, RankWant(S, r.vals[1], r)))
    [] r.op = "ZCOUNT" -> IsZSet(m, k, Num(0), Wanted(m, Num(Cardinality({it \in S : Within(it, r)}))))
    [] r.op = "ZRANGE" -> IsZSet(m, k, Many(<<>>), Wanted(m, Many(RangeWant(S, r))))
    [] r.op = "ZSCAN" -> IsZSet(m, k, Many(<<>>), Wanted(m, PageWant(Ordered(S), r.a, r.b)))
    [] r.op = "ZRANDMEMBER" -> IsZSet(m, k, IF "COUNTED" \in r.opt THEN Many(<<>>) ELSE Nil, PickWant(m, k, r, reply))

CombineWant(m, r, k) ==
  CASE r.op \in {"ZUNION", "ZINTER", "ZDIFF"} -> SourcesWant(m, r.keys, Wanted(m, Many(Ordered(AlgebraWant(m, r.keys, r)))))
    [] r.op = "ZINTERCARD" ->
         SourcesWant(m, r.keys, LET n == Cardinality({x \in Names(m, r.keys[1]) : \A i \in DOMAIN r.keys : x \in Names(m, r.keys[i])})
                                IN Wanted(m, Num(IF r.a = 0 THEN n ELSE Min({n, r.a}))))
    [] r.op = "ZRANGESTORE" ->
         IF m[r.keys[2]].type \notin {"none", "zset"} THEN Wanted(m, Err("wrongtype"))
         ELSE StoreWant(m, k, ToSet(RangeWant(Members(m, r.keys[2]), r)))
    [] OTHER -> SourcesWant(m, Tail(r.keys), StoreWant(m, k, AlgebraWant(m, Tail(r.keys), r)))

Want(m, r, reply) ==
  LET k == r.keys[1]
      S == Members(m, k)
  IN CASE r.op = "ZADD" -> AddWant(m, k, r.opt, FoldLeft(LAMBDA s, p : AddOne(s, p, r.opt), [items |-> S, changed |-> {}, score |-> <<>>], Pairs(r.vals)))
       [] r.op = "ZREM" -> IsZSet(m, k, Num(0), Wanted(To(m, k, {it \in S : it.key \notin ToSet(r.vals)}, m[k].at), Num(Cardinality(Keyed(S) \cap ToSet(r.vals)))))
       [] r.op = "ZREMRANGE" -> IsZSet(m, k, Num(0), LET gone == ToSet(RangeWant(S, r)) IN Wanted(To(m, k, S \ gone, m[k].at), Num(Cardinality(gone))))
       [] r.op = "ZPOP" -> IsZSet(m, k, Many(<<>>), PopWant(m, k, r.a, "MAX" \in r.opt, <<"many", 0>>))
       [] r.op = "ZMPOP" ->
            IF \A i \in DOMAIN r.keys : m[r.keys[i]].type = "none" THEN Wanted(m, Nil)
            ELSE IsZSet(m, r.keys[FirstKey(m, r.keys)], Nil, PopWant(m, r.keys[FirstKey(m, r.keys)], r.a, "MAX" \in r.opt, <<"many", FirstKey(m, r.keys)>>))
       [] r.op = "RENAME" -> IsZSet(m, k, Err("no key"), RenameWant(m, k, r.keys[2], "NX" \in r.opt))
       [] r.op = "REPLACE" -> Wanted(To(m, k, ToSet(Pairs(r.vals)), 0), OK)
       [] r.op \in {"SET", "EXPIRE", "DEL"} -> PlainWant(m, r)
       [] r.op \in Reads -> ReadWant(m, r, k, S, reply)
       [] OTHER -> CombineWant(m, r, k)

----------------------------------------------------------------------------

Seeded == FoldLeft(LAMBDA d, r : executeZSet(d, r).db, [k \in Keys |-> Gone], conf.seed)

Init == Starting /\ db = Seeded

Command ==
  \E r \in conf.requests :
    \E done \in {executeZSet(db, r)} :
      /\ db' = done.db
      /\ agreed' = Answers(Visible(db, now), Visible(done.db, now), done.reply, Want(Visible(db, now), r, done.reply))
      /\ UNCHANGED now

Maintain ==
  /\ conf.compacts
  /\ \E k \in Keys : db' \in {compactIndexedZSetLocked(db, k), trimIndexedZSet(db, k)}
  /\ agreed' = (Visible(db', now) = Visible(db, now))
  /\ UNCHANGED now

Next == Stepping /\ (Command \/ Maintain \/ Tick)

Spec == Init /\ [][Next]_typedVars

----------------------------------------------------------------------------

TypeOK == TypedOK /\ \A k \in Keys : db[k].type = "zset" => db[k].val.rep \in {"packed", "indexed"}

\* A packed sorted set is in order, so that its differences are not negative and it can be read back; in a table every
\* member is where a search for it ends, and narrow slots reach every record (decodePackedZSet, indexedZSetFindKnown).
ItemsFound ==
  \A k \in Keys : db[k].type = "zset" =>
    LET v == db[k].val
        items == zsetItemsFromEntry(v)
    IN /\ v.rep = "indexed" => TableSound(v.table) /\ (~v.wide => v.table.room <= NarrowMax)
       /\ items = Ordered(ToSet(items)) /\ Cardinality(Keyed(ToSet(items))) = Len(items)

\* Every command on sorted sets answers and changes them as it would a map from members to scores, in any layout and
\* through any change of layout and expiry, and a refused one changes nothing (zset.go, zset_indexed.go,
\* zset_append_last.go, zset_ranges.go, zset_lex.go, zset_ops.go, zset_algebra.go).
ZSetsKept == agreed /\ ItemsFound

=============================================================================
