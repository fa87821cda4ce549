------------------------------- MODULE Hashes ------------------------------
(***************************************************************************)
(* Hashes (src/internal/engine/hash*.go, server/hash_commands.go).  A hash *)
(* is packed in the order of its fields, with or without a deadline for    *)
(* each field; shaped, its field names kept once in a catalogue shared by  *)
(* all hashes that have the same ones; indexed, a table that is changed in *)
(* place; or hot, a table beside the store that only a pipeline of HSETs   *)
(* makes and that freezes when it is idle.  Every command is compared with *)
(* what it promises on a plain map from fields to values and deadlines.    *)
(***************************************************************************)
EXTENDS Typed, SlotTable

CONSTANTS IndexFields,  \* fields from which a hash without field deadlines is indexed (32)
          HotFields,    \* fields from which a pipeline makes a hash hot (256)
          HotSlots,     \* least slots of a hot hash (16)
          IdleFreeze,   \* time without a change after which a hot hash freezes (6 s)
          Admission,    \* sightings that admit a shape (4)
          Candidates,   \* shapes being counted at a time (256)
          MaxShapes,    \* shapes of the catalogue (4096)
          ShapeBudget,  \* bytes of the catalogue (8 MiB)
          MinSavings,   \* bytes a shape has to save (16)
          MaxHash,      \* most bytes of a hash (32 MiB)
          MaxInt        \* largest integer of HINCRBY (2^63 - 1)

\* The catalogue is kept beside the keys, under a name no request uses, and costs its bytes.
Catalog == "shapes"

Field(f, v, at) == [key |-> f, val |-> v, at |-> at]

\* A value that is a number is written <<h>>, h its number of halves; its digits are not modelled.
IsNumber(v) == Len(v) = 1

Pairs(vs) == [i \in 1..(Len(vs) \div 2) |-> Field(vs[2 * i - 1], vs[2 * i], 0)]

InOrder(S) == [i \in 1..Cardinality(S) |-> CHOOSE x \in S : Cardinality({y \in S : Before(y.key, x.key)}) = i - 1]

liveHashPairs(ps) == SelectSeq(ps, LAMBDA p : p.at = 0 \/ p.at > now)

Deadlines(ps) == \E i \in DOMAIN ps : ps[i].at # 0

\* The place of a field in pairs in their order, or the place it would go to.
Place(ps, f) == 1 + Cardinality({i \in DOMAIN ps : Before(ps[i].key, f)})

At(ps, f) == Place(ps, f) <= Len(ps) /\ ps[Place(ps, f)].key = f

Without(ps, f) == SubSeq(ps, 1, Place(ps, f) - 1) \o SubSeq(ps, Place(ps, f) + 1, Len(ps))

\* A pair in place of the one of its field, or inserted in order.
With(ps, p) ==
  SubSeq(ps, 1, Place(ps, p.key) - 1) \o <<p>> \o SubSeq(ps, Place(ps, p.key) + (IF At(ps, p.key) THEN 1 ELSE 0), Len(ps))

Payload(ps) == MapThenSumSet(LAMBDA i : Len(ps[i].key) + Len(ps[i].val), DOMAIN ps)

TooLong == [rep |-> "none"]

----------------------------------------------------------------------------
\* Layouts.

PackedBytes(ps) == 4 + Payload(ps) + Len(ps) * (IF Deadlines(ps) THEN 10 ELSE 2)

\* The room asked for before encoding is what the limit is held against, and more than what is used.
encodePackedHashSorted(ps) ==
  IF 13 + Payload(ps) + Len(ps) * (IF Deadlines(ps) THEN 28 ELSE 20) > MaxHash THEN TooLong
  ELSE [rep |-> "packed", fields |-> ps]

FixedValueLen(ps) == \A i \in DOMAIN ps : Len(ps[i].val) = Len(ps[1].val)

shapedHashEncodedLen(vals) ==
  MapThenSumSet(LAMBDA i : Len(vals[i]), DOMAIN vals)
  + (IF \A i \in DOMAIN vals : Len(vals[i]) = Len(vals[1]) THEN 6 ELSE 5 + Len(vals))

indexedHashRecordBytes(p) == 2 + Len(p.key) + Len(p.val)

StoreAll(t, ps) == FoldLeft(LAMBDA u, p : Store(u, p, indexedHashRecordBytes(p)), t, ps)

Fitted(t, room) == [slots |-> t.slots, recs |-> t.recs, used |-> t.used, room |-> room]

Indexed(t) ==
  IF 15 + 4 * Len(t.slots) + Roomy(t.used) > MaxHash THEN TooLong
  ELSE [rep |-> "indexed", table |-> Fitted(t, Roomy(t.used))]

encodeIndexedHash(ps) == Indexed(StoreAll(NewTable(NextPow2(2 * Len(ps))), ps))

newHotHash(ps) == StoreAll(NewTable(NextPow2(Max({HotSlots, 2 * Len(ps)}))), ps)

Hot(t, at) == [rep |-> "hot", table |-> t, mutated |-> at]

SizeOf(v) ==
  CASE v.rep = "packed" -> PackedBytes(v.fields)
    [] v.rep = "shaped" -> shapedHashEncodedLen(v.vals)
    [] v.rep = "indexed" -> 15 + 4 * Len(v.table.slots) + v.table.room
    [] v.rep = "hot" -> 4 * Len(v.table.slots) + v.table.used

\* What a shaped hash decodes to; the stored length of the packed form must come out again.
decodeShapedHash(names, v) == [i \in DOMAIN names |-> Field(names[i], v.vals[i], 0)]

shapedHashShape(d, v) == d[Catalog].val.shapes[v.shape]

hashPairs(d, v) ==
  CASE v.rep = "packed" -> v.fields
    [] v.rep = "shaped" -> decodeShapedHash(shapedHashShape(d, v), v)
    [] OTHER -> InOrder(Live(v.table))

\* What decoding leaves of a stored value: a shaped hash is packed again, an indexed one stays as it is.
Unshaped(d, v) == IF v.rep = "shaped" THEN [rep |-> "packed", fields |-> hashPairs(d, v)] ELSE v

Fields(d, k) == liveHashPairs(hashPairs(d, d[k].val))

\* A field is looked up in the layout as it is, without decoding the rest.
packedHashLookup(ps, f) ==
  {ps[i].val : i \in {j \in DOMAIN ps : ps[j].key = f /\ (\A n \in 1..(j - 1) : Before(ps[n].key, f)) /\ (ps[j].at = 0 \/ ps[j].at > now)}}

shapedHashLookup(names, v, f) == {v.vals[i] : i \in {j \in DOMAIN names : names[j] = f}}

HashGet(d, v, f) ==
  CASE v.rep = "packed" -> packedHashLookup(v.fields, f)
    [] v.rep = "shaped" -> shapedHashLookup(shapedHashShape(d, v), v, f)
    [] OTHER -> IF Holds(v.table, f) THEN {RecordOf(v.table, f).val} ELSE {}

OrNone(S) == IF S = {} THEN <<>> ELSE <<CHOOSE x \in S : TRUE>>

----------------------------------------------------------------------------
\* Shapes.

NoShapes == Entry("catalog", [shapes |-> <<>>, seen |-> [i \in 0..(Candidates - 1) |-> <<0, 0>>]], 0, 0)

hashShapeSignature(ps) == [i \in DOMAIN ps |-> ps[i].key]

\* Different names may have the same fingerprint.
hashShapeFingerprint(names) == Len(names) + MapThenSumSet(LAMBDA i : HashField(names[i]), DOMAIN names)

ShapeCharge(names) == 1 + Len(names) + 2 * MapThenSumSet(LAMBDA i : Len(names[i]), DOMAIN names)

Sighted(c, fp) == IF c.seen[fp % Candidates][1] # fp THEN 1 ELSE Min({c.seen[fp % Candidates][2] + 1, Admission})

Catalogue(d, shapes, fp, n, charge) ==
  [d EXCEPT ![Catalog] = Entry("catalog", [shapes |-> shapes, seen |-> [d[Catalog].val.seen EXCEPT ![fp % Candidates] = <<fp, n>>]],
                               d[Catalog].size + charge, 0)]

Admits(d, names, n) ==
  /\ n >= Admission
  /\ Len(d[Catalog].val.shapes) < MaxShapes
  /\ d[Catalog].size + ShapeCharge(names) <= ShapeBudget
  /\ conf.max = 0 \/ Bytes(d) + ShapeCharge(names) <= conf.max

\* A mutant of ShapeSeen: a known fingerprint is taken for the same names.
ShapeSeenBlind(d, names, c, fp, n) ==
  IF \E i \in DOMAIN c.shapes : hashShapeFingerprint(c.shapes[i]) = fp
  THEN [db |-> d, id |-> CHOOSE i \in DOMAIN c.shapes : hashShapeFingerprint(c.shapes[i]) = fp]
  ELSE IF Admits(d, names, n)
  THEN [db |-> Catalogue(d, Append(c.shapes, names), fp, n, ShapeCharge(names)), id |-> Len(c.shapes) + 1]
  ELSE [db |-> Catalogue(d, c.shapes, fp, n, 0), id |-> 0]

\* The shape of the names, counted as a candidate until it is admitted; 0 for none.
ShapeSeen(d, names, c, fp, n) ==
  IF \E i \in DOMAIN c.shapes : hashShapeFingerprint(c.shapes[i]) = fp
  THEN [db |-> d, id |-> IF \E i \in DOMAIN c.shapes : c.shapes[i] = names THEN CHOOSE i \in DOMAIN c.shapes : c.shapes[i] = names ELSE 0]
  ELSE IF Admits(d, names, n)
  THEN [db |-> Catalogue(d, Append(c.shapes, names), fp, n, ShapeCharge(names)), id |-> Len(c.shapes) + 1]
  ELSE [db |-> Catalogue(d, c.shapes, fp, n, 0), id |-> 0]

hashShapeID(d, names) ==
  ShapeSeen(d, names, d[Catalog].val, hashShapeFingerprint(names), Sighted(d[Catalog].val, hashShapeFingerprint(names)))

Values(ps) == [i \in DOMAIN ps |-> ps[i].val]

Shaped(s, ps, v) ==
  [db |-> s.db, val |-> IF s.id = 0 THEN v ELSE [rep |-> "shaped", shape |-> s.id, vals |-> Values(ps), raw |-> SizeOf(v)]]

\* The packed form, or the shaped one when it saves enough.  raw is the length the decoder expects.
hashEntry(d, ps, v) ==
  IF v.rep = "none" \/ Deadlines(ps) \/ Len(ps) < 2 \/ SizeOf(v) - shapedHashEncodedLen(Values(ps)) < MinSavings
  THEN [db |-> d, val |-> v]
  ELSE Shaped(hashShapeID(d, hashShapeSignature(ps)), ps, v)

----------------------------------------------------------------------------
\* Publication.

Put(s, k, at, reply) ==
  IF s.val.rep = "none" THEN Done(s.db, Err("size"))
  ELSE Attempt(publish(s.db, k, Entry("hash", s.val, SizeOf(s.val), at)), reply)

\* A change that packs the hash again.
Repack(d, k, ps, reply) == Put(hashEntry(d, ps, encodePackedHashSorted(ps)), k, d[k].at, reply)

KeepPairs(d, k, ps, reply) == IF ps = <<>> THEN Done(remove(d, k), reply) ELSE Repack(d, k, ps, reply)

\* A hash that is written or frozen is indexed when it is large enough and no field has a deadline.
coldHashEntry(d, ps) ==
  IF Len(ps) >= IndexFields /\ ~Deadlines(ps) THEN [db |-> d, val |-> encodeIndexedHash(ps)]
  ELSE hashEntry(d, ps, encodePackedHashSorted(ps))

IsHot(d, k) == d[k].type = "hash" /\ d[k].val.rep = "hot"

freezeHotHash(d, k) ==
  IF ~IsHot(d, k) THEN Done(d, OK) ELSE Put(coldHashEntry(d, hashPairs(d, d[k].val)), k, d[k].at, OK)

\* A pipeline makes a large hash hot, where memory is not limited.
thawHotHash(d, k) ==
  IF ~isLive(d, k) \/ d[k].type # "hash" \/ IsHot(d, k) \/ conf.max # 0 \/ Len(Fields(d, k)) < HotFields \/ Deadlines(Fields(d, k)) THEN d
  ELSE [d EXCEPT ![k] = Entry("hash", Hot(newHotHash(Fields(d, k)), now), 0, d[k].at)]

----------------------------------------------------------------------------
\* HSET, HSETNX and pipelined HSETs.

\* The table of a hot hash doubles when it is 7/10 full; a value is replaced in its record.
Grown(t) == StoreAll(NewTable(2 * Len(t.slots)), t.recs)

HotPut(t, p) ==
  [slots |-> t.slots, recs |-> SubSeq(t.recs, 1, t.slots[Find(t, p.key)] - 1) \o <<p>> \o SubSeq(t.recs, t.slots[Find(t, p.key)] + 1, Len(t.recs)),
   used |-> t.used + Len(p.val), room |-> t.room]

HotSet(t, p) ==
  IF Holds(t, p.key) THEN HotPut(t, p)
  ELSE Store(IF 10 * (Len(t.recs) + 1) >= 7 * Len(t.slots) THEN Grown(t) ELSE t, p, indexedHashRecordBytes(p))

SetHot(d, k, ps, at) ==
  [d EXCEPT ![k] = Entry("hash", Hot(FoldLeft(LAMBDA t, p : HotSet(t, p), d[k].val.table, ps), at), 0, @.at)]

\* Records are appended in place while there is room; then the table is rebuilt with all pairs still to come.
IndexedStep(s, p) ==
  LET t == s.table
      new == ~Holds(t, p.key)
  IN IF s.rest # <<>> \/ (new /\ 10 * (Cardinality(LiveSlots(t)) + 1) >= 7 * Len(t.slots)) \/ t.used + indexedHashRecordBytes(p) > t.room
     THEN [table |-> t, rest |-> Append(s.rest, p)]
     ELSE [table |-> Store(t, p, indexedHashRecordBytes(p)), rest |-> <<>>]

Overlaid(ps, qs) == FoldLeft(LAMBDA acc, p : With(acc, p), ps, qs)

InPlace(d, k, t) == [d EXCEPT ![k] = Entry("hash", [rep |-> "indexed", table |-> t], @.size, @.at)]

IndexedDone(d, k, s, reply) ==
  IF s.rest = <<>> THEN Done(InPlace(d, k, s.table), reply)
  ELSE Put([db |-> InPlace(d, k, s.table), val |-> encodeIndexedHash(Overlaid(InOrder(Live(s.table)), s.rest))], k, d[k].at, reply)

indexedHashSet(d, k, ps, reply) ==
  IndexedDone(d, k, FoldLeft(LAMBDA s, p : IndexedStep(s, p), [table |-> d[k].val.table, rest |-> <<>>], ps), reply)

Added(old, ps) == Cardinality({p.key : p \in ToSet(ps)} \ {p.key : p \in ToSet(old)})

\* d is purged of k if it has expired.
hashSetLocked(d, k, ps, old) ==
  IF d[k].type \notin {"none", "hash"} THEN WrongType(d)
  ELSE IF IsHot(d, k) THEN Done(SetHot(d, k, ps, now), Num(Added(old, ps)))
  ELSE IF d[k].type = "hash" /\ d[k].val.rep = "indexed" THEN indexedHashSet(d, k, ps, Num(Added(old, ps)))
  ELSE Put(coldHashEntry(d, Overlaid(old, ps)), k, d[k].at, Num(Added(old, ps)))

OldFields(d, k) == IF d[k].type = "hash" THEN Fields(d, k) ELSE <<>>

HashSet(d, k, ps) == hashSetLocked(d, k, ps, OldFields(d, k))

\* One answer per HSET of the pipeline: 1 where a field is first inserted.
Firsts(old, ps) ==
  [i \in DOMAIN ps |-> IF At(old, ps[i].key) \/ \E j \in 1..(i - 1) : ps[j].key = ps[i].key THEN 0 ELSE 1]

Rethawed(done, k) == IF done.reply[1] = "err" THEN done ELSE Done(thawHotHash(done.db, k), done.reply)

Piped(done, reply) == IF done.reply[1] = "err" THEN done ELSE Done(done.db, reply)

HashSetResults(d, k, ps) ==
  IF d[k].type \notin {"none", "hash"} THEN WrongType(d)
  ELSE Rethawed(Piped(HashSet(thawHotHash(d, k), k, ps), Many(Firsts(OldFields(d, k), ps))), k)

\* HSETNX may make a hash hot and then does not note when it changed it.  It never indexes.
SetNewField(d, k, p, old) ==
  IF At(old, p.key) THEN Done(d, Num(0))
  ELSE IF IsHot(d, k) THEN Done(SetHot(d, k, <<p>>, d[k].val.mutated), Num(1))
  ELSE Repack(d, k, With(old, p), Num(1))

HashSetNX(d, k, p) ==
  IF d[k].type \notin {"none", "hash"} THEN WrongType(d) ELSE SetNewField(thawHotHash(d, k), k, p, OldFields(d, k))

----------------------------------------------------------------------------
\* Deleting, counting, and deadlines of fields.  All but HDEL freeze a hot hash first.

\* Deleting from a hot hash builds its table again.
DeleteHot(d, k, kept) ==
  IF kept = <<>> THEN remove(d, k)
  ELSE [d EXCEPT ![k] = Entry("hash", Hot(newHotHash(kept), @.val.mutated), 0, @.at)]

Spared(ps, fs) == SelectSeq(ps, LAMBDA p : p.key \notin ToSet(fs))

HashDel(d, k, fs, ps) ==
  IF Spared(ps, fs) = ps THEN Done(d, Num(0))
  ELSE IF IsHot(d, k) THEN Done(DeleteHot(d, k, Spared(d[k].val.table.recs, fs)), Num(Len(ps) - Len(Spared(ps, fs))))
  ELSE KeepPairs(d, k, Spared(ps, fs), Num(Len(ps) - Len(Spared(ps, fs))))

Current(ps, f) == IF At(ps, f) THEN ps[Place(ps, f)].val ELSE <<0>>

Overflows(n, by) == (by > 0 /\ n > 2 * MaxInt - by) \/ (by < 0 /\ n < 0 - 2 * (MaxInt + 1) - by)

Incremented(d, k, ps, f, n, reply) == Repack(d, k, With(ps, Field(f, <<n>>, 0)), reply)

HashIncrBy(d, k, ps, f, by) ==
  LET old == Current(ps, f)
  IN IF ~IsNumber(old) \/ old[1] % 2 # 0 THEN Done(d, Err("integer"))
     ELSE IF Overflows(old[1], by) THEN Done(d, Err("overflow"))
     ELSE Incremented(d, k, ps, f, old[1] + by, Num(old[1] + by))

HashIncrByFloat(d, k, ps, f, by) ==
  LET old == Current(ps, f)
  IN IF ~IsNumber(old) THEN Done(d, Err("float")) ELSE Incremented(d, k, ps, f, old[1] + by, Bulk(<<old[1] + by>>))

Blocks(o, current, when) ==
  CASE "NX" \in o -> current # 0
    [] "XX" \in o -> current = 0
    [] "GT" \in o -> current = 0 \/ current >= when
    [] "LT" \in o -> current # 0 /\ current <= when
    [] OTHER -> FALSE

\* s: the pairs so far, the answers, the fields to remove at the end, and whether anything changed.
Went(ps, out, gone, changed) == [ps |-> ps, out |-> out, gone |-> gone, changed |-> changed]

ExpireStep(s, f, when, o) ==
  IF ~At(s.ps, f) THEN Went(s.ps, Append(s.out, -2), s.gone, s.changed)
  ELSE LET p == s.ps[Place(s.ps, f)]
       IN IF Blocks(o, p.at, when) THEN Went(s.ps, Append(s.out, 0), s.gone, s.changed)
          ELSE IF when <= now THEN Went(s.ps, Append(s.out, 2), Append(s.gone, f), TRUE)
          ELSE Went(With(s.ps, Field(f, p.val, when)), Append(s.out, 1), s.gone, TRUE)

PersistStep(s, f) ==
  IF ~At(s.ps, f) THEN Went(s.ps, Append(s.out, -2), s.gone, s.changed)
  ELSE LET p == s.ps[Place(s.ps, f)]
       IN IF p.at = 0 THEN Went(s.ps, Append(s.out, -1), s.gone, s.changed)
          ELSE Went(With(s.ps, Field(f, p.val, 0)), Append(s.out, 1), s.gone, TRUE)

GetDelStep(s, f) ==
  IF ~At(s.ps, f) THEN Went(s.ps, Append(s.out, <<>>), s.gone, s.changed)
  ELSE Went(Without(s.ps, f), Append(s.out, <<s.ps[Place(s.ps, f)].val>>), s.gone, TRUE)

GetExStep(s, f, when, o) ==
  IF ~At(s.ps, f) THEN Went(s.ps, Append(s.out, <<>>), s.gone, s.changed)
  ELSE LET p == s.ps[Place(s.ps, f)]
           out == Append(s.out, <<p.val>>)
       IN IF "PERSIST" \in o THEN Went(With(s.ps, Field(f, p.val, 0)), out, s.gone, s.changed \/ p.at # 0)
          ELSE IF "EX" \notin o THEN Went(s.ps, out, s.gone, s.changed)
          ELSE IF when <= now THEN Went(Without(s.ps, f), out, s.gone, TRUE)
          ELSE Went(With(s.ps, Field(f, p.val, when)), out, s.gone, TRUE)

Finished(d, k, s) ==
  IF ~s.changed THEN Done(d, Many(s.out)) ELSE KeepPairs(d, k, Spared(s.ps, s.gone), Many(s.out))

EachField(r, ps, when) ==
  FoldLeft(LAMBDA s, f : CASE r.op = "HEXPIRE" -> ExpireStep(s, f, when, r.opt)
                           [] r.op = "HPERSIST" -> PersistStep(s, f)
                           [] r.op = "HGETDEL" -> GetDelStep(s, f)
                           [] r.op = "HGETEX" -> GetExStep(s, f, when, r.opt),
           Went(ps, <<>>, <<>>, FALSE), r.vals)

SetExStep(ps, p, when, o) ==
  With(ps, Field(p.key, p.val, IF "EX" \in o THEN when ELSE IF "KEEPTTL" \in o /\ At(ps, p.key) THEN ps[Place(ps, p.key)].at ELSE 0))

Unmet(ps, qs, o) ==
  \/ "FXX" \in o /\ \E i \in DOMAIN qs : ~At(ps, qs[i].key)
  \/ "FNX" \in o /\ \E i \in DOMAIN qs : At(ps, qs[i].key)

\* Fields set with a deadline that has passed are dropped, and with them a hash that is left empty.
HashSetEx(d, k, ps, qs, when, o) ==
  IF Unmet(ps, qs, o) THEN Done(d, Num(0))
  ELSE KeepPairs(d, k, liveHashPairs(FoldLeft(LAMBDA acc, p : SetExStep(acc, p, when, o), ps, qs)), Num(1))

When(r) == IF "AT" \in r.opt THEN r.a ELSE now + r.a

----------------------------------------------------------------------------
\* Reads.

HashFieldPTTL(ps, f) ==
  IF ~At(ps, f) THEN -2 ELSE IF ps[Place(ps, f)].at = 0 THEN -1 ELSE ps[Place(ps, f)].at - now

HashFieldExpireTime(ps, f) ==
  IF ~At(ps, f) THEN -2 ELSE IF ps[Place(ps, f)].at = 0 THEN -1 ELSE ps[Place(ps, f)].at

Shown(ps) == [i \in DOMAIN ps |-> <<ps[i].key, ps[i].val>>]

hashPairLookup(ps, f) == IF At(ps, f) THEN <<ps[Place(ps, f)].val>> ELSE <<>>

\* HRANDFIELD shuffles even when every field is asked for.
shuffledHashPrefix(n, count, offsets) ==
  FoldLeft(LAMBDA s, i : ShuffleStep(s, i, offsets[i]), [perm |-> [i \in 1..n |-> i], out |-> <<>>], [i \in 1..Min({n, count}) |-> i]).out

executeHRandField(ps, n, offsets) ==
  IF ps = <<>> THEN <<>>
  ELSE IF n >= 0 THEN Picks(ps, shuffledHashPrefix(Len(ps), n, offsets))
  ELSE Picks(ps, [i \in 1..(0 - n) |-> (offsets[i] % Len(ps)) + 1])

Reading == {"HGET", "HGETS", "HMGET", "HLEN", "HGETALL", "HKEYS", "HVALS", "HSTRLEN", "HEXISTS", "HPTTL", "HPEXPIRETIME", "HSCAN", "HRANDFIELD"}

Absent(r) ==
  CASE r.op \in {"HGETS", "HMGET", "HGETDEL", "HGETEX"} -> Many([i \in DOMAIN r.vals |-> <<>>])
    [] r.op \in {"HPTTL", "HPEXPIRETIME", "HEXPIRE", "HPERSIST"} -> Many([i \in DOMAIN r.vals |-> -2])
    [] r.op \in {"HGETALL", "HKEYS", "HVALS", "HSCAN"} -> Many(<<>>)
    [] r.op = "HGET" -> Nil
    [] r.op = "HRANDFIELD" -> IF "COUNTED" \in r.opt THEN Many(<<>>) ELSE Nil
    [] OTHER -> Num(0)

GetReply(S) == IF S = {} THEN Nil ELSE Bulk(CHOOSE x \in S : TRUE)

ReadHash(d, r, v, ps) ==
  CASE r.op = "HGET" -> GetReply(HashGet(d, v, r.vals[1]))
    [] r.op = "HGETS" -> Many([i \in DOMAIN r.vals |-> OrNone(HashGet(d, v, r.vals[i]))])
    [] r.op = "HMGET" -> Many([i \in DOMAIN r.vals |-> hashPairLookup(ps, r.vals[i])])
    [] r.op = "HLEN" -> Num(Len(ps))
    [] r.op = "HGETALL" -> Many(Shown(ps))
    [] r.op = "HKEYS" -> Many(hashShapeSignature(ps))
    [] r.op = "HVALS" -> Many(Values(ps))
    [] r.op = "HSTRLEN" -> Num(MapThenSumSet(LAMBDA x : Len(x), HashGet(d, v, r.vals[1])))
    [] r.op = "HEXISTS" -> Num(Cardinality(HashGet(d, v, r.vals[1])))
    [] r.op = "HPTTL" -> Many([i \in DOMAIN r.vals |-> HashFieldPTTL(ps, r.vals[i])])
    [] r.op = "HPEXPIRETIME" -> Many([i \in DOMAIN r.vals |-> HashFieldExpireTime(ps, r.vals[i])])
    [] r.op = "HSCAN" -> Page(Shown(ps), r.a, r.b)
    [] r.op = "HRANDFIELD" -> Single(Done(d, Many(executeHRandField(Shown(ps), r.a, r.vals[1]))), "COUNTED" \in r.opt).reply

----------------------------------------------------------------------------
\* Commands.

\* RENAME encodes the hash again from its pairs, expired ones included; a hash that is not hot is taken as it is decoded.
RenamedForm(d, k) == IF IsHot(d, k) THEN encodePackedHashSorted(hashPairs(d, d[k].val)) ELSE Unshaped(d, d[k].val)

RenameInto(d, from, to, s) ==
  IF s.val.rep = "none" THEN Done(s.db, Err("size")) ELSE Renamed(s.db, from, to, Entry("hash", s.val, SizeOf(s.val), d[from].at))

RenameHash(d, from, to, nx) ==
  IF from = to THEN Done(d, Err("same"))
  ELSE IF nx /\ isLive(d, to) THEN Done(d, Num(0))
  ELSE Piped(RenameInto(d, from, to, hashEntry(Purged(d, to), hashPairs(d, d[from].val), RenamedForm(d, from))), IF nx THEN Num(1) ELSE OK)

\* The commands that read, change and pack again; d has no expired k, and k is not hot.
Rewritten(d, r, k, ps) ==
  CASE r.op = "HINCRBY" -> HashIncrBy(d, k, ps, r.vals[1], r.a)
    [] r.op = "HINCRBYFLOAT" -> HashIncrByFloat(d, k, ps, r.vals[1], r.a)
    [] r.op = "HSETEX" -> HashSetEx(d, k, ps, Pairs(r.vals), When(r), r.opt)
    [] ~Has(d, k) -> Done(d, Absent(r))
    [] OTHER -> Finished(d, k, EachField(r, ps, When(r)))

Thereupon(frozen, r, k) ==
  IF frozen.reply # OK THEN frozen ELSE Rewritten(frozen.db, r, k, OldFields(frozen.db, k))

OnHash(d, r, k) ==
  CASE r.op = "HSET" -> HashSet(d, k, Pairs(r.vals))
    [] r.op = "HSETS" -> HashSetResults(d, k, Pairs(r.vals))
    [] r.op = "HSETNX" -> HashSetNX(d, k, Pairs(r.vals)[1])
    [] d[k].type \notin {"none", "hash"} -> WrongType(d)
    [] r.op = "RENAME" -> IF Has(d, k) THEN RenameHash(d, k, r.keys[2], "NX" \in r.opt) ELSE Done(d, Err("no key"))
    [] r.op = "HDEL" -> IF Has(d, k) THEN HashDel(d, k, r.vals, Fields(d, k)) ELSE Done(d, Num(0))
    [] r.op \in Reading -> Done(d, IF Has(d, k) THEN ReadHash(d, r, d[k].val, Fields(d, k)) ELSE Absent(r))
    [] OTHER -> Thereupon(freezeHotHash(d, k), r, k)

executeHash(d, r) ==
  CASE r.op \in {"SET", "EXPIRE", "DEL"} -> Plainly(d, r)
    [] r.op = "FLUSHALL" -> Done([k \in Keys |-> IF k = Catalog THEN NoShapes ELSE Gone], OK)
    [] OTHER -> OnHash(Purged(d, r.keys[1]), r, r.keys[1])

----------------------------------------------------------------------------
\* Compaction freezes the hot hashes once all of them are idle, then shapes indexed ones, large ones only with values of one width.

hotHashIdle(v) == now - v.mutated >= IdleFreeze

Busy(d) == \E k \in Keys : IsHot(d, k) /\ ~hotHashIdle(d[k].val)

Reshaped(d, k, s) ==
  IF s.val.rep # "shaped" \/ (Len(s.val.vals) >= HotFields /\ ~FixedValueLen(hashPairs(d, d[k].val))) THEN Done(s.db, OK)
  ELSE Put(s, k, d[k].at, OK)

CollapseHash(d, k) ==
  IF d[k].type # "hash" \/ d[k].val.rep # "indexed" \/ Cardinality(Live(d[k].val.table)) < IndexFields THEN Done(d, OK)
  ELSE LET ps == hashPairs(d, d[k].val)
       IN IF encodePackedHashSorted(ps) = TooLong THEN Done(d, Err("panic")) ELSE Reshaped(d, k, hashEntry(d, ps, encodePackedHashSorted(ps)))

\* An error here is a panic of the server.
Onward(done, next) == IF done.reply # OK THEN done ELSE next

CompactAll(d, ks) ==
  LET frozen == FoldLeft(LAMBDA x, k : Onward(x, freezeHotHash(x.db, k)), Done(d, OK), ks)
  IN FoldLeft(LAMBDA x, k : Onward(x, CollapseHash(x.db, k)), frozen, ks)

Compact(d) == IF Busy(d) THEN Done(d, OK) ELSE CompactAll(d, SetToSeq({k \in Keys : d[k].type = "hash"}))

----------------------------------------------------------------------------
\* What the commands promise, on maps.  A hash stays a key when the last of its fields expires.

Names == Keys \ {Catalog}

Visible(d) ==
  [k \in Names |-> IF isLive(d, k) THEN Item(d[k].type, IF d[k].type = "hash" THEN Fields(d, k) ELSE d[k].val, d[k].at) ELSE Missing]

Of(F, f) == {p \in F : p.key = f}

To(m, k, F, at) == [m EXCEPT ![k] = IF F = {} THEN Missing ELSE Item("hash", InOrder(F), at)]

Changed(m, k, F) == IF F = ToSet(m[k].val) THEN m ELSE To(m, k, F, m[k].at)

Laid(F, ps) == FoldLeft(LAMBDA G, p : (G \ Of(G, p.key)) \cup {p}, F, ps)

NewNames(F, ps) == {ps[i].key : i \in DOMAIN ps} \ {p.key : p \in F}

SetWant(m, k, F, ps, reply) == Wanted(To(m, k, Laid(F, ps), m[k].at), reply)

IncrWant(m, k, F, f, by, whole) ==
  LET old == {p.val : p \in Of(F, f)}
      n == IF old = {} THEN 0 ELSE (CHOOSE v \in old : TRUE)[1]
  IN IF \E v \in old : Len(v) # 1 \/ (whole /\ v[1] % 2 = 1) THEN Wanted(m, Err(IF whole THEN "integer" ELSE "float"))
     ELSE IF whole /\ n + by \notin (0 - 2 * (MaxInt + 1))..(2 * MaxInt) THEN Wanted(m, Err("overflow"))
     ELSE SetWant(m, k, F, <<Field(f, <<n + by>>, 0)>>, IF whole THEN Num(n + by) ELSE Bulk(<<n + by>>))

\* A new deadline for a field that is there: whether the condition allows it, with no deadline counted as the latest.
Allowed(o, current, when) ==
  CASE "NX" \in o -> current = 0
    [] "XX" \in o -> current # 0
    [] "GT" \in o -> current # 0 /\ when > current
    [] "LT" \in o -> current = 0 \/ when < current
    [] OTHER -> TRUE

Dated(F, p, when) == IF when <= now THEN F \ {p} ELSE (F \ {p}) \cup {Field(p.key, p.val, when)}

FieldWant(r, F, p) ==
  CASE r.op = "HEXPIRE" ->
         IF ~Allowed(r.opt, p.at, When(r)) THEN <<F, 0>> ELSE <<Dated(F, p, When(r)), IF When(r) <= now THEN 2 ELSE 1>>
    [] r.op = "HPERSIST" -> <<(F \ {p}) \cup {Field(p.key, p.val, 0)}, IF p.at = 0 THEN -1 ELSE 1>>
    [] r.op = "HGETDEL" -> <<F \ {p}, <<p.val>>>>
    [] r.op = "HGETEX" ->
         <<IF "PERSIST" \in r.opt THEN (F \ {p}) \cup {Field(p.key, p.val, 0)} ELSE IF "EX" \in r.opt THEN Dated(F, p, When(r)) ELSE F, <<p.val>>>>

EachWant(r, F) ==
  FoldLeft(LAMBDA s, f : IF Of(s[1], f) = {} THEN <<s[1], Append(s[2], IF r.op \in {"HEXPIRE", "HPERSIST"} THEN -2 ELSE <<>>)>>
                         ELSE LET w == FieldWant(r, s[1], CHOOSE p \in Of(s[1], f) : TRUE) IN <<w[1], Append(s[2], w[2])>>,
           <<F, <<>>>>, r.vals)

SetExWant(m, k, F, ps, r) ==
  LET met == {f \in {ps[i].key : i \in DOMAIN ps} : Of(F, f) # {}}
      kept(f) == IF "KEEPTTL" \in r.opt /\ Of(F, f) # {} THEN (CHOOSE p \in Of(F, f) : TRUE).at ELSE 0
      dated == [i \in DOMAIN ps |-> Field(ps[i].key, ps[i].val, IF "EX" \in r.opt THEN When(r) ELSE kept(ps[i].key))]
  IN IF ("FNX" \in r.opt /\ met # {}) \/ ("FXX" \in r.opt /\ met # {ps[i].key : i \in DOMAIN ps}) THEN Wanted(m, Num(0))
     ELSE Wanted(To(m, k, {p \in Laid(F, dated) : p.at = 0 \/ p.at > now}, m[k].at), Num(1))

ValueOf(F, f) == {p.val : p \in Of(F, f)}

TimeOf(F, f, from) == IF Of(F, f) = {} THEN -2 ELSE LET p == CHOOSE q \in Of(F, f) : TRUE IN IF p.at = 0 THEN -1 ELSE p.at - from

FieldReads(F, r) ==
  CASE r.op = "HGET" -> IF ValueOf(F, r.vals[1]) = {} THEN Nil ELSE Bulk(CHOOSE v \in ValueOf(F, r.vals[1]) : TRUE)
    [] r.op \in {"HGETS", "HMGET"} -> Many([i \in DOMAIN r.vals |-> OrNone(ValueOf(F, r.vals[i]))])
    [] r.op = "HSTRLEN" -> Num(IF ValueOf(F, r.vals[1]) = {} THEN 0 ELSE Len(CHOOSE v \in ValueOf(F, r.vals[1]) : TRUE))
    [] r.op = "HEXISTS" -> Num(IF ValueOf(F, r.vals[1]) = {} THEN 0 ELSE 1)
    [] r.op = "HPTTL" -> Many([i \in DOMAIN r.vals |-> TimeOf(F, r.vals[i], now)])
    [] r.op = "HPEXPIRETIME" -> Many([i \in DOMAIN r.vals |-> TimeOf(F, r.vals[i], 0)])

ReadWant(F, r, reply) ==
  CASE r.op = "HLEN" -> Num(Cardinality(F))
    [] r.op = "HGETALL" -> Many(Shown(InOrder(F)))
    [] r.op = "HKEYS" -> Many([i \in 1..Cardinality(F) |-> InOrder(F)[i].key])
    [] r.op = "HVALS" -> Many([i \in 1..Cardinality(F) |-> InOrder(F)[i].val])
    [] r.op = "HSCAN" -> PageWant(Shown(InOrder(F)), r.a, r.b)
    [] r.op = "HRANDFIELD" -> IF F = {} THEN Absent(r) ELSE IF Plausible(ToSet(Shown(InOrder(F))), r.a, Given(reply)) THEN reply ELSE Err("picked")
    [] OTHER -> FieldReads(F, r)

Making == {"HSET", "HSETS", "HSETNX", "HSETEX", "HINCRBY", "HINCRBYFLOAT"}

HashWant(m, r, k, F, reply) ==
  CASE r.op = "HSET" -> SetWant(m, k, F, Pairs(r.vals), Num(Cardinality(NewNames(F, Pairs(r.vals)))))
    [] r.op = "HSETS" -> LET ps == Pairs(r.vals)
                         IN SetWant(m, k, F, ps, Many([i \in DOMAIN ps |-> IF ps[i].key \in NewNames(F, ps) \ {ps[j].key : j \in 1..(i - 1)} THEN 1 ELSE 0]))
    [] r.op = "HSETNX" -> IF Of(F, r.vals[1]) # {} THEN Wanted(m, Num(0)) ELSE SetWant(m, k, F, Pairs(r.vals), Num(1))
    [] r.op = "HINCRBY" -> IncrWant(m, k, F, r.vals[1], r.a, TRUE)
    [] r.op = "HINCRBYFLOAT" -> IncrWant(m, k, F, r.vals[1], r.a, FALSE)
    [] r.op = "HSETEX" -> SetExWant(m, k, F, Pairs(r.vals), r)
    [] r.op = "HDEL" -> LET kept == {p \in F : p.key \notin ToSet(r.vals)} IN Wanted(Changed(m, k, kept), Num(Cardinality(F \ kept)))
    [] r.op \in Reading -> Wanted(m, ReadWant(F, r, reply))
    [] OTHER -> LET w == EachWant(r, F) IN Wanted(Changed(m, k, w[1]), Many(w[2]))

TypedWant(m, r, k, reply) ==
  IF m[k].type \notin {"none", "hash"} THEN Wanted(m, Err("wrongtype"))
  ELSE IF r.op = "RENAME" THEN IF m[k].type = "none" THEN Wanted(m, Err("no key")) ELSE RenameWant(m, k, r.keys[2], "NX" \in r.opt)
  ELSE IF m[k].type = "none" /\ r.op \notin Making THEN Wanted(m, Absent(r))
  ELSE HashWant(m, r, k, ToSet(m[k].val), reply)

Want(m, r, reply) ==
  CASE r.op = "FLUSHALL" -> Wanted([k \in Names |-> Missing], OK)
    [] r.op \in {"SET", "EXPIRE", "DEL"} -> PlainWant(m, r)
    [] OTHER -> TypedWant(m, r, r.keys[1], reply)

----------------------------------------------------------------------------

Seeded == FoldLeft(LAMBDA d, r : executeHash(d, r).db, [k \in Keys |-> IF k = Catalog THEN NoShapes ELSE Gone], conf.seed)

Init == Starting /\ db = Seeded

Command ==
  \E r \in conf.requests :
    \E done \in {executeHash(db, r)} :
      /\ db' = done.db
      /\ agreed' = Answers(Visible(db), Visible(done.db), done.reply, Want(Visible(db), r, done.reply))
      /\ UNCHANGED now

Maintain ==
  /\ conf.compacts
  /\ \E done \in {Compact(db)} :
       /\ db' = done.db
       /\ agreed' = (Visible(done.db) = Visible(db) /\ done.reply = OK)
  /\ UNCHANGED now

Next == Stepping /\ (Command \/ Maintain \/ Tick)

Spec == Init /\ [][Next]_typedVars

----------------------------------------------------------------------------

TypeOK == TypedOK /\ \A k \in Names : db[k].type = "hash" => db[k].val.rep \in {"packed", "shaped", "indexed", "hot"}

HashAt(k) == db[k].type = "hash"

\* Whatever is stored as a shaped hash decodes to as many bytes as its entry says, or reading it panics (memory.go's
\* decode: "Only verified immutable records are published").
Decodable == \A k \in Names : HashAt(k) /\ db[k].val.rep = "shaped" => db[k].val.raw = PackedBytes(hashPairs(db, db[k].val))

\* The pairs of a hash are in the order of their fields, each field once; in a table every field is where a search for
\* it ends; only a packed hash has deadlines (packedHashLookupView, indexedHashFind, hotHash.find).
FieldsFound ==
  \A k \in Names : HashAt(k) =>
    LET v == db[k].val
        ps == hashPairs(db, v)
    IN /\ ps # <<>> /\ \A i \in 2..Len(ps) : Before(ps[i - 1].key, ps[i].key)
       /\ v.rep = "indexed" => TableSound(v.table)
       /\ v.rep = "hot" => /\ \A p \in ToSet(v.table.recs) : RecordOf(v.table, p.key) = p
                           /\ Len(v.table.recs) = Cardinality(LiveSlots(v.table)) /\ LiveSlots(v.table) # DOMAIN v.table.slots
       /\ Deadlines(ps) => v.rep = "packed"

\* Every command on hashes answers and changes them as it would a map from fields to values and deadlines, in any
\* layout and through freezing, thawing, shaping, compaction, expiry of keys and fields, and FLUSHALL, which empties the
\* catalogue of shapes; a refused command changes nothing (hash.go, hash_hot.go, hash_indexed.go, hash_shapes.go,
\* hash_field_expiry.go, hash_numeric_scan.go, hash_commands.go).
HashesKept == agreed /\ Decodable /\ FieldsFound

=============================================================================
