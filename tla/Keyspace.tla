------------------------------ MODULE Keyspace ------------------------------
(***************************************************************************)
(* A shard of the store (src/internal/engine) under the string commands:   *)
(* its index of keys, dense entries, arena, deadlines, shared JSON shapes  *)
(* and the account of the bytes they take; the optimizer, which re-encodes *)
(* a value it read some time ago; compaction, active expiry, FLUSHDB and   *)
(* CONFIG SET maxmemory.                                                   *)
(*                                                                         *)
(* Each command runs under the lock of its shard, so it is one step; a job *)
(* of the optimizer takes and releases that lock several times.  What a    *)
(* command answers and leaves is compared with StringSpec as it runs.      *)
(*                                                                         *)
(* A byte has ByteBits bits.  Bytes 1, 2 and 3 are the digits 0, 1, 2 of   *)
(* base 3, byte 0 is the minus sign, and a value that starts with Brace is *)
(* JSON: the byte after it is its template, the others fill its slots.  A  *)
(* hash is the sequence of its fields.                                     *)
(***************************************************************************)
EXTENDS Arena, StringSpec

CONSTANTS KeyOrder,       \* the order of the keys
          Workers,        \* workers of the optimizer
          HotFields,      \* fields from which a hash thaws (256)
          ShapeThreshold, \* sightings that admit a template
          MaxSchemas,     \* schemas the shape store has room for
          Deployments

VARIABLES conf,     \* the deployment
          db,       \* the shard
          now,      \* the clock
          jobs,     \* what each worker of the optimizer holds
          agreed,   \* what every step did is what StringSpec says
          steps

keyspaceVars == <<conf, db, now, jobs, agreed, steps>>

NoRecord == [none |-> TRUE]

EntryStruct == 24
EntryMeta == 24
MetaSlot == 8
Sidecar == 48
IndexSlot == 8
KeyLength == 3
Prefix == 1   \* the length before a key in the key log

Brace == 4

----------------------------------------------------------------------------
\* Shapes.  A schema is known to records by its number.

NoShapes == [open |-> FALSE, schemas |-> {}, next |-> 1, seen |-> [t \in 0..(2^ByteBits - 1) |-> 0]]

Structured(v) == v # <<>> /\ v[1] = Brace

Splits(v) == Structured(v) /\ Len(v) > 2

ByID(sh, id) == {s \in sh.schemas : s.id = id}

Lookup(sh, v) == IF Splits(v) THEN {s \in sh.schemas : s.template = v[2]} ELSE {}

\* Candidate counts a sighting and admits the template, dropping one that no
\* record uses when the store is full.
Observe(sh, v) ==
  IF ~Splits(v) THEN sh
  ELSE LET t == v[2]
           count == sh.seen[t] + 1
           idle == {s \in sh.schemas : s.refs = 0}
           kept == IF Cardinality(sh.schemas) < MaxSchemas THEN sh.schemas
                   ELSE IF idle = {} THEN sh.schemas ELSE sh.schemas \ {CHOOSE s \in idle : TRUE}
           counted == [sh EXCEPT !.open = TRUE, !.seen[t] = count]
       IN IF Lookup(sh, v) # {} \/ count < ShapeThreshold THEN counted
          ELSE IF Cardinality(kept) >= MaxSchemas THEN [counted EXCEPT !.schemas = kept]
          ELSE [counted EXCEPT !.schemas = kept \cup {[id |-> sh.next, template |-> t, refs |-> 0]},
                               !.next = @ + 1, !.seen[t] = 0]

Retain(sh, id, n) ==
  [sh EXCEPT !.schemas = {IF s.id = id THEN [s EXCEPT !.refs = @ + n] ELSE s : s \in @}]

----------------------------------------------------------------------------
\* Values and their encodings.  "int" and "run" and "shape" stand for the
\* integer, RepeatByte and JSON-shape codecs.

Raw(v) == [codec |-> "raw", data |-> v, size |-> Unit * Len(v), len |-> Len(v), schema |-> 0]

Encode(v) ==
  IF conf.encoding /\ IsInteger(v)
  THEN [codec |-> "int", data |-> <<IntegerOf(v)>>, size |-> 1, len |-> Len(v), schema |-> 0]
  ELSE Raw(v)

DecodeAs(codec, data, len, templates) ==
  CASE codec = "int" -> Formatted(data[1])
    [] codec = "run" -> [i \in 1..len |-> data[1]]
    [] codec = "shape" -> <<Brace, CHOOSE t \in templates : TRUE>> \o data
    [] OTHER -> data

\* The prepared entry of a value, and the one of a hash.
makeEntry(v) == [rec |-> Encode(v), type |-> "string", meta |-> FALSE, at |-> 0]

hashEntry(fields) == [rec |-> Raw(fields), type |-> "hash", meta |-> FALSE, at |-> 0]

----------------------------------------------------------------------------
\* The shard: ids of the keys, entries and their reserved slots, free ids,
\* index slots, the sidecar of metadata and hot hashes, deadlines, account.

EmptyDB ==
  [ids |-> [k \in Keys |-> 0], ents |-> <<>>, slots |-> 0, freeIDs |-> <<>>, index |-> 0,
   metas |-> 0 - 1, hot |-> {}, hotSlots |-> 0, hotLen |-> 0, arena |-> EmptyArena, exp |-> [k \in Keys |-> 0],
   shapes |-> NoShapes, panicked |-> FALSE, max |-> 0,
   acc |-> [used |-> 0, index |-> 0, entries |-> 0, arenas |-> 0, payload |-> 0, live |-> 0,
            metas |-> 0, hot |-> 0]]

NoEntry == [ref |-> NoRef, codec |-> "raw", type |-> "none", len |-> 0, expires |-> FALSE,
            stable |-> FALSE, meta |-> FALSE, schema |-> 0]

Has(d, k) == d.ids[k] # 0

Ent(d, k) == d.ents[d.ids[k]]

expired(d, k) == Has(d, k) /\ Ent(d, k).expires /\ now >= d.exp[k]

isLive(d, k) == Has(d, k) /\ ~expired(d, k)

isHotHash(e) == e.stable /\ e.type = "hash"

HotOf(d, id) == {h \in d.hot : h.id = id}

HotBytes(h) == 104 + 64 + 24 * Len(h.fields) + Unit * Len(h.fields)

HotSum(hs) == MapThenSumSet(HotBytes, hs)

decode(d, e) ==
  DecodeAs(e.codec, View(d.arena, e.ref), e.len,
           {s.template : s \in ByID(d.shapes, e.schema)})

\* The visible value of a key, whatever its representation.
valueOf(d, k) ==
  IF isHotHash(Ent(d, k)) THEN (CHOOSE h \in HotOf(d, d.ids[k]) : TRUE).fields ELSE decode(d, Ent(d, k))

Visible(d, t) ==
  [k \in Keys |->
     IF Has(d, k) /\ ~(Ent(d, k).expires /\ t >= d.exp[k])
     THEN [type |-> Ent(d, k).type, val |-> valueOf(d, k), at |-> IF Ent(d, k).expires THEN d.exp[k] ELSE 0]
     ELSE Absent]

\* Slots the entries have once n more keys are in: 4, 6, 8, then doubling,
\* from whatever compaction left.
entryCapacityFor(d, n) ==
  LET needed == n - Len(d.freeIDs)
      target == Len(d.ents) + needed
      Step(c, i) == IF target <= c THEN c ELSE IF c = 0 THEN 4 ELSE IF c \in {4, 6} THEN c + 2 ELSE 2 * c
  IN IF needed <= 0 THEN d.slots ELSE FoldLeft(Step, d.slots, <<1, 2, 3, 4>>)

entryGrowthBytes(d, n) == (entryCapacityFor(d, n) - d.slots) * EntryStruct

metaSlotGrowthBytes(d, n, needed) ==
  IF d.metas < 0 THEN (IF needed THEN Sidecar + entryCapacityFor(d, n) * MetaSlot ELSE 0)
  ELSE IF entryCapacityFor(d, n) <= d.metas THEN 0
  ELSE (entryCapacityFor(d, n) - d.metas) * MetaSlot

Count(d) == Cardinality({k \in Keys : Has(d, k)})

\* The index is full at four of four slots, and at four fifths beyond.
indexCapacityFor(slots, n) ==
  LET Accepts(c) == IF c = 4 THEN n <= c ELSE n <= (c * 8) \div 10
  IN IF n = 0 THEN slots
     ELSE Min({c \in {4, 8, 16, 32} : c >= slots /\ Accepts(c)})

indexGrowthBytes(d, n) == (indexCapacityFor(d.index, Count(d) + n) - d.index) * IndexSlot

----------------------------------------------------------------------------
\* Publication and removal: the two ways an entry changes, and the account.

KeyCharge == KeyLength + Prefix

Meta(e) == IF e.meta THEN EntryMeta ELSE 0

Payload(e) == IF e.ref.at = "block" THEN e.ref.size ELSE 0

Inlined(p) == p.rec.codec = "int" /\ ~p.meta

\* The memory limit.  The account is unsigned: below zero it is huge.
Exceeds(d, next) == d.max > 0 /\ (next > d.max \/ next < 0)

Released(d, id) == IF id = 0 THEN d ELSE [d EXCEPT !.shapes = Retain(@, id, 0 - 1)]

schedule(d, k, at) == [d EXCEPT !.exp[k] = at]

\* The entry under its id: the id a key has, one that was freed, or a new one.
setEntry(d, k, e) ==
  IF Has(d, k) THEN [d EXCEPT !.ents[d.ids[k]] = e, !.metas = IF e.meta /\ @ < 0 THEN d.slots ELSE @]
  ELSE LET free == Len(d.freeIDs)
           id == IF free > 0 THEN d.freeIDs[free] ELSE Len(d.ents) + 1
           slots == entryCapacityFor(d, 1)
       IN [d EXCEPT !.ids[k] = id,
                    !.index = indexCapacityFor(@, Count(d) + 1),
                    !.freeIDs = IF free > 0 THEN Front(@) ELSE @,
                    !.ents = IF free > 0 THEN [@ EXCEPT ![id] = e] ELSE Append(@, e),
                    !.slots = slots,
                    !.metas = IF @ < 0 THEN (IF e.meta THEN slots ELSE @)
                              ELSE IF slots > @ THEN slots ELSE @]

Entry(p, ref) ==
  [ref |-> ref, codec |-> p.rec.codec, type |-> p.type, len |-> p.rec.len, expires |-> p.at # 0,
   stable |-> FALSE, meta |-> p.meta, schema |-> p.rec.schema]

Store(a, p) ==
  IF Inlined(p) THEN AllocInline(a, p.rec.data, p.rec.size) ELSE Alloc(a, p.rec.data, p.rec.size)

\* The bytes an arena gives back, off the account.
Credited(d, f) == [d EXCEPT !.arena = f.a, !.acc.used = @ - f.released, !.acc.arenas = @ - f.released]

Freed(d, ref) == Credited(d, Free(d.arena, ref))

Failed(d, e) == [db |-> d, err |-> e]

Old(d, k) == IF Has(d, k) THEN Ent(d, k) ELSE NoEntry

HotBytesOf(d, k) == IF Has(d, k) THEN HotSum(HotOf(d, d.ids[k])) ELSE 0

\* What a publication adds to each part of the account.  A hot hash has no
\* block: its entry refers to none.
Growth(d, k, p, old, more) ==
  [index |-> IF more = 0 THEN 0 ELSE indexGrowthBytes(d, 1),
   slots |-> (IF more = 0 THEN 0 ELSE entryGrowthBytes(d, 1)) + metaSlotGrowthBytes(d, more, p.meta),
   arena |-> (IF Inlined(p) THEN 0 ELSE GrowthFor(d.arena, <<p.rec.size>>)) + FreeGrowth(d.arena, old.ref),
   key |-> KeyCharge * more,
   meta |-> (IF p.meta THEN EntryMeta ELSE 0) - Meta(old),
   hot |-> 0 - HotBytesOf(d, k)]

\* The account after a growth, and with the payload of one block for another.
Grown(acc, g) ==
  [acc EXCEPT !.used = @ + g.key + g.meta + g.index + g.slots + g.arena + g.hot, !.hot = @ + g.hot,
              !.entries = @ + g.key + g.slots, !.metas = @ + g.meta, !.index = @ + g.index, !.arenas = @ + g.arena]

Exchanged(acc, p, old) ==
  [acc EXCEPT !.payload = @ - Payload(old) + (IF Inlined(p) THEN 0 ELSE p.rec.size),
              !.live = @ - AllocationBytes(old.ref) + (IF Inlined(p) \/ p.rec.size = 0 THEN 0 ELSE Block(p.rec.size))]

PutEntry(d, k, p, stored) == setEntry([d EXCEPT !.arena = stored.a], k, Entry(p, stored.ref))

\* The block, the schema and the hot table of the entry replaced are given up.
Retired(d, k, old) ==
  Freed(Released(IF isHotHash(old) THEN [d EXCEPT !.hot = @ \ HotOf(d, d.ids[k])] ELSE d, old.schema), old.ref)

Installed(d, k, p, old) ==
  schedule(Retired(PutEntry(d, k, p, Store(d.arena, p)), k, old), k, p.at)

Charged(d, p, old, acc) == [d EXCEPT !.shapes = Retain(@, p.rec.schema, 1), !.acc = Exchanged(acc, p, old)]

Admitted(d, k, p, old, acc) ==
  IF p.rec.schema # 0 /\ (~d.shapes.open \/ ByID(d.shapes, p.rec.schema) = {}) THEN Failed(d, "schema")
  ELSE IF Exceeds(d, acc.used) THEN Failed(d, "oom")
  ELSE Failed(Installed(Charged(d, p, old, acc), k, p, old), "")

publish(d, k, p) ==
  Admitted(d, k, p, Old(d, k), Grown(d.acc, Growth(d, k, p, Old(d, k), IF Has(d, k) THEN 0 ELSE 1)))

\* Deleting an id clears its hot slot, if there is an array of them.
Removed(d, k, id, e, growth, hotBytes) ==
  [Released(d, e.schema) EXCEPT
     !.panicked = @ \/ (d.hotSlots # 0 /\ id > d.hotLen),
     !.ids[k] = 0, !.ents[id] = NoEntry, !.freeIDs = Append(@, id),
     !.hot = @ \ HotOf(d, id), !.exp[k] = 0,
     !.acc = [@ EXCEPT !.used = @ - KeyCharge - Meta(e) - hotBytes + growth,
                       !.hot = @ - hotBytes, !.entries = @ - KeyCharge,
                       !.metas = @ - Meta(e), !.arenas = @ + growth,
                       !.payload = @ - Payload(e), !.live = @ - AllocationBytes(e.ref)]]

remove(d, k) ==
  IF ~Has(d, k) THEN d
  ELSE Freed(Removed(d, k, d.ids[k], Ent(d, k), FreeGrowth(d.arena, Ent(d, k).ref), HotBytesOf(d, k)), Ent(d, k).ref)

\* A key whose deadline has passed is removed by the command that meets it.
Purged(d, k) == IF expired(d, k) THEN remove(d, k) ELSE d

----------------------------------------------------------------------------
\* The commands.  Each is a function of the shard and the request, to the
\* shard and the reply.

Done(d, reply) == [db |-> d, reply |-> reply]

\* A publication that may fail: on failure nothing but d0 is left.
Attempt(d0, p, reply) == IF p.err = "" THEN Done(p.db, reply) ELSE Done(d0, Err(p.err))

Written(d, k, v, at) == publish(d, k, [makeEntry(v) EXCEPT !.at = at])

Deadline(d, k) == IF isLive(d, k) /\ Ent(d, k).expires THEN d.exp[k] ELSE 0

Current(d, k) == IF isLive(d, k) THEN decode(d, Ent(d, k)) ELSE <<>>

Read(d, k) == IF isLive(d, k) THEN Bulk(decode(d, Ent(d, k))) ELSE Nil

\* Replaces the value by one made from it, and keeps the deadline.
Renewed(d0, k, v, at, reply) == Attempt(d0, Written(d0, k, v, at), reply)

Modify(d, k, v, reply) == Renewed(Purged(d, k), k, v, Deadline(d, k), reply)

Get(d, r) == Done(d, Read(d, r.keys[1]))

SetPlain(d, r) == Renewed(Purged(d, r.keys[1]), r.keys[1], r.vals[1], 0, OK)

\* The log takes the record between the lookup and the publication.
SetPlainCommitted(d, r) ==
  IF r.b = 1 THEN Done(Purged(d, r.keys[1]), Err("commit")) ELSE SetPlain(d, r)

\* A deadline in the past publishes the value and removes it.
Settled(d0, p, r, reply) ==
  Attempt(d0, IF p.err = "" /\ r.a # 0 /\ r.a <= now THEN Failed(remove(p.db, r.keys[1]), "") ELSE p, reply)

SetLive(d0, r, at, reply) ==
  IF (r.opt = "NX" /\ Has(d0, r.keys[1])) \/ (r.opt = "XX" /\ ~Has(d0, r.keys[1])) THEN Done(d0, Nil)
  ELSE Settled(d0, Written(d0, r.keys[1], r.vals[1], at), r, reply)

SetWithOptions(d, r) ==
  SetLive(Purged(d, r.keys[1]), r, IF r.opt = "KEEPTTL" THEN Deadline(d, r.keys[1]) ELSE r.a,
          IF r.opt = "GET" THEN Read(d, r.keys[1]) ELSE OK)

GetSet(d, r) ==
  Attempt(d, Written(d, r.keys[1], r.vals[1], 0), Read(d, r.keys[1]))

DeleteMany(d, r) ==
  Done(FoldLeft(remove, d, r.keys), Num(Cardinality({k \in Range(r.keys) : isLive(d, k)})))

Exists(d, r) == Done(d, Num(Cardinality({i \in DOMAIN r.keys : isLive(d, r.keys[i])})))

Touch(d, r) == Done(FoldLeft(Purged, d, r.keys), Exists(d, r).reply)

MGetStrings(d, r) ==
  Done(d, Many([i \in DOMAIN r.keys |->
                  IF isLive(d, r.keys[i]) /\ Ent(d, r.keys[i]).type = "string" THEN Read(d, r.keys[i]) ELSE Nil]))

GetDelString(d, r) ==
  LET k == r.keys[1]
  IN IF isLive(d, k) /\ Ent(d, k).type = "string" THEN Done(remove(d, k), Read(d, k))
     ELSE Done(Purged(d, k), Nil)

expireAtConditional(d, r) ==
  LET k == r.keys[1]
      set == Ent(d, k).expires
      refused == \/ r.opt = "NX" /\ set
                 \/ r.opt = "XX" /\ ~set
                 \/ r.opt = "GT" /\ (~set \/ r.a <= d.exp[k])
                 \/ r.opt = "LT" /\ set /\ r.a >= d.exp[k]
  IN IF ~isLive(d, k) THEN Done(Purged(d, k), Num(0))
     ELSE IF refused THEN Done(d, Num(0))
     ELSE IF r.a <= now THEN Done(remove(d, k), Num(1))
     ELSE Done(schedule([d EXCEPT !.ents[d.ids[k]].expires = TRUE], k, r.a), Num(1))

Unscheduled(d, k) == schedule([d EXCEPT !.ents[d.ids[k]].expires = FALSE], k, 0)

Persist(d, r) ==
  LET k == r.keys[1]
  IN IF ~isLive(d, k) THEN Done(remove(d, k), Num(0))
     ELSE IF ~Ent(d, k).expires THEN Done(d, Num(0))
     ELSE Done(Unscheduled(d, k), Num(1))

ExpireTime(d, r) ==
  LET k == r.keys[1]
  IN Done(d, Num(IF ~isLive(d, k) THEN 0 - 2 ELSE IF ~Ent(d, k).expires THEN 0 - 1 ELSE d.exp[k]))

GetEx(d, r) ==
  LET k == r.keys[1]
      value == Read(d, k)
  IN IF ~isLive(d, k) THEN Done(Purged(d, k), Nil)
     ELSE IF r.opt = "PERSIST" THEN Done(Unscheduled(d, k), value)
     ELSE IF r.a = 0 THEN Done(d, value)
     ELSE IF r.a <= now THEN Done(remove(d, k), value)
     ELSE Done(schedule([d EXCEPT !.ents[d.ids[k]].expires = TRUE], k, r.a), value)

\* The sum, unless it would overflow, which is tested without computing it.
AddTo(d, k, n, delta) ==
  IF (delta > 0 /\ n > MaxInt - delta) \/ (delta < 0 /\ n < MinInt - delta) THEN Done(Purged(d, k), Err("overflow"))
  ELSE Modify(d, k, Formatted(n + delta), Num(n + delta))

Add(d, k, delta) ==
  IF ~isLive(d, k) THEN AddTo(d, k, 0, delta)
  ELSE IF ~IsInteger(Current(d, k)) THEN Done(d, Err("integer"))
  ELSE AddTo(d, k, IntegerOf(Current(d, k)), delta)

\* The least integer has no opposite: only a negative number is left of it.
Sub(d, k, delta) ==
  IF delta = MinInt /\ (~isLive(d, k) \/ (IsInteger(Current(d, k)) /\ IntegerOf(Current(d, k)) >= 0))
  THEN Done(d, Err("overflow"))
  ELSE Add(d, k, 0 - delta)

FloatTo(d, k, n) == Modify(d, k, Formatted(n), Bulk(Formatted(n)))

AddFloat(d, r) ==
  LET k == r.keys[1]
  IN IF isLive(d, k) /\ ~IsNumber(Current(d, k)) THEN Done(d, Err("float"))
     ELSE FloatTo(d, k, (IF isLive(d, k) THEN NumberOf(Current(d, k)) ELSE 0) + r.a)

\* RENAME publishes the decoded value again; RenameHash has its own path.
Moved(d0, from, p) == Attempt(d0, IF p.err = "" THEN Failed(remove(p.db, from), "") ELSE p, Num(1))

RenameTo(d0, r, e) ==
  IF r.opt = "NX" /\ Has(d0, r.keys[2]) THEN Done(d0, Num(0))
  ELSE Moved(d0, r.keys[1], publish(d0, r.keys[2], e))

Rename(d, r) ==
  LET k == r.keys[1]
      e == IF Ent(d, k).type = "hash" THEN hashEntry(valueOf(d, k)) ELSE makeEntry(Current(d, k))
  IN IF k = r.keys[2] THEN Done(d, Err("same"))
     ELSE IF ~isLive(d, k) THEN Done(Purged(d, k), Err("nokey"))
     ELSE RenameTo(Purged(d, r.keys[2]), r, [e EXCEPT !.at = Deadline(d, k)])

Appended(d, k, v) ==
  IF Len(v) > MaxString THEN Done(Purged(d, k), Err("size")) ELSE Modify(d, k, v, Num(Len(v)))

Append_(d, r) == Appended(d, r.keys[1], Current(d, r.keys[1]) \o r.vals[1])

GetRange(d, r) ==
  LET v == Current(d, r.keys[1])
      length == Len(v)
      start == IF r.a < 0 THEN (IF length + r.a < 0 THEN 0 ELSE length + r.a) ELSE r.a
      end0 == IF r.b < 0 THEN length + r.b ELSE r.b
      end == IF end0 >= length THEN length - 1 ELSE end0
  IN Done(Purged(d, r.keys[1]),
          Bulk(IF length = 0 \/ end0 < 0 \/ start >= length \/ start > end0 THEN <<>>
               ELSE SubSeq(v, start + 1, end + 1)))

Overlaid(current, v, start) ==
  [i \in 1..(IF start + Len(v) > Len(current) THEN start + Len(v) ELSE Len(current)) |->
     IF i > start /\ i <= start + Len(v) THEN v[i - start] ELSE IF i <= Len(current) THEN current[i] ELSE 0]

SetRange(d, r) ==
  LET k == r.keys[1]
      v == r.vals[1]
  IN IF r.a < 0 \/ r.a > MaxString THEN Done(d, Err("size"))
     ELSE IF r.a + Len(v) > MaxString THEN Done(Purged(d, k), Err("size"))
     ELSE IF v = <<>> THEN Done(Purged(d, k), Num(Len(Current(d, k))))
     ELSE Appended(d, k, Overlaid(Current(d, k), v, r.a))

----------------------------------------------------------------------------
\* Bitmaps: bytes and masks.

Mask(offset) == 2^(ByteBits - 1 - (offset % ByteBits))

ByteOf(offset) == (offset \div ByteBits) + 1

bitValueAt(v, offset) == (v[ByteOf(offset)] \div Mask(offset)) % 2

Ones(b) == Cardinality({i \in 0..(ByteBits - 1) : (b \div 2^i) % 2 = 1})

Total(S, f(_)) == MapThenSumSet(f, S)

OffsetRefused(offset) == offset < 0 \/ offset > ByteBits * MaxString - 1

GetBit(d, r) ==
  LET v == Current(d, r.keys[1])
  IN IF OffsetRefused(r.a) THEN Done(d, Err("offset"))
     ELSE Done(d, Num(IF ByteOf(r.a) > Len(v) THEN 0 ELSE bitValueAt(v, r.a)))

WithBit(d, r, wide, old) ==
  Modify(d, r.keys[1], [wide EXCEPT ![ByteOf(r.a)] = @ + (r.b - old) * Mask(r.a)], Num(old))

Widened(d, r, wide) == WithBit(d, r, wide, bitValueAt(wide, r.a))

SetBit(d, r) ==
  IF OffsetRefused(r.a) THEN Done(d, Err("offset"))
  ELSE Widened(d, r, Overlaid([i \in 1..ByteOf(r.a) |-> 0], Current(d, r.keys[1]), 0))

\* Both ends of a range within the length, or nothing.
normalizeBitRange(length, start, end) ==
  LET s == IF start < 0 THEN (IF length + start < 0 THEN 0 ELSE length + start) ELSE start
      e == IF end < 0 THEN length + end ELSE end
      last == IF e >= length THEN length - 1 ELSE e
  IN IF length <= 0 \/ e < 0 \/ s >= length \/ s > last THEN <<>> ELSE <<s, last>>

\* The ends of the range bit by bit, the bytes between them whole.
countBitsInBitRange(v, first, last) ==
  LET One(i) == bitValueAt(v, i)
      Whole(b) == Ones(v[b])
  IN IF ByteOf(first) = ByteOf(last) THEN Total(first..last, One)
     ELSE Total(first..(ByteBits * ByteOf(first) - 1), One)
            + Total((ByteOf(first) + 1)..(ByteOf(last) - 1), Whole)
            + Total((ByteBits * (ByteOf(last) - 1))..last, One)

CountIn(v, r, range) ==
  IF range = <<>> THEN 0
  ELSE IF r.opt = "bits" THEN countBitsInBitRange(v, range[1], range[2])
  ELSE Total((range[1] + 1)..(range[2] + 1), LAMBDA b : Ones(v[b]))

BitCountOf(v, r) ==
  IF r.opt = "all" THEN Total(DOMAIN v, LAMBDA b : Ones(v[b]))
  ELSE CountIn(v, r, normalizeBitRange(IF r.opt = "bits" THEN ByteBits * Len(v) ELSE Len(v), r.a, r.b))

BitCount(d, r) == Done(d, Num(BitCountOf(Current(d, r.keys[1]), r)))

resolveRangeStart(length, start) ==
  IF start >= 0 THEN start ELSE IF length + start < 0 THEN 0 ELSE length + start

\* Without an end the value goes on with zeros; with one it does not.
FirstBit(v, target, lo, hi) ==
  LET hits == {i \in lo..hi : bitValueAt(v, i) = target} IN IF hits = {} THEN 0 - 1 ELSE Min(hits)

OpenPos(v, target, lo, bits) ==
  LET hits == {i \in lo..(bits - 1) : bitValueAt(v, i) = target}
  IN IF hits # {} THEN Min(hits) ELSE IF target = 0 THEN bits ELSE 0 - 1

\* unit: bits in a unit of the range; units: the length in them.
PosIn(v, r, target, unit, units, start) ==
  LET end0 == IF r.b < 0 THEN units + r.b ELSE r.b
      end == IF end0 >= units THEN units - 1 ELSE end0
  IN IF r.opt = "all" THEN OpenPos(v, target, 0, ByteBits * Len(v))
     ELSE IF r.vals[2] = <<>>
     THEN (IF start >= units THEN (IF target = 0 THEN unit * start ELSE 0 - 1)
           ELSE OpenPos(v, target, unit * start, ByteBits * Len(v)))
     ELSE IF end0 < 0 \/ start >= units \/ start > end THEN 0 - 1
     ELSE FirstBit(v, target, unit * start, unit * end + unit - 1)

BitPosOf(v, r, unit, units) == PosIn(v, r, r.vals[1][1], unit, units, resolveRangeStart(units, r.a))

BitPosIn(v, r) ==
  IF r.opt = "bits" THEN BitPosOf(v, r, 1, ByteBits * Len(v)) ELSE BitPosOf(v, r, ByteBits, Len(v))

BitPos(d, r) == Done(d, Num(BitPosIn(Current(d, r.keys[1]), r)))

\* Bits of one position of the sources, combined byte by byte.
BitOfOp(op, b) ==
  LET ones == FoldLeft(LAMBDA n, x : n + x, 0, b)
      others == ones - b[1]
      or == IF others > 0 THEN 1 ELSE 0
  IN CASE op = "AND" -> IF ones = Len(b) THEN 1 ELSE 0
       [] op = "OR" -> IF ones > 0 THEN 1 ELSE 0
       [] op = "XOR" -> ones % 2
       [] op = "NOT" -> 1 - b[1]
       [] op = "DIFF" -> b[1] * (1 - or)
       [] op = "DIFF1" -> or * (1 - b[1])
       [] op = "ANDOR" -> b[1] * or
       [] op = "ONE" -> IF ones = 1 THEN 1 ELSE 0

\* Sources are read before the destination, which may be one of them, changes.
BitAt(v, b, p) == IF b > Len(v) THEN 0 ELSE (v[b] \div 2^p) % 2

Operated(op, sources) ==
  [b \in 1..Max({Len(sources[i]) : i \in DOMAIN sources}) |->
     FoldFunction(+, 0, [p \in 0..(ByteBits - 1) |->
       2^p * BitOfOp(op, [i \in DOMAIN sources |-> BitAt(sources[i], b, p)])])]

BitOpTo(d0, dest, result) ==
  IF result = <<>> THEN Done(remove(d0, dest), Num(0)) ELSE Renewed(d0, dest, result, 0, Num(Len(result)))

BitOp(d, r) ==
  BitOpTo(FoldLeft(Purged, d, Tail(r.keys)), r.keys[1],
          Operated(r.opt, [i \in 1..(Len(r.keys) - 1) |-> Current(d, r.keys[i + 1])]))

----------------------------------------------------------------------------
\* Several keys at once.  The growth of everything is planned first, so that
\* the limit is tested once; then all the blocks are allocated.

\* One preparation a key: the last value given for it.
Replacements(r) ==
  LET last == {i \in DOMAIN r.keys : \A j \in DOMAIN r.keys : j > i => r.keys[j] # r.keys[i]}
  IN [k \in {r.keys[i] : i \in last} |-> r.vals[CHOOSE i \in last : r.keys[i] = k]]

Tracked(p) == [p EXCEPT !.meta = conf.encoding]

\* Every block is allocated before the first entry is set and its old block freed.
Placed(d, ks, values) ==
  LET Allocate(acc, k) ==
        LET p == Tracked(makeEntry(values[k]))
            stored == Alloc(acc.a, p.rec.data, p.rec.size)
        IN [a |-> stored.a, put |-> Append(acc.put, <<k, Entry(p, stored.ref)>>)]
      all == FoldLeft(Allocate, [a |-> d.arena, put |-> <<>>], ks)
      Set(x, ke) ==
        LET old == IF Has(x, ke[1]) THEN Ent(x, ke[1]) ELSE NoEntry
        IN Freed(schedule(setEntry(Released(x, old.schema), ke[1], ke[2]), ke[1], 0), old.ref)
  IN FoldLeft(Set, [d EXCEPT !.arena = all.a], all.put)

\* MSET and MSETNX: the plan, the limit, then every key in order.
MultiGrowth(d, recs, n, old) ==
  [key |-> KeyCharge * n,
   meta |-> (IF conf.encoding THEN EntryMeta * Len(recs) ELSE 0) - MapThenSumSet(LAMBDA k : Meta(Ent(d, k)), old),
   index |-> IF n = 0 THEN 0 ELSE indexGrowthBytes(d, n),
   slots |-> (IF n = 0 THEN 0 ELSE entryGrowthBytes(d, n)) + metaSlotGrowthBytes(d, n, conf.encoding),
   arena |-> GrowthFor(d.arena, [i \in DOMAIN recs |-> recs[i].size]), hot |-> 0]

\* The payload of the new records and of the old ones.
Swapped(d, acc, recs, old) ==
  [acc EXCEPT !.payload = @ + FoldLeft(LAMBDA n, x : n + x.size, 0, recs)
                            - MapThenSumSet(LAMBDA k : Ent(d, k).ref.size, old),
              !.live = @ + FoldLeft(LAMBDA n, x : n + (IF x.size = 0 THEN 0 ELSE Block(x.size)), 0, recs)
                         - MapThenSumSet(LAMBDA k : AllocationBytes(Ent(d, k).ref), old)]

MultiPlaced(d, ks, values, acc) ==
  IF Exceeds(d, acc.used) THEN Failed(d, "oom") ELSE Failed(Placed([d EXCEPT !.acc = acc], ks, values), "")

MultiOf(d, ks, values, recs, old) ==
  MultiPlaced(d, ks, values, Swapped(d, Grown(d.acc, MultiGrowth(d, recs, Len(ks) - Cardinality(old), old)), recs, old))

MultiSet(d, ks, values) ==
  MultiOf(d, ks, values, [i \in DOMAIN ks |-> Encode(values[ks[i]])], {k \in DOMAIN values : Has(d, k)})

InOrder(S) == SetToSortSeq(S, LAMBDA a, b : KeyOrder[a] < KeyOrder[b])

MultiLast(d, values) == MultiSet(d, InOrder(DOMAIN values), values)

Multi(d, r) == MultiLast(d, Replacements(r))

MSet(d, r) == Attempt(d, Multi(d, r), OK)

MSetAfter(d0, r) == Attempt(d0, Multi(d0, r), Num(1))

MSetNX(d, r) ==
  LET live == {i \in DOMAIN r.keys : isLive(d, r.keys[i])}
  IN IF live # {} THEN Done(FoldLeft(Purged, d, SubSeq(r.keys, 1, Min(live) - 1)), Num(0))
     ELSE MSetAfter(FoldLeft(Purged, d, r.keys), r)

\* Whether the optimizer may find a smaller form of a value later.
Class(v) ==
  IF ~conf.encoding THEN "none"
  ELSE IF conf.shapes /\ Structured(v) THEN "json"
  ELSE IF conf.compression /\ Unit * Len(v) >= 256 THEN "compress" ELSE "none"

\* A pipeline of SETs shard by shard, each published on its own.
LocalSet(d0, k, v) ==
  Attempt(d0, publish(d0, k, [makeEntry(v) EXCEPT !.meta = Has(d0, k) /\ Class(v) # "none"]), OK)

Local(d, r) ==
  FoldLeft(LAMBDA x, i : IF x.reply # OK THEN x ELSE LocalSet(Purged(x.db, r.keys[i]), r.keys[i], r.vals[i]),
           Done(d, OK), [i \in DOMAIN r.keys |-> i])

\* A pipeline of SETs of new keys as one plan; anything else is left to the
\* caller, which runs one SET after the other.
BatchAccount(d, n, sizes) ==
  [Grown(d.acc, [key |-> n * (IF conf.packed THEN KeyCharge ELSE KeyLength), meta |-> 0, hot |-> 0,
                 index |-> indexGrowthBytes(d, n), slots |-> entryGrowthBytes(d, n) + metaSlotGrowthBytes(d, n, FALSE),
                 arena |-> GrowthFor(d.arena, sizes)]) EXCEPT
     !.payload = @ + FoldLeft(LAMBDA a, b : a + b, 0, sizes),
     !.live = @ + FoldLeft(LAMBDA a, b : a + (IF b = 0 THEN 0 ELSE Block(b)), 0, sizes)]

BatchPut(x, k, p) == schedule(PutEntry(x, k, p, Store(x.arena, p)), k, 0)

BatchPlaced(d, r, ps, acc) ==
  IF Exceeds(d, acc.used) THEN Done(d, Err("oom"))
  ELSE Done(FoldLeft(LAMBDA x, i : BatchPut(x, r.keys[i], ps[i]), [d EXCEPT !.acc = acc], [i \in DOMAIN ps |-> i]), OK)

BatchOf(d, r, ps) ==
  BatchPlaced(d, r, ps, BatchAccount(d, Len(ps), [i \in DOMAIN ps |-> IF Inlined(ps[i]) THEN 0 ELSE ps[i].rec.size]))

SetPlainBatchFresh(d, r) ==
  IF ~IsInjective(r.keys) \/ \E i \in DOMAIN r.keys : Has(d, r.keys[i]) THEN Done(d, Err("unhandled"))
  ELSE BatchOf(d, r, [i \in DOMAIN r.keys |-> makeEntry(r.vals[i])])

----------------------------------------------------------------------------
\* Hashes.  One of HotFields fields or more that is written again turns hot:
\* its fields leave the arena for a table of their own.

Hot(d, k) == CHOOSE h \in HotOf(d, d.ids[k]) : TRUE

Thawed(d, k, e, h, slotBytes, sidecar, growth) ==
  [d EXCEPT
     !.ents[d.ids[k]] = [e EXCEPT !.stable = TRUE, !.ref = NoRef],
     !.hot = @ \cup {h}, !.hotSlots = d.slots, !.hotLen = Len(d.ents),
     !.metas = IF @ < 0 THEN d.slots ELSE @,
     !.acc = [@ EXCEPT !.used = @ + HotBytes(h) + slotBytes + sidecar + growth,
                       !.hot = @ + HotBytes(h) + slotBytes, !.entries = @ + sidecar,
                       !.arenas = @ + growth, !.payload = @ - Payload(e), !.live = @ - AllocationBytes(e.ref)]]

ThawedWith(d, k, e, fields) ==
  IF Len(fields) < HotFields THEN d
  ELSE Freed(Thawed(d, k, e, [id |-> d.ids[k], fields |-> fields, at |-> now],
                    IF d.slots > d.hotSlots THEN (d.slots - d.hotSlots) * MetaSlot ELSE 0,
                    IF d.metas < 0 THEN Sidecar + d.slots * MetaSlot ELSE 0,
                    FreeGrowth(d.arena, e.ref)), e.ref)

thawHotHash(d, k) ==
  IF ~Has(d, k) \/ d.max # 0 \/ isHotHash(Ent(d, k)) THEN d
  ELSE ThawedWith(d, k, Ent(d, k), decode(d, Ent(d, k)))

Mutated(d, old, new, grown) ==
  [d EXCEPT !.hot = (@ \ {old}) \cup {new}, !.acc.used = @ + grown, !.acc.hot = @ + grown]

mutateHotHash(d, old, fields) ==
  Mutated(d, old, [old EXCEPT !.fields = fields, !.at = now], HotBytes([old EXCEPT !.fields = fields]) - HotBytes(old))

hashSetTo(d, k, new) ==
  IF Has(d, k) /\ isHotHash(Ent(d, k)) THEN Failed(mutateHotHash(d, Hot(d, k), new), "")
  ELSE publish(d, k, [hashEntry(new) EXCEPT !.at = Deadline(d, k)])

hashSetLocked(d, k, f, old) == hashSetTo(d, k, IF f \in Range(old) THEN old ELSE Append(old, f))

Fields(d, k) == IF Has(d, k) THEN valueOf(d, k) ELSE <<>>

\* HSET alone; in a pipeline ("batch") the hash thaws before and after.
Rethawed(p, r) ==
  IF p.err = "" /\ r.opt = "batch" THEN Failed(thawHotHash(p.db, r.keys[1]), "") ELSE p

HashSetAfter(d0, r, old) ==
  Attempt(d0, Rethawed(hashSetLocked(d0, r.keys[1], r.vals[1][1], old), r),
          Num(IF r.vals[1][1] \in Range(old) THEN 0 ELSE 1))

HashSetLive(d0, r) ==
  HashSetAfter(IF r.opt = "batch" THEN thawHotHash(d0, r.keys[1]) ELSE d0, r, Fields(d0, r.keys[1]))

HashSet(d, r) == HashSetLive(Purged(d, r.keys[1]), r)

freezeHotHash(d, k) ==
  publish(d, k, [hashEntry(Hot(d, k).fields) EXCEPT !.at = d.exp[k]])

----------------------------------------------------------------------------
\* The whole of a request, after the guard against values of another type.

FlushDB(d) == [EmptyDB EXCEPT !.max = d.max]

ReadType(d, k) ==
  IF ~isLive(d, k) THEN Num(0) ELSE IF Ent(d, k).type = "hash" THEN Num(2) ELSE Num(1)

ExecuteBytes(d, r) ==
  CASE r.op = "APPEND" -> Append_(d, r)
    [] r.op = "GETRANGE" -> GetRange(d, r)
    [] r.op = "SETRANGE" -> SetRange(d, r)
    [] r.op = "GETBIT" -> GetBit(d, r)
    [] r.op = "SETBIT" -> SetBit(d, r)
    [] r.op = "BITCOUNT" -> BitCount(d, r)
    [] r.op = "BITPOS" -> BitPos(d, r)
    [] r.op = "BITOP" -> BitOp(d, r)

ExecuteGets(d, r) == IF r.op = "GETDEL" THEN GetDelString(d, r) ELSE GetEx(d, r)

ExecuteStrings(d, r) ==
  CASE r.op = "GET" -> Get(d, r)
    [] r.op = "SET" -> IF r.opt = "" /\ r.a = 0 THEN SetPlainCommitted(d, r) ELSE SetWithOptions(d, r)
    [] r.op = "GETSET" -> GetSet(d, r)
    [] r.op = "MSET" -> MSet(d, r)
    [] r.op = "MSETNX" -> MSetNX(d, r)
    [] r.op = "MGET" -> MGetStrings(d, r)
    [] r.op = "EXISTS" -> Exists(d, r)
    [] r.op = "DEL" -> DeleteMany(d, r)
    [] r.op = "INCRBY" -> Add(d, r.keys[1], r.a)
    [] r.op = "DECRBY" -> Sub(d, r.keys[1], r.a)
    [] r.op = "TYPE" -> Done(d, ReadType(d, r.keys[1]))

ExecuteKeys(d, r) ==
  CASE r.op = "EXPIRE" -> expireAtConditional(d, r)
    [] r.op = "PERSIST" -> Persist(d, r)
    [] r.op = "RENAME" -> Rename(d, r)
    [] r.op = "KEYS" -> Done(d, Num(Cardinality({x \in Keys : isLive(d, x)})))

ExecuteRest(d, r) ==
  CASE r.op = "FLUSHDB" -> Done(FlushDB(d), OK)
    [] r.op = "TOUCH" -> Touch(d, r)
    [] r.op = "INCRBYFLOAT" -> AddFloat(d, r)
    [] r.op = "EXPIRETIME" -> ExpireTime(d, r)

\* Pipelines of SETs, and hashes.
ExecuteOthers(d, r) ==
  CASE r.op = "BATCH" -> SetPlainBatchFresh(d, r)
    [] r.op = "LOCAL" -> Local(d, r)
    [] r.op = "HSET" -> HashSet(d, r)

Execute(d, r) ==
  CASE WrongType(Visible(d, now), r) -> Done(d, Err("wrongtype"))
    [] r.op \in {"APPEND", "GETRANGE", "SETRANGE", "GETBIT", "SETBIT", "BITCOUNT", "BITPOS", "BITOP"} -> ExecuteBytes(d, r)
    [] r.op \in {"GETDEL", "GETEX"} -> ExecuteGets(d, r)
    [] r.op \in {"EXPIRE", "PERSIST", "RENAME", "KEYS"} -> ExecuteKeys(d, r)
    [] r.op \in {"FLUSHDB", "TOUCH", "INCRBYFLOAT", "EXPIRETIME"} -> ExecuteRest(d, r)
    [] r.op \in {"BATCH", "LOCAL", "HSET"} -> ExecuteOthers(d, r)
    [] OTHER -> ExecuteStrings(d, r)

----------------------------------------------------------------------------
\* A worker of the optimizer: several critical sections for one key.

Idle == [pc |-> "idle", key |-> "", raw |-> 0, cand |-> NoRecord, rec |-> NoRecord]

\* Terminal forms are left alone.  Heat and the two intervals may refuse any
\* value with metadata, so that metadata only ever makes a job optional.
OptimizationEligible(d, k) ==
  /\ isLive(d, k) /\ Ent(d, k).type = "string" /\ ~Ent(d, k).stable
  /\ Ent(d, k).schema = 0
  /\ Ent(d, k).codec = "run" => Ent(d, k).meta

Free_(w) == jobs' = [jobs EXCEPT ![w] = Idle]

\* The key is taken from the queue and scratch reserved for it.
Dequeue(w, k) ==
  /\ jobs[w] = Idle /\ OptimizationEligible(db, k)
  /\ jobs' = [jobs EXCEPT ![w] = [Idle EXCEPT !.pc = "reserved", !.key = k, !.raw = Ent(db, k).len]]
  /\ UNCHANGED db

EncodedBytes(d, k) == IF Ent(d, k).ref.at = "none" THEN 0 ELSE Ent(d, k).ref.size

\* A snapshot of the value, its generation and its deadline.
CandidateInto(w) ==
  LET k == jobs[w].key
      fails == ~isLive(db, k) \/ Ent(db, k).type # "string" \/ Ent(db, k).len > jobs[w].raw
      cand == [value |-> decode(db, Ent(db, k)), gen |-> Ent(db, k).ref.gen, at |-> db.exp[k],
               bytes |-> EncodedBytes(db, k), meta |-> Ent(db, k).meta]
  IN /\ jobs[w].pc = "reserved"
     /\ jobs' = [jobs EXCEPT ![w] =
          IF fails THEN Idle
          ELSE [@ EXCEPT !.cand = cand, !.pc = IF Class(cand.value) = "json" THEN "observe" ELSE "encode"]]
     /\ UNCHANGED db

ObserveJSONShape(w) ==
  /\ jobs[w].pc = "observe"
  /\ db' = [db EXCEPT !.shapes = Observe(@, jobs[w].cand.value)]
  /\ jobs' = [jobs EXCEPT ![w].pc = "encode"]

\* The smallest of the raw, the shared and the compressed form.
Best(d, v) ==
  LET raw == Encode(v)
      shared == {[codec |-> "shape", data |-> SubSeq(v, 3, Len(v)), size |-> Unit * (Len(v) - 2),
                  len |-> Len(v), schema |-> s.id] : s \in IF conf.shapes THEN Lookup(d.shapes, v) ELSE {}}
      run == IF conf.compression /\ Len(v) > 1 /\ Cardinality(Range(v)) = 1
             THEN {[codec |-> "run", data |-> <<v[1]>>, size |-> 2, len |-> Len(v), schema |-> 0]} ELSE {}
      forms == {raw} \cup shared \cup run
  IN CHOOSE f \in forms : \A g \in forms : f.size <= g.size

\* The form has to earn its keep, metadata included.
EncodeCandidate(w) ==
  LET cand == jobs[w].cand
      rec == Best(db, cand.value)
      saving == cand.bytes - rec.size
      meta == IF cand.meta \/ (rec.schema = 0 /\ rec.codec = "run" /\ ~Structured(cand.value)) THEN 0 ELSE EntryMeta
      poor == saving < 16 + meta \/ saving * 8 < cand.bytes
  IN /\ jobs[w].pc = "encode"
     /\ jobs' = [jobs EXCEPT ![w] =
          IF cand.bytes < 16 THEN Idle
          ELSE IF ~poor THEN [@ EXCEPT !.rec = rec, !.pc = "attempt"]
          ELSE IF Class(cand.value) = "compress" THEN [@ EXCEPT !.pc = "stable"] ELSE Idle]
     /\ UNCHANGED db

\* The generation alone says that the value is still the one looked at.
MarkRawStable(w) ==
  LET k == jobs[w].key
      e == Ent(db, k)
      takes == /\ Has(db, k) /\ e.codec = "raw" /\ e.ref.gen = jobs[w].cand.gen
               /\ e.type = "string" /\ ~e.stable /\ e.schema = 0
  IN /\ jobs[w].pc = "stable"
     /\ db' = IF ~takes THEN db
              ELSE [db EXCEPT !.ents[db.ids[k]] = [e EXCEPT !.stable = TRUE, !.meta = FALSE],
                              !.acc.used = @ - Meta(e), !.acc.metas = @ - Meta(e)]
     /\ Free_(w)

MarkOptimizationAttempt(w) ==
  /\ jobs[w].pc = "attempt"
  /\ jobs' = [jobs EXCEPT ![w] =
       IF OptimizationEligible(db, jobs[w].key) THEN [@ EXCEPT !.pc = "rewrite"] ELSE Idle]
  /\ UNCHANGED db

\* Mutant: the generation and the deadline are believed.
CurrentUnread(d, k, cand) == d.exp[k] = cand.at /\ Ent(d, k).ref.gen = cand.gen

\* The value is the one of the candidate: same generation, deadline and bytes.
Unchanged(d, k, cand) ==
  Ent(d, k).ref.gen = cand.gen /\ d.exp[k] = cand.at /\ decode(d, Ent(d, k)) = cand.value

Rewrite(w) ==
  LET k == jobs[w].key
      cand == jobs[w].cand
      rec == jobs[w].rec
      e == Ent(db, k)
      takes == /\ isLive(db, k) /\ e.type = "string"
               /\ Unchanged(db, k, cand) /\ rec.size < EncodedBytes(db, k)
      meta == rec.schema # 0 \/ Structured(cand.value) \/ e.meta
  IN /\ jobs[w].pc = "rewrite"
     /\ db' = IF takes THEN publish(db, k, [rec |-> rec, type |-> "string", meta |-> meta, at |-> cand.at]).db ELSE db
     /\ Free_(w)

----------------------------------------------------------------------------
\* Maintenance.

CleanupExpired(d) == FoldLeft(Purged, d, SetToSortSeq(Keys, LAMBDA a, b : d.exp[a] < d.exp[b] \/ (d.exp[a] = d.exp[b] /\ KeyOrder[a] < KeyOrder[b])))

\* The shard copied into fresh storage of the right size, longest values first.
Rebuilt(d) ==
  LET ks == SetToSortSeq({k \in Keys : Has(d, k)}, LAMBDA a, b :
              \/ Ent(d, a).ref.size > Ent(d, b).ref.size
              \/ Ent(d, a).ref.size = Ent(d, b).ref.size /\ KeyOrder[a] < KeyOrder[b])
      n == Len(ks)
      Copy(x, k) ==
        LET ref == Ent(d, k).ref
            data == View(d.arena, ref)
            new == IF ref.at = "inline" THEN AllocInline(x.a, data, ref.size) ELSE Alloc(x.a, data, ref.size)
        IN [a |-> new.a, ents |-> Append(x.ents, [Ent(d, k) EXCEPT !.ref = new.ref])]
      fresh == FoldLeft(Copy, [a |-> EmptyArena, ents |-> <<>>], ks)
  IN [d EXCEPT !.ids = [k \in Keys |-> IF Has(d, k) THEN SelectInSeq(ks, LAMBDA x : x = k) ELSE 0],
               !.ents = fresh.ents, !.slots = n, !.freeIDs = <<>>, !.arena = fresh.a,
               !.index = IF n = 0 THEN 0 ELSE indexCapacityFor(4, n),
               !.metas = IF @ < 0 THEN @ ELSE n, !.hotSlots = 0, !.hotLen = 0]

EntryStorage(d) == d.slots * EntryStruct + (IF d.metas < 0 THEN 0 ELSE Sidecar + d.metas * MetaSlot)

Frozen(p) == [p.db EXCEPT !.panicked = @ \/ p.err # ""]

Froze(d, hotKeys) == FoldLeft(LAMBDA x, k : Frozen(freezeHotHash(x, k)), d, InOrder(hotKeys))

\* What the rebuilt shard would add.
RebuildGrowth(cold, new) ==
  [key |-> 0, meta |-> 0, index |-> (new.index - cold.index) * IndexSlot,
   slots |-> EntryStorage(new) - EntryStorage(cold),
   arena |-> TotalMemory(new.arena) - TotalMemory(cold.arena), hot |-> 0 - cold.hotSlots * MetaSlot]

Replaced(cold, new, acc) == IF Exceeds(cold, acc.used) THEN cold ELSE [new EXCEPT !.acc = acc]

CompactTo(cold, new) == Replaced(cold, new, Grown(cold.acc, RebuildGrowth(cold, new)))

CompactCold(cold, old) ==
  IF cold.panicked \/ old = 0 \/ 3 * old > conf.scratch THEN cold ELSE CompactTo(cold, Rebuilt(cold))

Compacted(cold) ==
  CompactCold(cold, TotalMemory(cold.arena) + cold.index * IndexSlot + EntryStorage(cold))

CompactHot(d, hotKeys) ==
  IF \E k \in hotKeys : now <= Hot(d, k).at THEN d ELSE Compacted(Froze(d, hotKeys))

Compact(d) == CompactHot(d, {k \in Keys : Has(d, k) /\ isHotHash(Ent(d, k))})

----------------------------------------------------------------------------
\* The specification.

Seeded == FoldLeft(LAMBDA d, r : Execute(d, r).db, [EmptyDB EXCEPT !.max = conf.max], conf.seed)

Init ==
  /\ conf \in Deployments
  /\ now = 0
  /\ db = Seeded
  /\ jobs = [w \in Workers |-> Idle]
  /\ agreed = TRUE
  /\ steps = 0

\* Refusals that leave everything as it was.
Refused(reply) == reply \in {Err("oom"), Err("commit"), Err("schema"), Err("unhandled")}

Command ==
  \E r \in conf.requests :
    \E done \in {Execute(db, r)} :
      /\ db' = done.db
      /\ \E want \in {Want(Visible(db, now), now, r)} :
           agreed' = IF done.db.panicked THEN TRUE
                     ELSE IF Refused(done.reply) THEN Visible(done.db, now) = Visible(db, now)
                     ELSE Visible(done.db, now) = want.m /\ done.reply = want.reply
      /\ UNCHANGED <<jobs, now>>

\* No step but a command changes what can be read.
Silently == agreed' = (Visible(db', now) = Visible(db, now)) /\ UNCHANGED now

Optimize ==
  /\ \E w \in conf.workers : \/ \E k \in conf.queued : Dequeue(w, k)
                         \/ CandidateInto(w) \/ ObserveJSONShape(w) \/ EncodeCandidate(w)
                         \/ MarkRawStable(w) \/ MarkOptimizationAttempt(w) \/ Rewrite(w)
  /\ Silently

Maintain ==
  /\ \/ "compact" \in conf.background /\ db' = Compact(db)
     \/ "expire" \in conf.background /\ db' = CleanupExpired(db)
     \/ \E m \in conf.limits : m # db.max /\ db' = [db EXCEPT !.max = m]
  /\ db' # db
  /\ Silently /\ UNCHANGED jobs

Tick == now < conf.ticks /\ now' = now + 1 /\ UNCHANGED <<db, jobs, agreed>>

Next ==
  /\ steps < conf.steps /\ agreed /\ ~db.panicked
  /\ Command \/ Optimize \/ Maintain \/ Tick
  /\ steps' = steps + 1
  /\ UNCHANGED conf

Spec == Init /\ [][Next]_keyspaceVars

----------------------------------------------------------------------------

TypeOK ==
  /\ db.ids \in [Keys -> 0..Len(db.ents)] /\ db.slots >= Len(db.ents)
  /\ now \in 0..conf.ticks /\ agreed \in BOOLEAN /\ steps \in 0..conf.steps

\* The entries that refer to a schema.
Users(id) == {k \in Keys : Has(db, k) /\ Ent(db, k).schema = id}

\* Every command answers and leaves what StringSpec says, and nothing else
\* changes what can be read: not the optimizer, which works on an old copy of
\* a value, nor compaction, which moves every block, nor expiry (Rewrite,
\* Compact, publishRecordKnownWithHash).  No block is shared or freed while
\* an entry refers to it, and the schema of a shared record stays as long as
\* there is a record.
KeyspaceKept ==
  /\ agreed /\ ~db.panicked
  /\ \A k \in Keys : Has(db, k) =>
       /\ Viewable(db.arena, Ent(db, k).ref)
       /\ \A j \in Keys \ {k} : Has(db, j) /\ Ent(db, j).ref.at = "block"
                                  => <<Ent(db, j).ref.seg, Ent(db, j).ref.off>> # <<Ent(db, k).ref.seg, Ent(db, k).ref.off>>
       /\ Ent(db, k).schema # 0 => ByID(db.shapes, Ent(db, k).schema) # {}
  /\ \A s \in db.shapes.schemas : s.refs = Cardinality(Users(s.id))

\* What is really reserved.
Footprint(d) ==
  EntryStorage(d) + d.index * IndexSlot + KeyCharge * Count(d) + TotalMemory(d.arena)
    + EntryMeta * Cardinality({k \in Keys : Has(d, k) /\ Ent(d, k).meta}) + HotSum(d.hot) + d.hotSlots * MetaSlot

\* The account kept by increments, on which maxmemory decides, is what a walk
\* over the shard would find (Layout, auditMemory in the tests).
AccountExact == conf.audited => db.acc.used = Footprint(db)

=============================================================================
