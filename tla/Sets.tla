-------------------------------- MODULE Sets --------------------------------
(***************************************************************************)
(* Sets (src/internal/engine/set*.go, server/set_commands.go).  A set is   *)
(* stored as its only member, as front-coded members of one width, as a    *)
(* sorted sequence of members, or as a hash table.  Members are sequences  *)
(* of bytes that do not begin like the header of a layout.  Every command  *)
(* is compared with what it promises on plain sets.                        *)
(***************************************************************************)
EXTENDS Typed, SlotTable

CONSTANTS Promote,    \* members from which a set of several widths is indexed (32)
          TinyMax,    \* members from which a set of one width is indexed (128)
          BatchProbe, \* members from which pipelined SADDs probe and insert at once (128)
          CompactMin, \* members below which an idle indexed set is packed (32)
          Varint,     \* bytes a length may take (10)
          MaxSet      \* most bytes of a set (32 MiB)

TooLong == [rep |-> "none"]

----------------------------------------------------------------------------
\* Layouts.

SameWidth(ms) == \A i \in DOMAIN ms : Len(ms[i]) = Len(ms[1])

RecordBytes(m) == 1 + Len(m)

BytesOf(ms) == MapThenSumSet(LAMBDA i : RecordBytes(ms[i]), DOMAIN ms)

Packed(ms) == [rep |-> "packed", members |-> ms]

encodeTinyFixedSet(ms) ==
  [rep |-> "tiny", width |-> Len(ms[1]), first |-> ms[1],
   rest |-> [i \in 1..(Len(ms) - 1) |-> [prefix |-> Common(ms[i], ms[i + 1]),
                                         suffix |-> SubSeq(ms[i + 1], Common(ms[i], ms[i + 1]) + 1, Len(ms[i + 1]))]]]

decodeTinyFixedSet(v) ==
  FoldLeft(LAMBDA out, e : Append(out, SubSeq(out[Len(out)], 1, e.prefix) \o e.suffix), <<v.first>>, v.rest)

SizeOf(v) ==
  CASE v.rep = "single" -> Len(v.member)
    [] v.rep = "packed" -> 4 + BytesOf(v.members)
    [] v.rep = "tiny" -> 5 + v.width + MapThenSumSet(LAMBDA i : 1 + Len(v.rest[i].suffix), DOMAIN v.rest)
    [] v.rep = "indexed" -> 15 + 4 * Len(v.table.slots) + v.table.room

\* The limit is tested on an estimate; the stored form is the smallest of the three.
encodePackedSet(ms) ==
  IF 3 + Varint + BytesOf(ms) + Len(ms) * (Varint - 1) > MaxSet THEN TooLong
  ELSE IF Len(ms) = 1 THEN [rep |-> "single", member |-> ms[1]]
  ELSE IF SameWidth(ms) /\ SizeOf(encodeTinyFixedSet(ms)) < SizeOf(Packed(ms)) THEN encodeTinyFixedSet(ms)
  ELSE Packed(ms)

Slotted(ms) ==
  [FoldLeft(LAMBDA t, m : Store(t, [key |-> m], RecordBytes(m)), NewTable(NextPow2(2 * Len(ms))), ms)
     EXCEPT !.room = Roomy(BytesOf(ms))]

encodeIndexedSet(ms) ==
  IF 15 + 4 * NextPow2(2 * Len(ms)) + Roomy(BytesOf(ms)) > MaxSet THEN TooLong
  ELSE [rep |-> "indexed", table |-> Slotted(ms)]

decodeIndexedSet(v) == Sorted({r.key : r \in Live(v.table)})

setMembersFromEntry(v) ==
  CASE v.rep = "single" -> <<v.member>>
    [] v.rep = "packed" -> v.members
    [] v.rep = "tiny" -> decodeTinyFixedSet(v)
    [] v.rep = "indexed" -> decodeIndexedSet(v)

packedSetContains(ms, m) == \E i \in DOMAIN ms : ms[i] = m /\ \A j \in 1..(i - 1) : Before(ms[j], m)

TinyStepFromSuffix(s, e, m) ==
  IF s.out # "" \/ e.prefix > s.match THEN s
  ELSE IF e.prefix < s.match THEN [s EXCEPT !.out = "no"]
  ELSE LET rest == SubSeq(m, e.prefix + 1, Len(m))
           k == Common(e.suffix, rest)
       IN IF k = Len(e.suffix) THEN [s EXCEPT !.out = "yes"]
          ELSE IF e.suffix[k + 1] > rest[k + 1] THEN [s EXCEPT !.out = "no"]
          ELSE [s EXCEPT !.match = k]

\* match: leading bytes that the last member below the target shares with it.
TinyStep(s, e, m) ==
  IF s.out # "" \/ e.prefix > s.match THEN s
  ELSE IF e.prefix < s.match THEN [s EXCEPT !.out = "no"]
  ELSE LET rest == SubSeq(m, e.prefix + 1, Len(m))
           k == Common(e.suffix, rest)
       IN IF k = Len(e.suffix) THEN [s EXCEPT !.out = "yes"]
          ELSE IF e.suffix[k + 1] > rest[k + 1] THEN [s EXCEPT !.out = "no"]
          ELSE [s EXCEPT !.match = e.prefix + k]

TinyStart(first, m, match) ==
  [match |-> match, out |-> IF match = Len(m) THEN "yes" ELSE IF first[match + 1] > m[match + 1] THEN "no" ELSE ""]

tinyFixedSetContains(v, m) ==
  Len(m) = v.width
  /\ FoldLeft(LAMBDA s, e : TinyStep(s, e, m), TinyStart(v.first, m, Common(v.first, m)), v.rest).out = "yes"

setContainsPhysical(v, m) ==
  CASE v.rep = "indexed" -> Holds(v.table, m)
    [] v.rep = "packed" -> packedSetContains(v.members, m)
    [] v.rep = "tiny" -> tinyFixedSetContains(v, m)
    [] v.rep = "single" -> v.member = m

SetLen(v) ==
  CASE v.rep = "indexed" -> Cardinality(LiveSlots(v.table))
    [] v.rep = "packed" -> Len(v.members)
    [] v.rep = "tiny" -> 1 + Len(v.rest)
    [] v.rep = "single" -> 1

----------------------------------------------------------------------------
\* Adding.

Put(d, k, v, at, reply) ==
  IF v.rep = "none" THEN Done(d, Err("size")) ELSE Attempt(publish(d, k, Entry("set", v, SizeOf(v), at)), reply)

Repack(d, k, ms, reply) == Put(d, k, encodePackedSet(ms), d[k].at, reply)

InsertSorted(ms, m) ==
  IF \E i \in DOMAIN ms : ms[i] = m THEN ms
  ELSE LET i == Cardinality({j \in DOMAIN ms : Before(ms[j], m)}) IN InsertAt(ms, i + 1, m)

\* A member of another width is not added to a set of one width.
tinyFixedSetAddOne(v, m) ==
  IF Len(m) # v.width \/ tinyFixedSetContains(v, m) THEN v ELSE encodeTinyFixedSet(InsertSorted(decodeTinyFixedSet(v), m))

\* The members of a sequence from position i on that are not in S, each once.
News(S, ms, i) == SelectSeq([j \in DOMAIN ms |-> [at |-> j, m |-> ms[j]]],
                            LAMBDA e : e.at >= i /\ e.m \notin S /\ \A j \in i..(e.at - 1) : ms[j] # e.m)

Rebuilt(s, ms, i, S, fresh) ==
  [s EXCEPT !.built = encodeIndexedSet(Sorted(S \cup {fresh[j].m : j \in DOMAIN fresh})),
            !.stop = TRUE, !.results = [j \in DOMAIN ms |-> IF \E e \in DOMAIN fresh : fresh[e].at = j THEN 1 ELSE @[j]]]

NeedsRehash(t, m) == (Cardinality(LiveSlots(t)) + 1) * 10 >= Len(t.slots) * 7 \/ t.used + RecordBytes(m) > t.room

\* s.table is written in place, member by member, until one needs a larger table.
AddStep(s, ms, i) ==
  IF s.stop \/ Holds(s.table, ms[i]) THEN s
  ELSE IF NeedsRehash(s.table, ms[i])
  THEN Rebuilt(s, ms, i, {r.key : r \in Live(s.table)}, News({r.key : r \in Live(s.table)}, ms, i))
  ELSE [s EXCEPT !.table = Store(@, [key |-> ms[i]], RecordBytes(ms[i])), !.results[i] = 1]

indexedSetAddResults(v, ms) ==
  FoldLeft(LAMBDA s, i : AddStep(s, ms, i),
           [table |-> v.table, results |-> [i \in DOMAIN ms |-> 0], stop |-> FALSE, built |-> TooLong], [i \in DOMAIN ms |-> i])

Ones(results) == Cardinality({i \in DOMAIN results : results[i] = 1})

Written(d, k, table) == [d EXCEPT ![k] = Entry("set", [rep |-> "indexed", table |-> table], d[k].size, d[k].at)]

AddIndexed(d, k, s, reply) ==
  IF s.stop THEN Put(Written(d, k, s.table), k, s.built, d[k].at, reply) ELSE Done(Written(d, k, s.table), reply)

setPromoteThreshold(ms) == IF Len(ms) >= 2 /\ SameWidth(ms) THEN TinyMax ELSE Promote

AddSorted(d, k, old, ms, reply) ==
  IF Len(ms) = Len(old) THEN Done(d, Num(0))
  ELSE IF Len(ms) >= setPromoteThreshold(ms) THEN Put(d, k, encodeIndexedSet(ms), d[k].at, reply)
  ELSE Repack(d, k, ms, reply)

AddGeneric(d, k, old, ms) ==
  AddSorted(d, k, old, FoldLeft(InsertSorted, old, ms), Num(Len(FoldLeft(InsertSorted, old, ms)) - Len(old)))

MembersAt(d, k) == IF isLive(d, k) THEN setMembersFromEntry(d[k].val) ELSE <<>>

AddTiny(d, k, ms, v) ==
  IF v = d[k].val THEN Done(d, Num(0))
  ELSE IF 1 + Len(v.rest) < TinyMax THEN Put(d, k, v, d[k].at, Num(1))
  ELSE AddGeneric(d, k, MembersAt(d, k), ms)

IsRep(d, k, rep) == Has(d, k) /\ d[k].val.rep = rep

setAddLocked(d, k, ms) ==
  IF Has(d, k) /\ d[k].type # "set" THEN WrongType(d)
  ELSE IF Len(ms) = 1 /\ IsRep(d, k, "tiny") THEN AddTiny(d, k, ms, tinyFixedSetAddOne(d[k].val, ms[1]))
  ELSE IF IsRep(d, k, "indexed")
  THEN AddIndexed(d, k, indexedSetAddResults(d[k].val, ms), Num(Ones(indexedSetAddResults(d[k].val, ms).results)))
  ELSE AddGeneric(d, k, MembersAt(d, k), ms)

\* Pipelined SADDs of one member each, with a result for each of them.
Pending(d, k, ms) ==
  SelectSeq(News({}, ms, 1), LAMBDA e : ~(Has(d, k) /\ setContainsPhysical(d[k].val, e.m)))

AddPending(d, k, ms, pending) ==
  LET done == setAddLocked(d, k, [i \in DOMAIN pending |-> pending[i].m])
      answer == Many([j \in DOMAIN ms |-> IF \E e \in DOMAIN pending : pending[e].at = j THEN 1 ELSE 0])
  IN IF pending = <<>> THEN Done(d, answer)
     ELSE IF done.reply[1] = "err" THEN done
     ELSE Done(done.db, answer)

SetAddResults(d, k, ms) ==
  IF Has(d, k) /\ d[k].type # "set" THEN WrongType(d)
  ELSE IF IsRep(d, k, "indexed") /\ SetLen(d[k].val) >= BatchProbe
  THEN AddIndexed(d, k, indexedSetAddResults(d[k].val, ms), Many(indexedSetAddResults(d[k].val, ms).results))
  ELSE AddPending(d, k, ms, Pending(d, k, ms))

----------------------------------------------------------------------------
\* Removing, moving and picking.

\* What commands on a set do first; some of them leave an expired key where it is.
OnSet(d, k, purges, missing, found) ==
  IF ~isLive(d, k) THEN Done(IF purges THEN Purged(d, k) ELSE d, missing)
  ELSE IF d[k].type # "set" THEN WrongType(d)
  ELSE found

KeepOnly(d, k, kept, reply) == IF kept = <<>> THEN Done(remove(d, k), reply) ELSE Repack(d, k, kept, reply)

RemoveFrom(d, k, ms, kept) ==
  IF Len(kept) = Len(ms) THEN Done(d, Num(0)) ELSE KeepOnly(d, k, kept, Num(Len(ms) - Len(kept)))

SetRemove(d, k, gone) ==
  OnSet(d, k, TRUE, Num(0),
        RemoveFrom(d, k, MembersAt(d, k), SelectSeq(MembersAt(d, k), LAMBDA m : \A i \in DOMAIN gone : gone[i] # m)))

Without(ms, m) == SelectSeq(ms, LAMBDA x : x # m)

\* The entry of a moved-from or moved-to key.
Moved(v, at) == Entry("set", v, SizeOf(v), at)

MoveUpdates(d, from, to, rest, grown) ==
  [k \in {from} \cup (IF grown = MembersAt(d, to) THEN {} ELSE {to}) |->
     IF k = to THEN Moved(encodePackedSet(grown), IF isLive(d, to) THEN d[to].at ELSE 0)
     ELSE IF rest = <<>> THEN Gone ELSE Moved(encodePackedSet(rest), d[from].at)]

MoveMember(d, from, to, rest, grown) ==
  IF \E ms \in {rest, grown} \ {<<>>, MembersAt(d, to)} : encodePackedSet(ms).rep = "none" THEN Done(d, Err("size"))
  ELSE Attempt(applyPreparedBatchLocked(d, MoveUpdates(d, from, to, rest, grown)), Num(1))

SetMove(d, from, to, m) ==
  OnSet(d, from, FALSE, Num(0),
    IF from = to THEN Done(d, Num(IF Contains(MembersAt(d, from), m) THEN 1 ELSE 0))
    ELSE IF isLive(d, to) /\ d[to].type # "set" THEN WrongType(d)
    ELSE IF ~Contains(MembersAt(d, from), m) THEN Done(d, Num(0))
    ELSE MoveMember(d, from, to, Without(MembersAt(d, from), m), InsertSorted(MembersAt(d, to), m)))

PopPicked(d, k, ms, at) ==
  KeepOnly(d, k, FoldLeft(LAMBDA kept, i : IF Contains(at, i) THEN kept ELSE Append(kept, ms[i]), <<>>, [i \in DOMAIN ms |-> i]),
           Many(Picks(ms, at)))

SetPop(d, k, count, offsets) ==
  OnSet(d, k, FALSE, Many(<<>>),
    IF count = 0 THEN Done(d, Many(<<>>))
    ELSE PopPicked(d, k, MembersAt(d, k), randomDistinctSetIndexes(Len(MembersAt(d, k)), count, offsets)))

----------------------------------------------------------------------------
\* Algebra: sorted sequences are merged, two at a time.

MergeStep(s, l, r, op) ==
  IF s.i > Len(l) \/ s.j > Len(r) THEN s
  ELSE IF Before(l[s.i], r[s.j]) THEN [i |-> s.i + 1, j |-> s.j, out |-> IF op = "inter" THEN s.out ELSE Append(s.out, l[s.i])]
  ELSE IF Before(r[s.j], l[s.i]) THEN [i |-> s.i, j |-> s.j + 1, out |-> IF op = "union" THEN Append(s.out, r[s.j]) ELSE s.out]
  ELSE [i |-> s.i + 1, j |-> s.j + 1, out |-> IF op = "diff" THEN s.out ELSE Append(s.out, l[s.i])]

MergeTail(s, l, r, op) ==
  s.out \o (IF op = "inter" THEN <<>> ELSE SubSeq(l, s.i, Len(l))) \o (IF op = "union" THEN SubSeq(r, s.j, Len(r)) ELSE <<>>)

mergeSortedSet(l, r, op) ==
  MergeTail(FoldLeft(LAMBDA s, n : MergeStep(s, l, r, op), [i |-> 1, j |-> 1, out |-> <<>>], l \o r), l, r, op)

applySetAlgebra(sets, op) == FoldLeft(LAMBDA out, ms : mergeSortedSet(out, ms, op), sets[1], Tail(sets))

setSourcesLocked(d, keys) == [i \in DOMAIN keys |-> MembersAt(d, keys[i])]

AlgebraStore(d, to, ms) ==
  IF ms = <<>> THEN Done(remove(d, to), Num(0)) ELSE Put(d, to, encodePackedSet(ms), 0, Num(Len(ms)))

\* All sources are read before the destination is touched.
OnSources(d, keys, found) ==
  IF \E i \in DOMAIN keys : isLive(d, keys[i]) /\ d[keys[i]].type # "set" THEN WrongType(d) ELSE found

SetIntersectCard(n, limit) == IF limit > 0 /\ n > limit THEN limit ELSE n

RenameSet(d, from, to, nx) ==
  IF from = to THEN Done(d, Err("same"))
  ELSE IF nx /\ isLive(d, to) THEN Done(d, Num(0))
  ELSE IF encodePackedSet(MembersAt(d, from)).rep = "none" THEN Done(Purged(d, to), Err("size"))
  ELSE LET r == Renamed(Purged(d, to), from, to, Moved(encodePackedSet(MembersAt(d, from)), d[from].at))
       IN IF nx /\ r.reply = OK THEN Done(r.db, Num(1)) ELSE r

----------------------------------------------------------------------------
\* A request: op, keys, values, two numbers, and an option.

OpOf(op) ==
  CASE op \in {"SUNION", "SUNIONSTORE"} -> "union" [] op \in {"SINTER", "SINTERSTORE", "SINTERCARD"} -> "inter"
    [] op \in {"SDIFF", "SDIFFSTORE"} -> "diff"

Flag(b) == IF b THEN 1 ELSE 0

SetMultiContains(ms, targets) == [i \in DOMAIN targets |-> Flag(Contains(ms, targets[i]))]

Reading(d, r, k) ==
  CASE r.op = "SISMEMBER" -> OnSet(d, k, FALSE, Num(0), Done(d, Num(Flag(setContainsPhysical(d[k].val, r.vals[1])))))
    [] r.op = "SMISMEMBER" -> OnSet(d, k, FALSE, Many([i \in DOMAIN r.vals |-> 0]), Done(d, Many(SetMultiContains(MembersAt(d, k), r.vals))))
    [] r.op = "SCARD" -> OnSet(d, k, FALSE, Num(0), Done(d, Num(SetLen(d[k].val))))
    [] r.op = "SMEMBERS" -> OnSet(d, k, FALSE, Many(<<>>), Done(d, Many(MembersAt(d, k))))
    [] r.op = "SSCAN" -> OnSet(d, k, FALSE, Many(<<>>), Done(d, Page(MembersAt(d, k), r.a, r.b)))
    [] r.op = "SRANDMEMBER" ->
         Single(OnSet(d, k, FALSE, Many(<<>>), Done(d, Many(RandomMembers(MembersAt(d, k), r.a, r.vals)))), r.opt = "count")

Algebra(d, r, to) ==
  CASE r.op \in {"SUNION", "SINTER", "SDIFF"} ->
         OnSources(d, r.keys, Done(d, Many(applySetAlgebra(setSourcesLocked(d, r.keys), OpOf(r.op)))))
    [] r.op = "SINTERCARD" ->
         OnSources(d, r.keys, Done(d, Num(SetIntersectCard(Len(applySetAlgebra(setSourcesLocked(d, r.keys), "inter")), r.a))))
    [] OTHER ->
         OnSources(d, Tail(r.keys), AlgebraStore(d, to, applySetAlgebra(setSourcesLocked(d, Tail(r.keys)), OpOf(r.op))))

Reads == {"SISMEMBER", "SMISMEMBER", "SCARD", "SMEMBERS", "SSCAN", "SRANDMEMBER"}

executeSet(d, r) ==
  LET k == r.keys[1]
  IN CASE r.op = "SADD" -> setAddLocked(Purged(d, k), k, r.vals)
       [] r.op = "SADDS" -> SetAddResults(Purged(d, k), k, r.vals)
       [] r.op = "SREM" -> SetRemove(d, k, r.vals)
       [] r.op = "SMOVE" -> SetMove(d, k, r.keys[2], r.vals[1])
       [] r.op = "SPOP" -> Single(SetPop(d, k, r.a, r.vals), r.opt = "count")
       [] r.op = "RENAME" -> OnSet(d, k, TRUE, Err("no key"), RenameSet(d, k, r.keys[2], r.opt = "NX"))
       [] r.op \in {"SET", "EXPIRE", "DEL"} -> Plainly(d, r)
       [] r.op \in Reads -> Reading(d, r, k)
       [] OTHER -> Algebra(d, r, k)

\* An idle indexed set is packed, or gives up the room it has left.
CompactIndexedSet(d, k) ==
  IF ~isLive(d, k) \/ d[k].type # "set" \/ d[k].val.rep # "indexed" THEN d
  ELSE IF SetLen(d[k].val) < CompactMin THEN Repack(d, k, MembersAt(d, k), OK).db
  ELSE Put(d, k, [rep |-> "indexed", table |-> [d[k].val.table EXCEPT !.room = d[k].val.table.used]], d[k].at, OK).db

----------------------------------------------------------------------------
\* What the commands promise, on plain sets, which are compared as sorted sequences.

Visible(d, t) ==
  [k \in Keys |-> IF Has(d, k) /\ ~Expired(d, k, t)
                  THEN Item(d[k].type, IF d[k].type = "set" THEN setMembersFromEntry(d[k].val) ELSE d[k].val, d[k].at)
                  ELSE Missing]

IsSet(m, k, missing, found) ==
  IF m[k].type = "none" THEN Wanted(m, missing)
  ELSE IF m[k].type # "set" THEN Wanted(m, Err("wrongtype"))
  ELSE found

Members(m, k) == ToSet(m[k].val)

To(m, k, S, at) == [m EXCEPT ![k] = IF S = {} THEN Missing ELSE Item("set", Sorted(S), at)]

AddWant(m, k, vals, answer) ==
  IF m[k].type \notin {"none", "set"} THEN Wanted(m, Err("wrongtype"))
  ELSE Wanted(To(m, k, Members(m, k) \cup ToSet(vals), m[k].at), answer)

\* Which of a sequence of additions are new.
Firsts(S, vals) == [i \in DOMAIN vals |-> Flag(vals[i] \notin S /\ \A j \in 1..(i - 1) : vals[j] # vals[i])]

MoveWant(m, from, to, x) ==
  IF from # to /\ m[to].type \notin {"none", "set"} THEN Wanted(m, Err("wrongtype"))
  ELSE IF x \notin Members(m, from) THEN Wanted(m, Num(0))
  ELSE IF from = to THEN Wanted(m, Num(1))
  ELSE Wanted(To(To(m, from, Members(m, from) \ {x}, m[from].at), to, Members(m, to) \cup {x}, m[to].at), Num(1))

PickWant(m, k, n, reply, removed) ==
  IF Plausible(Members(m, k), n, Given(reply)) THEN Wanted(To(m, k, Members(m, k) \ removed, m[k].at), reply) ELSE Wanted(m, Err("picked"))

AlgebraWant(m, keys, op) ==
  CASE op = "union" -> UNION {Members(m, keys[i]) : i \in DOMAIN keys}
    [] op = "inter" -> {x \in Members(m, keys[1]) : \A i \in DOMAIN keys : x \in Members(m, keys[i])}
    [] op = "diff" -> {x \in Members(m, keys[1]) : \A i \in 2..Len(keys) : x \notin Members(m, keys[i])}

SourcesWant(m, keys, found) == IF \E i \in DOMAIN keys : m[keys[i]].type \notin {"none", "set"} THEN Wanted(m, Err("wrongtype")) ELSE found

StoreWant(m, to, S) == Wanted(To(m, to, S, 0), Num(Cardinality(S)))

Empty(r) == IF r.opt = "count" THEN Many(<<>>) ELSE Nil

Want(m, r, reply) ==
  LET k == r.keys[1]
      S == Members(m, k)
  IN CASE r.op = "SADD" -> AddWant(m, k, r.vals, Num(Cardinality(ToSet(r.vals) \ Members(m, k))))
       [] r.op = "SADDS" -> AddWant(m, k, r.vals, Many(Firsts(Members(m, k), r.vals)))
       [] r.op = "SREM" -> IsSet(m, k, Num(0), Wanted(To(m, k, S \ ToSet(r.vals), m[k].at), Num(Cardinality(S \cap ToSet(r.vals)))))
       [] r.op = "SMOVE" -> IsSet(m, k, Num(0), MoveWant(m, k, r.keys[2], r.vals[1]))
       [] r.op = "SPOP" -> IsSet(m, k, Empty(r), PickWant(m, k, r.a, reply, ToSet(Given(reply))))
       [] r.op = "SRANDMEMBER" -> IsSet(m, k, Empty(r), PickWant(m, k, r.a, reply, {}))
       [] r.op = "SISMEMBER" -> IsSet(m, k, Num(0), Wanted(m, Num(Flag(r.vals[1] \in S))))
       [] r.op = "SMISMEMBER" -> IsSet(m, k, Many([i \in DOMAIN r.vals |-> 0]), Wanted(m, Many([i \in DOMAIN r.vals |-> Flag(r.vals[i] \in S)])))
       [] r.op = "SCARD" -> IsSet(m, k, Num(0), Wanted(m, Num(Cardinality(S))))
       [] r.op = "SMEMBERS" -> IsSet(m, k, Many(<<>>), Wanted(m, Many(Sorted(S))))
       [] r.op = "SSCAN" -> IsSet(m, k, Many(<<>>), Wanted(m, PageWant(Sorted(S), r.a, r.b)))
       [] r.op \in {"SUNION", "SINTER", "SDIFF"} -> SourcesWant(m, r.keys, Wanted(m, Many(Sorted(AlgebraWant(m, r.keys, OpOf(r.op))))))
       [] r.op = "SINTERCARD" -> SourcesWant(m, r.keys, Wanted(m, Num(Min({Cardinality(AlgebraWant(m, r.keys, "inter")), IF r.a = 0 THEN MaxSet ELSE r.a}))))
       [] r.op \in {"SUNIONSTORE", "SINTERSTORE", "SDIFFSTORE"} ->
            SourcesWant(m, Tail(r.keys), StoreWant(m, k, AlgebraWant(m, Tail(r.keys), OpOf(r.op))))
       [] r.op = "RENAME" -> IsSet(m, k, Err("no key"), RenameWant(m, k, r.keys[2], r.opt = "NX"))
       [] OTHER -> PlainWant(m, r)

----------------------------------------------------------------------------

Seeded == FoldLeft(LAMBDA d, r : executeSet(d, r).db, [k \in Keys |-> Gone], conf.seed)

Init == Starting /\ db = Seeded

Command ==
  \E r \in conf.requests :
    \E done \in {executeSet(db, r)} :
      /\ db' = done.db
      /\ agreed' = Answers(Visible(db, now), Visible(done.db, now), done.reply, Want(Visible(db, now), r, done.reply))
      /\ UNCHANGED now

Maintain ==
  /\ conf.compacts
  /\ \E k \in Keys : db' = CompactIndexedSet(db, k)
  /\ agreed' = (Visible(db', now) = Visible(db, now))
  /\ UNCHANGED now

Next == Stepping /\ (Command \/ Maintain \/ Tick)

Spec == Init /\ [][Next]_typedVars

----------------------------------------------------------------------------

TypeOK == TypedOK /\ \A k \in Keys : db[k].type = "set" => db[k].val.rep \in {"single", "tiny", "packed", "indexed"}

\* Every member is where a search for it ends, whatever the layout, and a table is never full
\* (indexedSetFindKnown, packedSetContains, tinyFixedSetContains).
MembersFound ==
  \A k \in Keys : db[k].type = "set" =>
    LET v == db[k].val
    IN /\ v.rep = "indexed" => TableSound(v.table)
       /\ \A m \in ToSet(setMembersFromEntry(v)) : setContainsPhysical(v, m)

\* Every command on sets answers and changes them as it would plain sets, in any layout and through any change of
\* layout and expiry, and a refused one changes nothing (set.go, set_algebra.go, set_move_random.go, set_scan.go).
SetsKept == agreed /\ MembersFound

=============================================================================
