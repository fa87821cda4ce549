------------------------------- MODULE Typed -------------------------------
(***************************************************************************)
(* What the collection types share: keys with a type, an encoded value,    *)
(* its size in bytes and a deadline; publication under a memory limit; and *)
(* commands taken from a set of requests.  Keyspace models the same store  *)
(* down to its arenas and its account; here an entry costs its encoded     *)
(* bytes and nothing more.                                                 *)
(***************************************************************************)
EXTENDS Integers, Sequences, FiniteSets, SequencesExt, FiniteSetsExt

CONSTANTS Keys,
          Deployments   \* limit, seed, requests, compaction, ticks and steps of a behaviour

VARIABLES conf, db, now, agreed, steps

typedVars == <<conf, db, now, agreed, steps>>

\* What a command answers: a kind, a number and a value.
OK == <<"ok", 0, <<>>>>
Nil == <<"nil", 0, <<>>>>
Num(n) == <<"int", n, <<>>>>
Bulk(v) == <<"bulk", 0, v>>
Err(e) == <<"err", 0, e>>
Many(vs) == <<"many", 0, vs>>

Gone == [type |-> "none", val |-> <<>>, size |-> 0, at |-> 0]

Entry(type, val, size, at) == [type |-> type, val |-> val, size |-> size, at |-> at]

Has(d, k) == d[k].type # "none"

Expired(d, k, t) == d[k].at # 0 /\ d[k].at <= t

isLive(d, k) == Has(d, k) /\ ~Expired(d, k, now)

remove(d, k) == [d EXCEPT ![k] = Gone]

\* Most commands remove an expired key they meet.
Purged(d, k) == IF Has(d, k) /\ Expired(d, k, now) THEN remove(d, k) ELSE d

----------------------------------------------------------------------------

Bytes(d) == MapThenSumSet(LAMBDA k : d[k].size, Keys)

Admitted(d, d2) == IF conf.max # 0 /\ Bytes(d2) > conf.max THEN [db |-> d, err |-> "oom"] ELSE [db |-> d2, err |-> ""]

publish(d, k, e) == Admitted(d, [d EXCEPT ![k] = e])

\* All the updates and deletions, or none; an update to Gone is a deletion.
applyPreparedBatchLocked(d, updates) ==
  Admitted(d, [k \in Keys |-> IF k \in DOMAIN updates THEN updates[k] ELSE d[k]])

Done(d, reply) == [db |-> d, reply |-> reply]

Attempt(p, reply) == Done(p.db, IF p.err = "" THEN reply ELSE Err(p.err))

WrongType(d) == Done(d, Err("wrongtype"))

\* RENAME of a collection: the destination gets the source's value, packed again, and its deadline.
Renamed(d, from, to, e) ==
  LET p == publish(d, to, e)
  IN IF p.err = "" THEN Done(remove(p.db, from), OK) ELSE Done(d, Err(p.err))

\* Refusals that leave everything as it was.
Refused(reply) == reply \in {Err("oom"), Err("size")}

\* Whether a command did what it promises, on what readers can see of the two stores.
Answers(before, after, reply, want) ==
  IF Refused(reply) THEN after = before ELSE after = want.m /\ reply = want.reply

Missing == [type |-> "none", val |-> <<>>, at |-> 0]

Item(type, val, at) == [type |-> type, val |-> val, at |-> at]

Wanted(m, reply) == [m |-> m, reply |-> reply]

----------------------------------------------------------------------------
\* Commands that every type meets: SET makes a key of another type, EXPIRE gives a deadline, DEL removes.

Plainly(d, r) ==
  CASE r.op = "SET" -> Attempt(publish(Purged(d, r.keys[1]), r.keys[1], Entry("string", r.vals[1], Len(r.vals[1]), 0)), OK)
    [] r.op = "EXPIRE" /\ isLive(d, r.keys[1]) -> Done([d EXCEPT ![r.keys[1]].at = now + r.a], Num(1))
    [] r.op = "DEL" /\ isLive(d, r.keys[1]) -> Done(remove(d, r.keys[1]), Num(1))
    [] OTHER -> Done(Purged(d, r.keys[1]), Num(0))

PlainWant(m, r) ==
  CASE r.op = "SET" -> Wanted([m EXCEPT ![r.keys[1]] = Item("string", r.vals[1], 0)], OK)
    [] m[r.keys[1]].type = "none" -> Wanted(m, Num(0))
    [] r.op = "EXPIRE" -> Wanted([m EXCEPT ![r.keys[1]] = Item(@.type, @.val, now + r.a)], Num(1))
    [] r.op = "DEL" -> Wanted([m EXCEPT ![r.keys[1]] = Missing], Num(1))

RenameWant(m, from, to, nx) ==
  IF from = to THEN Wanted(m, Err("same"))
  ELSE IF nx /\ m[to].type # "none" THEN Wanted(m, Num(0))
  ELSE Wanted([m EXCEPT ![to] = m[from], ![from] = Missing], IF nx THEN Num(1) ELSE OK)

----------------------------------------------------------------------------
\* Pages and picks of the members of a set, a sorted set or a hash, in their order.

Page(ms, cursor, count) ==
  IF cursor >= Len(ms) THEN <<"many", 0, <<>>>>
  ELSE IF cursor + count >= Len(ms) THEN <<"many", 0, SubSeq(ms, cursor + 1, Len(ms))>>
  ELSE <<"many", cursor + count, SubSeq(ms, cursor + 1, cursor + count)>>

\* A partial shuffle driven by random offsets.
ShuffleStep(s, i, offset) ==
  LET j == i + (offset % (Len(s.perm) - i + 1))
  IN [perm |-> [s.perm EXCEPT ![i] = s.perm[j], ![j] = s.perm[i]], out |-> Append(s.out, s.perm[j])]

randomDistinctSetIndexes(n, count, offsets) ==
  IF count >= n THEN [i \in 1..n |-> i]
  ELSE FoldLeft(LAMBDA s, i : ShuffleStep(s, i, offsets[i]), [perm |-> [i \in 1..n |-> i], out |-> <<>>], [i \in 1..count |-> i]).out

Picks(ms, at) == [i \in DOMAIN at |-> ms[at[i]]]

RandomMembers(ms, count, offsets) ==
  IF count >= 0 THEN Picks(ms, randomDistinctSetIndexes(Len(ms), count, offsets))
  ELSE Picks(ms, [i \in 1..(0 - count) |-> (offsets[i] % Len(ms)) + 1])

\* Without a count one member or nothing is answered.
Single(done, counted) ==
  IF counted \/ done.reply[1] # "many" THEN done
  ELSE Done(done.db, IF done.reply[3] = <<>> THEN Nil ELSE Bulk(done.reply[3][1]))

Given(reply) == CASE reply[1] = "many" -> reply[3] [] reply[1] = "bulk" -> <<reply[3]>> [] OTHER -> <<>>

\* Any members may be answered, as many as asked for where there are enough, and no member twice unless allowed.
Plausible(S, n, picked) ==
  /\ ToSet(picked) \subseteq S
  /\ IF n < 0 THEN Len(picked) = 0 - n ELSE Len(picked) = Min({n, Cardinality(S)}) /\ Cardinality(ToSet(picked)) = Len(picked)

\* A page of all members in order: those whose rank lies between two cursors.
PageWant(all, cursor, count) ==
  <<"many", IF cursor + count >= Len(all) THEN 0 ELSE cursor + count,
    SelectSeq(all, LAMBDA x : \E i \in DOMAIN all : all[i] = x /\ i \in (cursor + 1)..(cursor + count))>>

----------------------------------------------------------------------------

Starting == conf \in Deployments /\ now = 0 /\ agreed = TRUE /\ steps = 0

Stepping == steps < conf.steps /\ agreed /\ steps' = steps + 1 /\ UNCHANGED conf

Tick == now < conf.ticks /\ now' = now + 1 /\ UNCHANGED <<db, agreed>>

TypedOK == DOMAIN db = Keys /\ now \in 0..conf.ticks /\ agreed \in BOOLEAN /\ steps \in 0..conf.steps

=============================================================================
