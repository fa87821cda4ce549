----------------------------- MODULE SlotTable -----------------------------
(***************************************************************************)
(* The hash table inside an indexed set, sorted set or hash                *)
(* (src/internal/engine/*_indexed.go): a power of two of slots, probed one *)
(* after another from the hash of a key, each of them empty or the place   *)
(* of a record.  Records are only appended; one that no slot refers to is  *)
(* dead.  t.slots holds places in t.recs, t.used counts the bytes of all   *)
(* records and t.room the bytes there is room for.                         *)
(***************************************************************************)
EXTENDS Integers, Sequences, FiniteSets, SequencesExt, FiniteSetsExt

CONSTANTS MinRoom,   \* least room left for records (512)
          MinSlots   \* least slots of a table (8)

\* Hashes collide: what matters is that one key always has the same one.
HashField(key) == IF key = <<>> THEN 0 ELSE Len(key) + 3 * key[1] + key[Len(key)]

NextPow2(n) == Min({p \in {MinSlots * 2^i : i \in 0..8} : p >= n})

NewTable(slots) == [slots |-> [i \in 1..slots |-> 0], recs |-> <<>>, used |-> 0, room |-> 0]

\* The slot of a key, or the empty one where it would go; 0 when a full round finds neither.
Find(t, key) ==
  LET n == Len(t.slots)
      at(p) == ((HashField(key) + p) % n) + 1
      ends == {p \in 0..(n - 1) : t.slots[at(p)] = 0 \/ t.recs[t.slots[at(p)]].key = key}
  IN IF ends = {} THEN 0 ELSE at(Min(ends))

Holds(t, key) == Find(t, key) # 0 /\ t.slots[Find(t, key)] # 0

RecordOf(t, key) == t.recs[t.slots[Find(t, key)]]

\* A record for a key that is new or whose former record dies.
Store(t, rec, bytes) ==
  [slots |-> [t.slots EXCEPT ![Find(t, rec.key)] = Len(t.recs) + 1], recs |-> Append(t.recs, rec),
   used |-> t.used + bytes, room |-> t.room]

LiveSlots(t) == {i \in DOMAIN t.slots : t.slots[i] # 0}

Live(t) == {t.recs[t.slots[i]] : i \in LiveSlots(t)}

Roomy(used) == used + Max({used \div 4, MinRoom})

\* Every live record is where a search for its key ends, and under one key there is one.
TableSound(t) ==
  /\ \A i \in LiveSlots(t) : t.slots[i] <= Len(t.recs) /\ Find(t, t.recs[t.slots[i]].key) = i
  /\ LiveSlots(t) # DOMAIN t.slots /\ t.used <= t.room

----------------------------------------------------------------------------
\* Strings of bytes are ordered byte by byte, a prefix before what it begins.

Common(a, b) == Max({n \in 0..Min({Len(a), Len(b)}) : SubSeq(a, 1, n) = SubSeq(b, 1, n)})

Before(a, b) ==
  \E n \in 0..Len(a) : n < Len(b) /\ (\A i \in 1..n : a[i] = b[i]) /\ (n = Len(a) \/ a[n + 1] < b[n + 1])

Sorted(S) == [i \in 1..Cardinality(S) |-> CHOOSE x \in S : Cardinality({y \in S : Before(y, x)}) = i - 1]

=============================================================================
