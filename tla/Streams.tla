------------------------------ MODULE Streams ------------------------------
(***************************************************************************)
(* Streams and consumer groups (stream.go, stream_groups.go,               *)
(* stream_group_delivery.go, stream_claim.go, stream_ref_policy.go), the   *)
(* store that keeps entry logs beside the stored groups (stream_store.go), *)
(* and the transaction that describes a command as a delta for the AOF and *)
(* the replicas, or undoes it (stream_tx.go, stream_delta.go,              *)
(* stream_journal.go).                                                     *)
(*                                                                         *)
(* A stream is [log, groups]; groups maps a name to its last-delivered ID, *)
(* entries-read counter, consumers (name -> time seen) and pending entries *)
(* (ID -> consumer, time, deliveries).  Commands hold the server's write   *)
(* lock: one command is one step.  Stamps count commands; the clock that   *)
(* names entries is chosen per command and may go back.                    *)
(***************************************************************************)
EXTENDS StreamBody, TLC

CONSTANTS Keys, Deployments

VARIABLES
    conf,   \* the index of a deployment: its requests, spill limit, whether it is durable, appends
            \* fail and snapshots are saved, the sets of keys memory may be left for, how many
            \* commands are sent, the clocks, and the streams of the snapshot it starts from
    mem,    \* key -> stream or None
    log,    \* the records appended since the start
    snap,   \* the snapshot a restart loads
    copy,   \* a replica's streams
    dead,   \* durabilityFailed
    torn,   \* (history) keys a failed command has changed
    sent    \* commands so far

state == <<mem, log, snap, copy, dead, torn, sent>>
vars == <<conf, state>>

Conf == Deployments[conf]

Without(f, S) == [x \in DOMAIN f \ S |-> f[x]]
Take(s, n) == SubSeq(s, 1, Min({n, Len(s)}))

\* What a stream holds, however its log is laid out.
Logical(x) ==
    IF x = None THEN None
    ELSE [entries |-> All(x.log), last |-> x.log.last, maxDel |-> x.log.maxDel,
          added |-> x.log.added, groups |-> x.groups]
Values(m) == [k \in Keys |-> Logical(m[k])]

newGroup(last, read) == [last |-> last, read |-> read, cons |-> <<>>, pend |-> <<>>]

-----------------------------------------------------------------------------
(* Operations on one stream.  Each returns the stream and whether it       *)
(* succeeded; fits says whether memory admits growth.                      *)

Ok(x) == [ok |-> TRUE, x |-> x]
Failed(x) == [ok |-> FALSE, x |-> x]

Weight(groups) ==
    FoldSet(LAMBDA g, n : n + 1 + Cardinality(DOMAIN groups[g].cons) + Cardinality(DOMAIN groups[g].pend),
            0, DOMAIN groups)

publishStreamStateLocked(x, groups, fits) ==
    IF fits \/ Weight(groups) <= Weight(x.groups) THEN Ok([x EXCEPT !.groups = groups]) ELSE Failed(x)

newStream == [log |-> newStreamBody(0), groups |-> <<>>]

\* The registry attaches the spill directory to a log it did not know.
createStreamLocked(x, spill) == [x EXCEPT !.log = spillCold([@ EXCEPT !.sp = spill])]

streamAckedByAllGroups(groups, id) ==
    /\ DOMAIN groups # {}
    /\ \A g \in DOMAIN groups : groups[g].last >= id /\ id \notin DOMAIN groups[g].pend

streamRemovePendingRefs(groups, ids) ==
    [g \in DOMAIN groups |-> [groups[g] EXCEPT !.pend = Without(@, ids)]]

\* The entries a trim looks at, oldest first, and those it removes.
Examined(b, trim) ==
    LET below == IF trim.by = "maxlen" THEN All(b) ELSE SelectSeq(All(b), LAMBDA id : id < trim.arg)
    IN  IF trim.limit = 0 THEN below ELSE Take(below, trim.limit)
Need(b, trim) == IF trim.by = "maxlen" THEN Max({0, Length(b) - trim.arg}) ELSE Length(b)

planTrim(b, groups, trim, policy) ==
    LET seen == Examined(b, trim)
        allowed(id) == policy # "acked" \/ DOMAIN groups = {} \/ streamAckedByAllGroups(groups, id)
        ids == Take(SelectSeq(seen, allowed), Need(b, trim))
    IN  [ids |-> ids,
         prefix |-> /\ ids = SubSeq(seen, 1, Len(ids))
                    /\ Len(ids) = Need(b, trim) \/ Len(ids) = Len(seen)]

applyTrimPlan(x, plan, policy) ==
    [log |-> IF plan.prefix THEN TrimFront(x.log, Len(plan.ids)) ELSE Delete(x.log, ToSet(plan.ids)),
     groups |-> IF policy = "del" THEN streamRemovePendingRefs(x.groups, ToSet(plan.ids)) ELSE x.groups]

\* The log with the entry XADD names, or None.
Added(x, r, now) ==
    LET id == resolveStreamAddID(r.id, now, x.log.last)
    IN  IF id = 0 THEN None
        ELSE [x EXCEPT !.log = [AppendEntry(x.log, id) EXCEPT !.last = id, !.added = @ + 1]]

StreamAdd(x, r, now, fits, spill) ==
    LET y == Added(IF x = None THEN newStream ELSE x, r, now)
        n == IF r.trim = None \/ y = None THEN 0 ELSE Min({Need(y.log, r.trim), Len(Examined(y.log, r.trim))})
        z == [y EXCEPT !.log = TrimFront(@, n)]
    IN  CASE x = None /\ r.nomk -> Ok(None)
          [] y = None \/ ~fits -> Failed(x)
          [] OTHER -> Ok(IF x = None THEN createStreamLocked(z, spill) ELSE z)

StreamAddWithPolicy(x, r, now, fits, spill) ==
    LET y == Added(IF x = None THEN newStream ELSE x, r, now)
        z == IF r.trim = None THEN y
             ELSE applyTrimPlan(y, planTrim(y.log, y.groups, r.trim, r.policy), r.policy)
    IN  CASE x = None /\ r.nomk -> Ok(None)
          [] y = None \/ ~fits -> Failed(x)
          [] OTHER -> Ok(IF x = None THEN createStreamLocked(z, spill) ELSE z)

streamTrimWithPolicy(x, r) ==
    IF x = None THEN Ok(x)
    ELSE Ok(applyTrimPlan(x, planTrim(x.log, x.groups, r.trim, r.policy), r.policy))

StreamDelete(x, r) ==
    IF x = None THEN Ok(x)
    ELSE LET found == {id \in r.ids : Has(x.log, id)}
         IN  Ok([x EXCEPT !.log = [Delete(@, found) EXCEPT !.maxDel = Max({@} \cup found)]])

commitStreamChange(x, groups, ids) ==
    Ok([log |-> [Delete(x.log, ids) EXCEPT !.maxDel = Max({@} \cup ids)], groups |-> groups])

Removable(x, groups, r) ==
    {id \in r.ids : Has(x.log, id) /\ (r.policy = "acked" => streamAckedByAllGroups(groups, id))}

StreamDeleteEx(x, r) ==
    IF x = None THEN Ok(x)
    ELSE LET groups == IF r.policy = "del" THEN streamRemovePendingRefs(x.groups, r.ids) ELSE x.groups
         IN  commitStreamChange(x, groups, Removable(x, groups, r))

HasGroup(x, g) == IF x = None THEN FALSE ELSE g \in DOMAIN x.groups

StreamAckDelete(x, r) ==
    IF ~HasGroup(x, r.g) THEN Failed(x)
    ELSE LET acked == [x.groups EXCEPT ![r.g].pend = Without(@, r.ids)]
             groups == IF r.policy = "del" THEN streamRemovePendingRefs(acked, r.ids) ELSE acked
         IN  commitStreamChange(x, groups, Removable(x, groups, r))

StreamGroupAck(x, r) ==
    IF HasGroup(x, r.g) THEN Ok([x EXCEPT !.groups[r.g].pend = Without(@, r.ids)]) ELSE Failed(x)

\* -1 is the ID $.
parseStreamGroupID(spec, last) == IF spec = -1 THEN last ELSE spec

StreamGroupCreate(x, r, fits, spill) ==
    LET y == IF x = None THEN newStream ELSE x
        group == newGroup(parseStreamGroupID(r.id, y.log.last), -1)
        done == publishStreamStateLocked(y, (r.g :> group) @@ y.groups, fits)
    IN  CASE (x = None /\ ~r.mk) \/ HasGroup(x, r.g) \/ ~done.ok -> Failed(x)
          [] x = None /\ r.mk /\ done.ok -> Ok(createStreamLocked(done.x, spill))
          [] OTHER -> done

StreamGroupDestroy(x, r) == IF x = None THEN Ok(x) ELSE Ok([x EXCEPT !.groups = Without(@, {r.g})])

StreamGroupSetID(x, r) ==
    IF ~HasGroup(x, r.g) THEN Failed(x)
    ELSE Ok([x EXCEPT !.groups[r.g].last = parseStreamGroupID(r.id, x.log.last), !.groups[r.g].read = -1])

StreamGroupCreateConsumer(x, r, t, fits) ==
    CASE ~HasGroup(x, r.g) -> Failed(x)
      [] HasGroup(x, r.g) ->
           publishStreamStateLocked(x, [x.groups EXCEPT ![r.g].cons = @ @@ (r.c :> t)], fits)

StreamGroupDeleteConsumer(x, r) ==
    IF ~HasGroup(x, r.g) THEN Failed(x)
    ELSE LET own == {id \in DOMAIN x.groups[r.g].pend : x.groups[r.g].pend[id].c = r.c}
         IN  Ok([x EXCEPT !.groups[r.g].pend = Without(@, own), !.groups[r.g].cons = Without(@, {r.c})])

inferStreamGroupEntriesRead(b, id) ==
    CASE id = 0 -> 0
      [] id # 0 /\ id = b.last -> b.added
      [] OTHER -> IF b.chunks # <<>> /\ b.maxDel = 0 /\ b.added = Length(b) /\ id = Head(All(b)) THEN 1 ELSE -1

ensureStreamConsumer(group, c, t) == [group EXCEPT !.cons = (c :> t) @@ @]

\* New entries for a consumer; an entry that is pending already cannot be stored twice.
DeliverNew(x, r, t, fits) ==
    LET group == x.groups[r.g]
        new == Take(ForEachFrom(x.log, group.last + 1), r.count)
        read == IF group.read < 0 THEN inferStreamGroupEntriesRead(x.log, group.last) ELSE group.read
        last == IF new = <<>> THEN group.last ELSE new[Len(new)]
        pend == [id \in ToSet(new) |-> [c |-> r.c, at |-> t, n |-> 1]]
    IN  IF ~r.noack /\ ToSet(new) \cap DOMAIN group.pend # {} THEN Failed(x)
        ELSE publishStreamStateLocked(x,
               [x.groups EXCEPT ![r.g] =
                  [ensureStreamConsumer(group, r.c, t) EXCEPT
                     !.last = last,
                     !.read = CASE read >= 0 -> read + Len(new)
                                [] read < 0 -> IF new # <<>> /\ last = x.log.last THEN x.log.added ELSE -1,
                     !.pend = IF r.noack THEN @ ELSE pend @@ @]], fits)

\* What a consumer has pending, once more.
DeliverPending(x, r, after, t, fits) ==
    LET group == x.groups[r.g]
        own == {id \in DOMAIN group.pend : group.pend[id].c = r.c /\ id > after}
        again == ToSet(Take(SetToSortSeq(own, <), r.count))
    IN  publishStreamStateLocked(x,
          [x.groups EXCEPT ![r.g] =
             [ensureStreamConsumer(group, r.c, t) EXCEPT
                !.pend = [id \in DOMAIN @ |-> IF id \in again THEN [@[id] EXCEPT !.at = t, !.n = @ + 1] ELSE @[id]]]],
          fits)

\* -1 is the cursor >.  Key by key, up to the first that fails; the keys before it stay changed.
StreamGroupRead(m, r, t, fits) ==
    FoldLeft(LAMBDA s, kc :
        LET x == s.m[kc[1]]
            done == CASE ~HasGroup(x, r.g) -> Failed(x)
                      [] HasGroup(x, r.g) -> IF kc[2] = -1 THEN DeliverNew(x, r, t, kc[1] \in fits)
                                             ELSE DeliverPending(x, r, kc[2], t, kc[1] \in fits)
        IN  IF s.ok THEN [ok |-> done.ok, m |-> [s.m EXCEPT ![kc[1]] = done.x]] ELSE s,
        [ok |-> TRUE, m |-> m], r.streams)

\* taken and forced go to the consumer; what is pending without an entry is dropped.
\* LASTID, which moves the group as XGROUP SETID does, is left out.
Claimed(x, r, taken, forced, dropped, t, fits) ==
    LET group == x.groups[r.g]
        given(id) == [c |-> r.c, at |-> t,
                      n |-> IF id \in forced THEN 1 ELSE group.pend[id].n + (IF r.justid THEN 0 ELSE 1)]
        kept == Without(group.pend, dropped)
        seen == IF taken \cup forced # {} \/ r.c \in DOMAIN group.cons THEN ensureStreamConsumer(group, r.c, t) ELSE group
    IN  publishStreamStateLocked(x,
          [x.groups EXCEPT ![r.g] = [seen EXCEPT
               !.pend = [id \in DOMAIN kept \cup forced |->
                            IF id \in taken \cup forced THEN given(id) ELSE kept[id]]]], fits)

Idle(group, id, r, t) == t - group.pend[id].at >= r.idle

StreamGroupClaim(x, r, t, fits) ==
    IF ~HasGroup(x, r.g) THEN Failed(x)
    ELSE LET group == x.groups[r.g]
             held == r.ids \cap DOMAIN group.pend
             alive == {id \in r.ids : Has(x.log, id)}
         IN  Claimed(x, r, {id \in held \cap alive : Idle(group, id, r, t)},
                     IF r.force THEN alive \ held ELSE {}, held \ alive, t, fits)

\* The scan gives up after ten times COUNT entries, which the instances do not reach.
StreamGroupAutoClaim(x, r, t, fits) ==
    IF ~HasGroup(x, r.g) THEN Failed(x)
    ELSE LET group == x.groups[r.g]
             from == {id \in DOMAIN group.pend : id >= r.start}
             ready == {id \in from : Has(x.log, id) /\ Idle(group, id, r, t)}
             taken == ToSet(Take(SetToSortSeq(ready, <), r.count))
             gone == {id \in from : ~Has(x.log, id) /\ (Cardinality(taken) < r.count \/ id < Max(taken))}
         IN  Claimed(x, r, taken, {}, gone, t, fits)

-----------------------------------------------------------------------------
(* What the commands parse into.  The wire commands XADD and XTRIM always   *)
(* carry a policy, KEEPREF unless they name one; the policy None stands for *)
(* the engine's older StreamAdd.                                            *)

Policies == {"keep", "del", "acked"}
Trims == [by : {"maxlen", "minid"}, arg : Nat, limit : Nat]
IDSpecs == {<<"auto">>} \cup ({"partial", "id"} \X Nat)

parseXAdd == [op : {"xadd"}, k : Keys, id : IDSpecs, trim : Trims \cup {None}, policy : {None}, nomk : BOOLEAN]
parseXAddWithRefPolicy ==
    [op : {"xadd"}, k : Keys, id : IDSpecs, trim : Trims \cup {None}, policy : Policies, nomk : BOOLEAN]
parseXTrimWithRefPolicy == [op : {"xtrim"}, k : Keys, trim : Trims, policy : Policies]
parseStreamIDSBlock ==
    [op : {"xdelex", "xackdel"}, k : Keys, g : STRING, ids : SUBSET Nat, policy : Policies]
executeStream == [op : {"xdel", "xack"}, k : Keys, g : STRING, ids : SUBSET Nat, policy : {None}]
executeStreamGroup ==
    [op : {"create", "destroy", "setid"}, k : Keys, g : STRING, id : Nat \cup {-1}, mk : BOOLEAN]
        \cup [op : {"consumer", "delconsumer"}, k : Keys, g : STRING, c : STRING]
parseXReadGroup ==
    [op : {"read"}, k : Keys, g : STRING, c : STRING, streams : Seq(Keys \X (Nat \cup {-1})) \ {<<>>},
     count : Nat \ {0}, noack : BOOLEAN]
parseXClaim ==
    [op : {"claim"}, k : Keys, g : STRING, c : STRING, ids : SUBSET Nat, idle : Nat,
     force : BOOLEAN, justid : BOOLEAN]
parseXAutoClaim ==
    [op : {"autoclaim"}, k : Keys, g : STRING, c : STRING, start : Nat, count : Nat \ {0}, idle : Nat, justid : BOOLEAN]
executeStreamRename == [op : {"rename"}, k : Keys, to : Keys] \cup [op : {"del"}, k : Keys]

Requests ==
    parseXAdd \cup parseXAddWithRefPolicy \cup parseXTrimWithRefPolicy \cup parseStreamIDSBlock \cup executeStream
        \cup executeStreamGroup \cup parseXReadGroup \cup parseXClaim \cup parseXAutoClaim \cup executeStreamRename

-----------------------------------------------------------------------------
(* A command on the store.  fits is the set of keys memory is left for.    *)

At(m, k, done) == [ok |-> done.ok, m |-> [m EXCEPT ![k] = done.x]]

RenameStream(m, r, fits) ==
    IF m[r.k] = None \/ r.to \notin fits THEN [ok |-> FALSE, m |-> m]
    ELSE [ok |-> TRUE, m |-> [m EXCEPT ![r.to] = m[r.k], ![r.k] = None]]

Run(m, r, now, t, fits) ==
    LET x == m[r.k]
        room == r.k \in fits
    IN  CASE r.op = "xadd" -> At(m, r.k, IF r.policy = None THEN StreamAdd(x, r, now, room, Conf.spill)
                                         ELSE StreamAddWithPolicy(x, r, now, room, Conf.spill))
          [] r.op = "xtrim" -> At(m, r.k, streamTrimWithPolicy(x, r))
          [] r.op = "xdel" -> At(m, r.k, StreamDelete(x, r))
          [] r.op = "xdelex" -> At(m, r.k, StreamDeleteEx(x, r))
          [] r.op = "xackdel" -> At(m, r.k, StreamAckDelete(x, r))
          [] r.op = "xack" -> At(m, r.k, StreamGroupAck(x, r))
          [] r.op = "create" -> At(m, r.k, StreamGroupCreate(x, r, room, Conf.spill))
          [] r.op = "destroy" -> At(m, r.k, StreamGroupDestroy(x, r))
          [] r.op = "setid" -> At(m, r.k, StreamGroupSetID(x, r))
          [] r.op = "consumer" -> At(m, r.k, StreamGroupCreateConsumer(x, r, t, room))
          [] r.op = "delconsumer" -> At(m, r.k, StreamGroupDeleteConsumer(x, r))
          [] r.op = "read" -> StreamGroupRead(m, r, t, fits)
          [] r.op = "claim" -> At(m, r.k, StreamGroupClaim(x, r, t, room))
          [] r.op = "autoclaim" -> At(m, r.k, StreamGroupAutoClaim(x, r, t, room))
          [] r.op = "rename" -> RenameStream(m, r, fits)
          [] r.op = "del" -> [ok |-> TRUE, m |-> [m EXCEPT ![r.k] = None]]

-----------------------------------------------------------------------------
(* Deltas.                                                                 *)

\* Leaving the entries that are no longer pending out of the delta.
diffStreamGroupsAdditive(old, new) ==
    [g \in {h \in DOMAIN new : h \notin DOMAIN old \/ old[h] # new[h]} |->
        [remove |-> FALSE, set |-> <<new[g].last, new[g].read>>, cons |-> new[g].cons, delCons |-> {},
         pend |-> new[g].pend, delPend |-> {}]]

diffStreamGroups(old, new) ==
    LET op(g) ==
            LET prev == IF g \in DOMAIN old THEN old[g] ELSE newGroup(0, 0)
                cons == {c \in DOMAIN new[g].cons : c \notin DOMAIN prev.cons \/ prev.cons[c] # new[g].cons[c]}
                pend == {p \in DOMAIN new[g].pend : p \notin DOMAIN prev.pend \/ prev.pend[p] # new[g].pend[p]}
            IN  [remove |-> FALSE,
                 set |-> IF g \in DOMAIN old /\ <<prev.last, prev.read>> = <<new[g].last, new[g].read>> THEN None
                         ELSE <<new[g].last, new[g].read>>,
                 cons |-> [c \in cons |-> new[g].cons[c]],
                 delCons |-> DOMAIN prev.cons \ DOMAIN new[g].cons,
                 pend |-> [p \in pend |-> new[g].pend[p]],
                 delPend |-> DOMAIN prev.pend \ DOMAIN new[g].pend]
        changed == {g \in DOMAIN new : g \notin DOMAIN old \/ old[g] # new[g]}
    IN  [g \in changed |-> op(g)]
          @@ [g \in DOMAIN old \ DOMAIN new |-> [remove |-> TRUE]]

StreamDelta(k, old, x) ==
    LET j == x.log.j
    IN  [k |-> k, whole |-> FALSE, create |-> old = None,
         append |-> IF old = None THEN All(x.log) ELSE j.appended,
         through |-> IF old = None THEN 0 ELSE j.through,
         delete |-> IF old = None THEN {} ELSE j.deleted,
         last |-> x.log.last, maxDel |-> x.log.maxDel, added |-> x.log.added,
         groups |-> IF old = None THEN x.groups
                    ELSE diffStreamGroups(old.groups, x.groups)]

Changed(old, x) ==
    CASE x = None -> FALSE
      [] x # None /\ old = None -> TRUE
      [] OTHER -> touched(x.log.j) \/ old.groups # x.groups

\* Records of a command on keys, in order.
Records(old, m, keys) ==
    LET some == SelectSeq(keys, LAMBDA k : Changed(old[k], m[k]))
    IN  [i \in DOMAIN some |-> StreamDelta(some[i], old[some[i]], m[some[i]])]

\* RENAME and DEL are described by the values of their keys.
Export(m, keys) == [i \in DOMAIN keys |-> [k |-> keys[i], whole |-> TRUE, value |-> Logical(m[keys[i]])]]

applyGroupOp(groups, g, op) ==
    LET old == IF g \in DOMAIN groups THEN groups[g] ELSE newGroup(0, -1)
        named == {op.pend[p].c : p \in DOMAIN op.pend} \ {None}
        cons == Without(op.cons @@ old.cons @@ [c \in named |-> op.pend[Min({p \in DOMAIN op.pend : op.pend[p].c = c})].at], op.delCons)
        pend == op.pend @@ Without(old.pend, op.delPend)
    IN  IF op.remove THEN Without(groups, {g})
        ELSE (g :> [last |-> IF op.set = None THEN old.last ELSE op.set[1],
                    read |-> IF op.set = None THEN old.read ELSE op.set[2],
                    cons |-> cons,
                    pend |-> [p \in DOMAIN pend |->
                                 IF pend[p].c \in DOMAIN cons THEN pend[p] ELSE [pend[p] EXCEPT !.c = None]]])
               @@ groups

applyGroupOps(groups, ops) == FoldSet(LAMBDA g, gs : applyGroupOp(gs, g, ops[g]), groups, DOMAIN ops)

installStreamLocked(v) ==
    IF v = None THEN None
    ELSE [log |-> streamBodyFromEntries(0, v.entries, v.last, v.maxDel, v.added), groups |-> v.groups]

\* A delta for a key that holds no stream is refused.
applyStreamDelta(x, d) ==
    CASE d.create -> installStreamLocked([entries |-> d.append, last |-> d.last, maxDel |-> d.maxDel,
                                          added |-> d.added, groups |-> d.groups])
      [] ~d.create /\ x = None -> None
      [] OTHER ->
           LET grown == FoldLeft(AppendEntry, x.log, SelectSeq(d.append, LAMBDA id : id > x.log.last))
               b == Delete(TrimFront(grown, CountThrough(grown, d.through)), d.delete)
           IN  [log |-> [b EXCEPT !.last = Max({@, d.last}), !.maxDel = Max({@, d.maxDel}), !.added = Max({@, d.added})],
                groups |-> applyGroupOps(x.groups, d.groups)]

Restore(m, records) ==
    FoldLeft(LAMBDA c, d : [c EXCEPT ![d.k] = IF d.whole THEN installStreamLocked(d.value) ELSE applyStreamDelta(@, d)],
             m, records)

-----------------------------------------------------------------------------
(* The transaction around a command.                                       *)

streamCommandKeys(r) ==
    CASE r.op = "read" -> [i \in DOMAIN r.streams |-> r.streams[i][1]]
      [] r.op = "rename" -> <<r.k, r.to>>
      [] OTHER -> <<r.k>>

DeltaCommand(r) == r.op \notin {"rename", "del"}

BeginStreamTx(m, keys) ==
    [k \in Keys |-> IF k \in ToSet(keys) /\ m[k] # None THEN [m[k] EXCEPT !.log.j = bodyJournal] ELSE m[k]]

End(m) ==
    [k \in Keys |-> IF m[k] = None THEN None
                    ELSE IF m[k].log.j = None THEN m[k]
                    ELSE [m[k] EXCEPT !.log = settle([@ EXCEPT !.j = None])]]

rollbackBody(b) ==
    LET restored == IF b.j.snap = None THEN b ELSE restoreSnapshot(b, b.j.snap)
    IN  IF b.j.mark = None THEN restored ELSE rollback(restored, b.j.mark)

Rollback(old, m) ==
    [k \in Keys |->
        CASE m[k] = old[k] \/ old[k] = None -> old[k]
          [] OTHER -> [log |-> IF touched(m[k].log.j) THEN rollbackBody(m[k].log) ELSE m[k].log,
                       groups |-> old[k].groups]]

Loaded(v) == IF v = None THEN None ELSE createStreamLocked(installStreamLocked(v), Conf.spill)

\* A failed append of a whole export is undone by restoring the values.
RestoreValues(old, m) == [k \in Keys |-> IF m[k] = old[k] THEN m[k] ELSE Loaded(Logical(old[k]))]

executeStreamDeltaLocked(r) ==
    /\ sent < Conf.sent /\ ~dead
    /\ sent' = sent + 1
    /\ \E now \in Conf.clocks, fits \in Conf.fits,
          stored \in (IF Conf.fails THEN BOOLEAN ELSE {TRUE}) :
         \E done \in {Run(IF Conf.durable /\ DeltaCommand(r) THEN BeginStreamTx(mem, streamCommandKeys(r)) ELSE mem,
                          r, now, sent + 1, fits)} :
         \E records \in {CASE ~Conf.durable -> <<>>
                            [] Conf.durable /\ DeltaCommand(r) -> Records(mem, done.m, streamCommandKeys(r))
                            [] OTHER -> Export(done.m, streamCommandKeys(r))} :
             \/ /\ ~done.ok /\ stored
                /\ mem' = End(done.m)
                /\ torn' = torn \cup {k \in Keys : Logical(done.m[k]) # Logical(mem[k])}
                /\ UNCHANGED <<log, copy, dead>>
             \/ /\ done.ok /\ stored
                /\ mem' = End(done.m)
                /\ log' = log \o records
                /\ copy' = Restore(copy, records)
                /\ UNCHANGED <<dead, torn>>
             \/ /\ done.ok /\ ~stored /\ records # <<>>
                /\ dead' = TRUE
                /\ mem' = IF DeltaCommand(r) THEN End(Rollback(mem, done.m)) ELSE RestoreValues(mem, done.m)
                /\ UNCHANGED <<log, copy, torn>>
    /\ UNCHANGED snap

Save ==
    /\ Conf.saves /\ snap = Conf.streams /\ Values(mem) # snap
    /\ snap' = Values(mem)
    /\ UNCHANGED <<mem, log, copy, dead, torn, sent>>

Init ==
    /\ conf \in DOMAIN Deployments
    /\ Conf.requests \subseteq Requests
    /\ snap = Conf.streams
    /\ mem = [k \in Keys |-> Loaded(snap[k])]
    /\ copy = [k \in Keys |-> installStreamLocked(snap[k])]
    /\ log = <<>>
    /\ dead = FALSE
    /\ torn = {}
    /\ sent = 0

Next == (Save \/ \E r \in Conf.requests : executeStreamDeltaLocked(r)) /\ UNCHANGED conf

Spec == Init /\ [][Next]_vars

-----------------------------------------------------------------------------
(* Reads.                                                                  *)

StreamRange(b, lo, hi, count, reverse) ==
    Take(IF reverse THEN SelectSeq(ForEachReverse(b, hi), LAMBDA e : e >= lo)
         ELSE SelectSeq(ForEachFrom(b, lo), LAMBDA e : e <= hi), count)

\* XREAD: streams without an entry after the cursor are left out; -1 is $, the last ID.
StreamReadAfter(m, after, count) ==
    LET cursor(k) == IF after[k] = -1 THEN m[k].log.last ELSE after[k]
        found(k) == Take(ForEachFrom(m[k].log, cursor(k) + 1), count)
    IN  [k \in {k \in DOMAIN after : m[k] # None /\ found(k) # <<>>} |-> found(k)]

\* XPENDING without a range: entries without an owner count in the total only.
StreamGroupPendingSummary(group) ==
    LET by(c) == {id \in DOMAIN group.pend : group.pend[id].c = c}
    IN  [count |-> Cardinality(DOMAIN group.pend),
         low |-> IF group.pend = <<>> THEN None ELSE Min(DOMAIN group.pend),
         high |-> IF group.pend = <<>> THEN None ELSE Max(DOMAIN group.pend),
         consumers |-> [c \in {group.pend[id].c : id \in DOMAIN group.pend} \ {None} |-> Cardinality(by(c))]]

StreamGroupPendingRange(group, lo, hi, c, idle, count, t) ==
    Take(SetToSortSeq({id \in DOMAIN group.pend :
             /\ id \in lo .. hi
             /\ c # None => group.pend[id].c = c
             /\ Max({0, t - group.pend[id].at}) >= idle}, <), count)

streamInfoConsumer(group, c) == Cardinality({id \in DOMAIN group.pend : group.pend[id].c = c})

\* XINFO GROUPS: the lag is reported only where the number of entries read is known or inferred.
streamInfoGroup(b, group) ==
    LET read == IF group.read >= 0 THEN group.read ELSE inferStreamGroupEntriesRead(b, group.last)
    IN  [consumers |-> [c \in DOMAIN group.cons |-> streamInfoConsumer(group, c)],
         pending |-> Cardinality(DOMAIN group.pend),
         lag |-> IF read \in 0 .. b.added THEN b.added - read ELSE None]

StreamInfo(x) ==
    [length |-> Length(x.log), last |-> x.log.last, added |-> x.log.added,
     first |-> IF x.log.chunks = <<>> THEN None ELSE FirstID(x.log.chunks[1]),
     groups |-> [g \in DOMAIN x.groups |-> streamInfoGroup(x.log, x.groups[g])]]

-----------------------------------------------------------------------------
(* Properties.                                                             *)

\* The abstract value a stream stands for.
Abstract(m) ==
    [k \in Keys |->
        IF m[k] = None THEN None
        ELSE [entries |-> ToSet(All(m[k].log)), last |-> m[k].log.last,
              groups |-> [g \in DOMAIN m[k].groups |->
                             [last |-> m[k].groups[g].last, pend |-> DOMAIN m[k].groups[g].pend]]]]

Streaming == {k \in Keys : mem[k] # None}

\* Reads that search the chunks (XRANGE, XREVRANGE, Get) see exactly the
\* entries, however often the log was trimmed, cut, spilled and restored, and
\* the segment files are exactly those its chunks lie in (firstChunkAtOrAfter,
\* ForEachFrom, ForEachReverse, gcSegments).
ReadsExact ==
    \A k \in Streaming :
        LET b == mem[k].log
            all == All(b)
        IN  /\ \A lo \in 0 .. b.last + 1 :
                 /\ \A hi \in {lo, b.last} :
                      LET within == SelectSeq(all, LAMBDA e : e \in lo .. hi)
                      IN  /\ StreamRange(b, lo, hi, b.last, FALSE) = within
                          /\ StreamRange(b, lo, hi, b.last, TRUE) = Reverse(within)
                 /\ StreamReadAfter(mem, k :> lo, 1) =
                       IF \E e \in ToSet(all) : e > lo THEN k :> <<Min({e \in ToSet(all) : e > lo})>> ELSE <<>>
                 /\ Has(b, lo) <=> lo \in ToSet(all)
            /\ \A i \in 1 .. Len(all) - 1 : all[i] < all[i + 1]
            /\ \A id \in ToSet(all) : id <= b.last
            /\ SegmentsUsed(b.chunks) \subseteq b.segs
            /\ b.dirty \/ b.segs = SegmentsUsed(b.chunks)

\* A replica that applied the deltas, and a restart that applies them to the
\* last snapshot, even one newer than the deltas, hold what memory holds, unless
\* a command that failed half-way changed a key (applyStreamDelta).
CopiesExact ==
    Conf.durable /\ torn = {} =>
                 /\ Values(copy) = Values(mem)
                 /\ Values(Restore([k \in Keys |-> installStreamLocked(snap[k])], log)) = Values(mem)

\* A command on one key that fails changes nothing; only XREADGROUP on several
\* keys may (StreamGroupRead).
FailuresClean ==
    (\A r \in Conf.requests : r.op = "read" => Len(r.streams) = 1) => torn = {}

\* A pending entry belongs to a consumer of the group or to nobody, XPENDING and
\* XINFO count the same entries, and the lag XINFO reports never hides an entry
\* that was not delivered yet (StreamGroupPendingSummary, streamInfoGroup).
PendingOwned ==
    \A k \in Streaming : \A g \in DOMAIN mem[k].groups :
        LET group == mem[k].groups[g]
            sum == StreamGroupPendingSummary(group)
            info == StreamInfo(mem[k]).groups[g]
        IN  /\ DOMAIN sum.consumers \subseteq DOMAIN info.consumers
            /\ \A c \in DOMAIN info.consumers :
                 info.consumers[c] = IF c \in DOMAIN sum.consumers THEN sum.consumers[c] ELSE 0
            /\ Len(StreamGroupPendingRange(group, 0, mem[k].log.last, None, 0, sum.count, 0)) = sum.count
            /\ info.lag # None => info.lag >= Len(ForEachFrom(mem[k].log, group.last + 1))

StreamsKept == ReadsExact /\ CopiesExact /\ FailuresClean /\ PendingOwned

\* An append that fails leaves every stream as it was (Rollback).
RollbackExact == dead' # dead => Values(mem') = Values(mem)

\* With the ACKED policy an entry goes only when every group was given it and
\* has acknowledged it (streamAckedByAllGroups).
AckedOnly ==
    (\A r \in Conf.requests : r.op \in {"xadd", "xtrim", "xdel", "xdelex", "xackdel"} => r.policy = "acked") =>
        \A k \in Keys :
            (mem[k] # None /\ mem'[k] # None) =>
                \A id \in ToSet(All(mem[k].log)) \ ToSet(All(mem'[k].log)) :
                    \A g \in DOMAIN mem[k].groups :
                        mem[k].groups[g].last >= id /\ id \notin DOMAIN mem'[k].groups[g].pend
=============================================================================
