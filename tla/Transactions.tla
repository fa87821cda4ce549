---------------------------- MODULE Transactions ----------------------------
(***************************************************************************)
(* MULTI, MULTI ATOMIC, EXEC, DISCARD, WATCH and UNWATCH                   *)
(* (internal/server/transactions.go, transactions_atomic.go), the single   *)
(* commands they run beside (durability.go), eviction under maxmemory      *)
(* (pressure.go), the failover write fence and the role of the node.       *)
(*                                                                         *)
(* A key holds 0 (absent) or a value; the value Ttl carries an expiry.     *)
(* Memory is counted in keys: a write of an absent key needs one of Limit. *)
(* log is the keyspace that replaying the AOF yields, copy the keyspace of *)
(* a replica that has applied everything published.  Everything but a fast *)
(* SET holds durableMu exclusively, EXEC from its first check to its       *)
(* reply: ex is the EXEC that holds it.                                    *)
(***************************************************************************)
EXTENDS Integers, Sequences, FiniteSets

CONSTANTS Clients, Keys, Values, Ttl, None,
          Deployments   \* the configurations and workloads that are checked

\* "set" is SET with or without a TTL, "script" an EVAL that writes, "broken"
\* an EVAL that writes and then raises an error, "bad" a write that fails on
\* the type of its key, "unknown" a command that queueing refuses.
OpNames == {"set", "script", "broken", "bad", "unknown"}

VARIABLES
    conf,       \* the deployment
    mem,        \* the keyspace
    log,        \* what the AOF replays to
    copy,       \* the keyspace of the replica
    unavail,    \* durabilityFailed
    fenced,     \* failoverWritesFenced
    role,       \* the replication role
    ses,        \* ses[c]: the transactionSession of the connection
    registry,   \* the sessions of the watch registry; watchSessions is its size
    ex,         \* the EXEC in execution, or None
    late,       \* TRUE once the deadline of Ttl has passed
    changes,    \* how many of MaxChanges have happened
    touched,    \* history: touched[c], a key c watches has differed since its WATCH
    sent        \* history: sent[c], the commands c has sent since MULTI

dataset == <<mem, log, copy, unavail>>
node == <<fenced, role, late>>
vars == <<conf, dataset, node, ses, registry, ex, changes, touched, sent>>

Journal == conf.journal       \* TRUE when the server has an AOF
AppendFails == conf.fails     \* TRUE when an append to the AOF may fail
Replicas == conf.replicas     \* TRUE when a replica is connected
Limit == conf.limit           \* maxmemory in keys, 0 for none
Fences == conf.fences         \* TRUE when the failover lease may lapse and be renewed
Roles == conf.roles           \* the roles REPLICAOF may give the node
PlainOps == conf.plain        \* commands sent outside MULTI
QueuedOps == conf.queued      \* commands sent inside MULTI
Modes == conf.modes           \* the kinds of MULTI: TRUE is MULTI ATOMIC
Multis == conf.multis         \* the clients that use WATCH and MULTI
WatchKeys == conf.watch       \* the keys that WATCH names
MaxSent == conf.sent          \* commands a client sends inside one MULTI
MaxChanges == conf.changes    \* plain writes, changes of the fence and of the role

Contents == 0 .. Ttl
NewSession == [multi |-> FALSE, atomic |-> FALSE, dirty |-> FALSE, queue |-> <<>>,
               watched |-> [k \in {} |-> 0], watchDirty |-> FALSE]
Empty == [k \in Keys |-> 0]
Command(ops) == [op : ops, k : conf.keys, v : conf.values]
IsScript(cmd) == cmd.op \in {"script", "broken"}

Init ==
    /\ conf \in Deployments
    /\ mem = Empty /\ log = Empty /\ copy = Empty
    /\ unavail = FALSE /\ fenced = FALSE /\ role = "master" /\ late = FALSE
    /\ ses = [c \in Clients |-> NewSession]
    /\ registry = {}
    /\ ex = None
    /\ changes = 0
    /\ touched = [c \in Clients |-> FALSE]
    /\ sent = [c \in Clients |-> <<>>]

-----------------------------------------------------------------------------
(* Watched keys                                                            *)

Differs(s, m) == \E k \in DOMAIN s.watched : s.watched[k] # m[k]

\* The sessions S once the keyspace m has been compared with what they watch.
refreshWatchesLocked(S, m) ==
    [c \in Clients |->
        IF c \in registry /\ Differs(S[c], m) THEN [S[c] EXCEPT !.watchDirty = TRUE] ELSE S[c]]

\* The history of the changes that the watching sessions ought to see.
Touch(m) == touched' = [c \in Clients |-> touched[c] \/ Differs(ses[c], m)]


\* Mutant: the mark survives the keys it was made for.
clearWatchLockedKeepsMark(s) == [s EXCEPT !.watched = [k \in {} |-> 0]]

clearWatchLocked(s) == [s EXCEPT !.watched = [k \in {} |-> 0], !.watchDirty = FALSE]
clearMultiLocked(s) == [s EXCEPT !.multi = FALSE, !.atomic = FALSE, !.dirty = FALSE, !.queue = <<>>]


\* Mutant: the session stays in the registry.
LeaveRegistered(c, S) ==
    /\ ses' = [S EXCEPT ![c] = clearMultiLocked(clearWatchLocked(S[c]))]
    /\ touched' = [touched EXCEPT ![c] = FALSE]
    /\ sent' = [sent EXCEPT ![c] = <<>>]
    /\ UNCHANGED registry

\* Session c leaves MULTI and WATCH; the others are as in S.
Leave(c, S) ==
    /\ ses' = [S EXCEPT ![c] = clearMultiLocked(clearWatchLocked(S[c]))]
    /\ registry' = registry \ {c}
    /\ touched' = [touched EXCEPT ![c] = FALSE]
    /\ sent' = [sent EXCEPT ![c] = <<>>]

-----------------------------------------------------------------------------
(* One command against the keyspace                                        *)

Fits(m, k) == \/ Limit = 0 \/ m[k] # 0
              \/ Cardinality({j \in Keys : m[j] # 0}) < Limit

\* A value whose deadline has passed is deleted as it is written.
Stored(v) == IF late /\ v = Ttl THEN 0 ELSE v

\* The outcomes of running cmd on m under memory pressure: the keyspace it
\* leaves, whether it answers an error, and the keys it evicted.  Only the
\* generic router looks at the fence, and neither a plain SET without maxmemory
\* nor a script goes through it.
executePressureMode(m, cmd) ==
    LET failed == [mem |-> m, err |-> TRUE, gone |-> {}]
        after(gone) == [mem |-> [j \in Keys |-> IF j = cmd.k THEN Stored(cmd.v)
                                               ELSE IF j \in gone THEN 0 ELSE m[j]],
                        err |-> cmd.op = "broken", gone |-> gone]
        victims == {j \in Keys \ {cmd.k} : m[j] # 0}
    IN  IF cmd.op = "bad" \/ (fenced /\ cmd.op = "set" /\ (Limit > 0 \/ cmd.v = Ttl)) THEN {failed}
        ELSE IF Fits(m, cmd.k) THEN {after({})}
        ELSE IF victims = {} THEN {failed}
        ELSE {after({j}) : j \in victims}

\* m with the keys ks as they are in n.
Patch(m, n, ks) == [k \in Keys |-> IF k \in ks THEN n[k] ELSE m[k]]

\* The keys that records of the change from m to n name.
persistenceDiff(m, n, scope) == {k \in scope : m[k] # n[k]}

Appends == IF AppendFails THEN BOOLEAN ELSE {TRUE}

-----------------------------------------------------------------------------
(* Commands outside MULTI                                                  *)

\* A script under an AOF: the whole change is one frame, whether or not the
\* script failed.  It is not published.
executeScriptDurableLocked(cmd) ==
    \E o \in executePressureMode(mem, cmd), ok \in Appends :
        /\ UNCHANGED copy
        /\ IF ok THEN mem' = o.mem /\ log' = Patch(log, o.mem, persistenceDiff(mem, o.mem, Keys))
                      /\ UNCHANGED unavail
                 ELSE mem' = mem /\ unavail' = TRUE /\ UNCHANGED log


\* Mutant: evictions are not appended.
executeWriteDurableLockedForgets(cmd) ==
    \E o \in executePressureMode(mem, cmd) :
        /\ mem' = o.mem
        /\ log' = IF o.err THEN log ELSE Patch(log, o.mem, {cmd.k})
        /\ UNCHANGED <<copy, unavail>>

\* Any other write under an AOF.  Evictions are appended before they are made;
\* the append of an eviction may fail too, and then it is not made.
executeWriteDurableLocked(cmd) ==
    \E o \in executePressureMode(mem, cmd), ok \in Appends, evicts \in Appends :
        LET evicted == Patch(log, Empty, o.gone)
        IN  IF o.gone # {} /\ ~evicts
            THEN unavail' = TRUE /\ UNCHANGED <<mem, log, copy>>
            ELSE IF o.err
            THEN UNCHANGED <<mem, log, copy, unavail>>
            ELSE IF ~ok
            THEN /\ mem' = Patch(o.mem, mem, {cmd.k})
                 /\ log' = evicted /\ unavail' = TRUE /\ UNCHANGED copy
            ELSE /\ mem' = o.mem
                 /\ log' = Patch(evicted, o.mem, {cmd.k})
                 /\ copy' = IF Replicas THEN Patch(copy, o.mem, {cmd.k}) ELSE copy
                 /\ UNCHANGED unavail

\* A write without an AOF: SET publishes its own key, everything else the whole
\* change, and a command that failed publishes nothing.
executeReplicatedWriteLocked(cmd) ==
    \E o \in executePressureMode(mem, cmd) :
        LET named == IF cmd.op = "set" THEN {cmd.k} ELSE persistenceDiff(mem, o.mem, Keys)
        IN  /\ mem' = o.mem
            /\ copy' = IF Replicas /\ ~o.err THEN Patch(copy, o.mem, named) ELSE copy
            /\ UNCHANGED <<log, unavail>>


\* Mutant: neither the fence nor the role is looked at.
AcceptsAnywhere(c) == ~ses[c].multi /\ changes < MaxChanges

\* The checks before the lock: the fence where the command is read, the role
\* where it is executed.
Accepts(c) == ~ses[c].multi /\ ~fenced /\ role = "master" /\ changes < MaxChanges

\* A command that takes durableMu exclusively and refreshes the watched keys
\* before and after it runs.
executeDurable(c, cmd) ==
    /\ Accepts(c) /\ ex = None
    /\ ~(Journal /\ unavail)
    /\ CASE Journal /\ IsScript(cmd)  -> executeScriptDurableLocked(cmd)
         [] Journal /\ ~IsScript(cmd) -> executeWriteDurableLocked(cmd)
         [] OTHER                     -> executeReplicatedWriteLocked(cmd)
    /\ ses' = refreshWatchesLocked(refreshWatchesLocked(ses, mem), mem')
    /\ Touch(mem')
    /\ changes' = changes + 1
    /\ UNCHANGED <<node, registry, ex, sent>>


\* Mutant: the fast path does not look for sessions that watch.
concurrentSetBlind(c, cmd) ==
    /\ Accepts(c) /\ ex = None /\ ~Journal /\ ~Replicas
    /\ cmd.op = "set" /\ cmd.v # Ttl
    /\ \E o \in executePressureMode(mem, cmd) : mem' = o.mem
    /\ Touch(mem')
    /\ changes' = changes + 1
    /\ UNCHANGED <<log, copy, unavail, node, ses, registry, ex, sent>>

\* The fast path of SET, under the read lock: no AOF, no replica, no session
\* that watches a key, and so nothing to refresh.
concurrentSet(c, cmd) ==
    /\ Accepts(c) /\ ex = None
    /\ ~Journal /\ ~Replicas /\ registry = {}
    /\ cmd.op = "set" /\ cmd.v # Ttl
    /\ \E o \in executePressureMode(mem, cmd) : mem' = o.mem
    /\ Touch(mem')
    /\ changes' = changes + 1
    /\ UNCHANGED <<log, copy, unavail, node, ses, registry, ex, sent>>

-----------------------------------------------------------------------------
(* The transaction commands                                                *)

\* A connection sends its next command when EXEC has answered.
Idle(c) == ex # None => ex.c # c

multi(c, atomic) ==
    /\ ~ses[c].multi /\ Idle(c)
    /\ ses' = [ses EXCEPT ![c].multi = TRUE, ![c].atomic = atomic,
                          ![c].dirty = FALSE, ![c].queue = <<>>]
    /\ sent' = [sent EXCEPT ![c] = <<>>]
    /\ UNCHANGED <<dataset, node, registry, ex, changes, touched>>

\* A key that is watched already keeps what its first WATCH recorded.
watch(c, k) ==
    /\ ~ses[c].multi /\ ex = None
    /\ LET S == refreshWatchesLocked(ses, mem)
           old == S[c].watched
       IN  ses' = [S EXCEPT ![c].watched =
                     [j \in DOMAIN old \cup {k} |-> IF j \in DOMAIN old THEN old[j] ELSE mem[j]]]
    /\ registry' = registry \cup {c}
    /\ UNCHANGED <<dataset, node, ex, changes, touched, sent>>

unwatch(c) ==
    /\ ~ses[c].multi /\ ex = None /\ c \in registry
    /\ Leave(c, refreshWatchesLocked(ses, mem))
    /\ UNCHANGED <<dataset, node, ex, changes>>


\* Mutant: a command that does not validate is dropped and the queue stays clean.
queueCommandClean(c, cmd) ==
    /\ ses[c].multi /\ Len(sent[c]) < MaxSent
    /\ sent' = [sent EXCEPT ![c] = Append(@, cmd)]
    /\ ses' = IF cmd.op = "unknown" \/ fenced THEN ses ELSE [ses EXCEPT ![c].queue = Append(@, cmd)]
    /\ UNCHANGED <<dataset, node, registry, ex, changes, touched>>

\* A command inside MULTI.  The fence refuses a write where it is read, before
\* the session sees it; a command that does not validate poisons the queue.
queueCommand(c, cmd) ==
    /\ ses[c].multi /\ Idle(c) /\ Len(sent[c]) < MaxSent
    /\ sent' = [sent EXCEPT ![c] = Append(@, cmd)]
    /\ ses' = IF cmd.op = "unknown" THEN [ses EXCEPT ![c].dirty = TRUE]
              ELSE IF fenced THEN ses
              ELSE [ses EXCEPT ![c].queue = Append(@, cmd)]
    /\ UNCHANGED <<dataset, node, registry, ex, changes, touched>>

\* DISCARD, or the end of the connection.
discard(c) ==
    /\ ses[c].multi \/ c \in registry
    /\ ex = None
    /\ Leave(c, ses)
    /\ UNCHANGED <<dataset, node, ex, changes>>


\* Mutant: the keys of a script are not in the snapshot.
atomicSnapshotKeysNamed(cmds) == {cmds[i].k : i \in {j \in DOMAIN cmds : ~IsScript(cmds[j])}}

\* The keys whose pre-image EXEC keeps: those it names, or all of them as soon as
\* one command is not known to name every key it writes.
atomicSnapshotKeys(cmds) ==
    IF \E i \in DOMAIN cmds : IsScript(cmds[i]) THEN Keys ELSE {cmds[i].k : i \in DOMAIN cmds}

\* EXEC of a poisoned queue (EXECABORT), or of a session one of whose watched
\* keys has changed (nil).
execRefuses(c) ==
    /\ ses[c].multi /\ ex = None
    /\ \/ ses[c].dirty /\ Leave(c, ses)
       \/ /\ ~ses[c].dirty
          /\ LET S == refreshWatchesLocked(ses, mem) IN S[c].watchDirty /\ Leave(c, S)
    /\ UNCHANGED <<dataset, node, ex, changes>>

\* EXEC takes the queue, unwatches and keeps the pre-image.
execStarts(c) ==
    /\ ses[c].multi /\ ex = None /\ ~ses[c].dirty
    /\ LET S == refreshWatchesLocked(ses, mem)
       IN  ~S[c].watchDirty /\ Leave(c, S)
    /\ ex' = [c |-> c, cmds |-> ses[c].queue, atomic |-> ses[c].atomic, next |-> 1,
              replicate |-> Replicas, scope |-> atomicSnapshotKeys(ses[c].queue), before |-> mem]
    /\ UNCHANGED <<dataset, node, changes>>

\* The next command of the queue.  An error undoes a MULTI ATOMIC: the keys of
\* the snapshot take their old contents.
execCommand ==
    /\ ex # None /\ ex.next <= Len(ex.cmds)
    /\ LET cmd == ex.cmds[ex.next]
           refused == {[mem |-> mem, err |-> TRUE, gone |-> {}]}
       IN  \E o \in IF Journal /\ unavail THEN refused ELSE executePressureMode(mem, cmd) :
             IF o.err /\ ex.atomic
             THEN mem' = Patch(o.mem, ex.before, ex.scope) /\ ex' = None
             ELSE mem' = o.mem /\ ex' = [ex EXCEPT !.next = @ + 1]
    /\ ses' = refreshWatchesLocked(ses, mem')
    /\ Touch(mem')
    /\ UNCHANGED <<log, copy, unavail, node, registry, changes, sent>>


\* Mutant: the change is appended and not published.
execCommitsSilently ==
    /\ ex # None /\ ex.next > Len(ex.cmds)
    /\ log' = IF Journal THEN Patch(log, mem, persistenceDiff(ex.before, mem, ex.scope)) ELSE log
    /\ ex' = None
    /\ UNCHANGED <<mem, copy, unavail, touched, node, ses, registry, changes, sent>>

\* The end of the queue: the change of the snapshot's keys is appended as one
\* frame and published, or undone when the append fails.
execCommits ==
    /\ ex # None /\ ex.next > Len(ex.cmds)
    /\ LET diff == persistenceDiff(ex.before, mem, ex.scope)
       IN  IF diff = {} \/ unavail
           THEN UNCHANGED dataset
           ELSE \E ok \in Appends :
                  IF ok
                  THEN /\ log' = IF Journal THEN Patch(log, mem, diff) ELSE log
                       /\ copy' = IF ex.replicate THEN Patch(copy, mem, diff) ELSE copy
                       /\ UNCHANGED <<mem, unavail>>
                  ELSE /\ mem' = Patch(mem, ex.before, ex.scope)
                       /\ unavail' = TRUE
                       /\ UNCHANGED <<log, copy>>
    /\ ex' = None
    /\ Touch(mem')
    /\ UNCHANGED <<node, ses, registry, changes, sent>>

-----------------------------------------------------------------------------
(* The environment                                                         *)

\* The deadline of Ttl passes: the keys that hold it read as absent in memory, in
\* what the AOF replays to, at the replica and in a pre-image.
Expire ==
    LET gone(m) == [k \in Keys |-> IF m[k] = Ttl THEN 0 ELSE m[k]]
    IN  /\ ~late /\ late' = TRUE
        /\ mem' = gone(mem) /\ log' = gone(log) /\ copy' = gone(copy)
        /\ ex' = IF ex = None THEN ex ELSE [ex EXCEPT !.before = gone(@)]
        /\ Touch(mem')
        /\ UNCHANGED <<unavail, fenced, role, ses, registry, changes, sent>>

\* The leader's lease lapses or is renewed.
Fence ==
    /\ Fences /\ changes < MaxChanges
    /\ fenced' = ~fenced
    /\ changes' = changes + 1
    /\ UNCHANGED <<dataset, role, late, ses, registry, ex, touched, sent>>

\* REPLICAOF changes the role under durableMu.
ReplicaOf ==
    /\ ex = None /\ changes < MaxChanges
    /\ \E r \in Roles \ {role} : role' = r
    /\ changes' = changes + 1
    /\ UNCHANGED <<dataset, fenced, late, ses, registry, ex, touched, sent>>

Next ==
    /\ UNCHANGED conf
    /\ \/ \E c \in Clients, cmd \in Command(PlainOps) : executeDurable(c, cmd) \/ concurrentSet(c, cmd)
       \/ \E c \in Multis :
             \/ \E atomic \in Modes : multi(c, atomic)
             \/ \E cmd \in Command(QueuedOps) : queueCommand(c, cmd)
             \/ \E k \in WatchKeys : watch(c, k)
             \/ unwatch(c) \/ discard(c) \/ execRefuses(c) \/ execStarts(c)
       \/ execCommand \/ execCommits
       \/ Expire \/ Fence \/ ReplicaOf

Spec == Init /\ [][Next]_vars
-----------------------------------------------------------------------------
(* Properties                                                              *)

TypeOK ==
    /\ conf.multis \subseteq Clients /\ conf.watch \subseteq conf.keys /\ conf.queued \subseteq OpNames
    /\ {mem, log, copy} \subseteq [Keys -> Contents]
    /\ {unavail, fenced, late} \subseteq BOOLEAN /\ role \in {"master", "replica"}
    /\ \A c \in Clients :
          /\ {ses[c].multi, ses[c].atomic, ses[c].dirty, ses[c].watchDirty} \subseteq BOOLEAN
          /\ DOMAIN ses[c].watched \subseteq Keys
          /\ c \in registry <=> DOMAIN ses[c].watched # {}
          /\ Len(ses[c].queue) <= Len(sent[c]) /\ Len(sent[c]) <= MaxSent
    /\ ex = None \/ (ex.scope \subseteq Keys /\ ex.next \in 1 .. Len(ex.cmds) + 1)
    /\ changes \in 0 .. MaxChanges

Starts(c) == ses[c].multi /\ ~ses'[c].multi /\ ex = None /\ ex' # None

\* EXEC runs its queue only if no key the session watches has, since its WATCH,
\* held anything but what the WATCH recorded: not even when the old contents came
\* back, a TTL ended, or another EXEC was undone (refreshWatchesLocked is called
\* before and after every command that can change a key).
WatchStep == \A c \in Clients : Starts(c) => ~touched[c]
WatchSound == [][WatchStep]_vars

\* EXEC answers nil only if some watched key did change: a session is marked
\* dirty by refreshWatchesLocked for a change since its own WATCH, never for one
\* that an earlier WATCH, UNWATCH, DISCARD or EXEC has settled.
WatchExact == \A c \in Clients : ses[c].watchDirty => touched[c]

\* An EXEC that is undone, because a command of a MULTI ATOMIC failed or because
\* its frame could not be appended, leaves the keyspace as it found it.
RollbackStep ==
    ex # None /\ ex' = None /\ (ex.next <= Len(ex.cmds) \/ unavail' # unavail) => mem' = ex.before
RollbackExact == [][RollbackStep]_vars

\* Between commands the AOF replays to exactly what memory holds, also after
\* evictions, failed scripts and appends that failed and were undone.
LogIsMem == Journal /\ ex = None => log = mem

\* Between commands a replica that has applied what was published holds exactly
\* what memory holds.
CopyIsMem == Replicas /\ ex = None => copy = mem

\* EXEC runs the commands the client sent since MULTI, all of them and in order,
\* or none: a command that was refused poisons the queue.
SentStep == \A c \in Clients : Starts(c) => ses[c].queue = sent[c]
RunsWhatWasSent == [][SentStep]_vars

NoWrite == \A k \in Keys : mem'[k] \in {0, mem[k]}

\* While the lease of the failover leader is not valid, no command writes a key.
FencedStep == fenced => NoWrite
FencedReadOnly == [][FencedStep]_vars

\* While the node is a replica, no client's command writes a key.
ReplicaStep == role = "replica" => NoWrite
ReplicaReadOnly == [][ReplicaStep]_vars
=============================================================================
