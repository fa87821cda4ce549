---------------------------- MODULE Replication ----------------------------
(***************************************************************************)
(* Primary/replica replication: the write paths of a primary, the          *)
(* replication backlog and offset, PSYNC with full and partial             *)
(* resynchronisation, the follower goroutine of a replica, chained         *)
(* replicas, ACKs, REPLICAOF, and the recovery of the PSYNC continuation   *)
(* from the AOF or from the sidecar file after a restart                   *)
(* (internal/server/replication.go, replication_persistence.go,            *)
(* durability.go).                                                         *)
(*                                                                         *)
(* The keyspace is a function from keys to the number of the last write    *)
(* of the key.  A replication frame is one SET and counts as one unit of   *)
(* the offset.  durableMu is lock[n]: a section under it that has no       *)
(* unlocked part in the middle is one action.  The AOF is fsynced on every *)
(* append, so the keyspace that replay rebuilds is the one in memory; the  *)
(* replication records of the AOF are ckpt[n].                             *)
(***************************************************************************)
EXTENDS Integers, Sequences, FiniteSets

CONSTANTS Nodes, Keys, Clients, None,
          Deployments   \* the topologies and workloads that are checked

ASSUME ReplicationAssumption ==
    \A d \in Deployments :
        /\ d.upstream \in [Nodes -> Nodes \cup {None}]
        /\ d.journal \in BOOLEAN /\ d.attached \in BOOLEAN
        /\ d.moves \subseteq Nodes \X (Nodes \cup {None})
        /\ {d.targeted, d.crashers, d.rewriters} \subseteq SUBSET Nodes
        /\ d.clients \subseteq Clients /\ d.keys \subseteq Keys
        /\ d.backlog \in Nat \ {0}
        /\ {d.maxWrites, d.maxDrops, d.maxRestarts, d.maxMoves} \subseteq Nat
        /\ d.crashers # {} => d.journal

VARIABLES
    conf,      \* the deployment
    store,     \* store[n]: the keyspace
    role,      \* role[n]: "master" or "replica"
    up,        \* up[n]: masterHost/masterPort, None on a master
    masterRun, \* masterRun[n]: the run ID the offset belongs to, None before a sync
    inc,       \* inc[n]: the incarnation; <<n, inc[n]>> is the node's own runID
    off,       \* off[n]: the replication offset
    log,       \* log[n]: the backlog: active, first offset, entries
    lock,      \* lock[n]: the node whose sync holds n's durableMu, or None
    fol,       \* fol[n]: the follower goroutine
    link,      \* link[n]: n's connection to its upstream
    client,    \* client[c]: the SET in execution
    ckpt,      \* ckpt[n]: the last replication record of the AOF
    side,      \* side[n]: the sidecar file written by a graceful shutdown
    count,     \* writes, drops, restarts and moves so far
    published, \* history: published[n][o], the keyspace of n at offset o of its run
    ahead,     \* history: ahead[n], the offset the keyspace of n really includes
    syncs,     \* history: syncs[n], how often n has left its line of history
    base,      \* history: base[n], syncs of the upstream when n's snapshot was taken
    asked      \* history: asked[n], the role the last REPLICAOF asked for

state == <<store, role, up, masterRun, inc, off, log, lock, fol, link, client,
           ckpt, side, count, published, ahead, syncs, base, asked>>
vars == <<conf, state>>

replication == <<role, up, masterRun>>
lineage == <<syncs, base, asked>>
history == <<published, ahead, lineage>>

Upstream0 == conf.upstream        \* the initial REPLICAOF of each node (None: a primary)
Journal == conf.journal           \* TRUE when the nodes run with an AOF
Attached == conf.attached         \* TRUE when every backlog is active at the start
Targeted == conf.targeted         \* the nodes clients send SET to
Moves == conf.moves               \* the REPLICAOF commands that may be issued: <<n, upstream>>
Crashers == conf.crashers         \* the nodes that may restart
Rewriters == conf.rewriters       \* the nodes that may rewrite their AOF
BacklogSize == conf.backlog       \* backlogSize, in frames
MaxWrites == conf.maxWrites
MaxDrops == conf.maxDrops
MaxRestarts == conf.maxRestarts
MaxMoves == conf.maxMoves

RunID(n) == <<n, inc[n]>>
RunIDs == Nodes \X (0 .. MaxRestarts)
Offsets == 0 .. MaxWrites
Store == [Keys -> 0 .. MaxWrites]
Frame == [key : Keys, val : 1 .. MaxWrites]
NoFrame == [key |-> None, val |-> 0]

\* The connection of a replica: the node that has it registered, the number of
\* the connection (the replica ID of registerReplica), the writer goroutine's
\* queue, the bytes on the wire, and the offset last acknowledged.
NoLink(l) == [up |-> None, id |-> l.id + 1, queue |-> <<>>, wire |-> <<>>, ack |-> 0]

\* The follower goroutine: where it is in consumeReplicationConnection, the
\* PSYNC it sent, and what it has read and not yet applied.
Follower(pc) == [pc |-> pc, run |-> None, at |-> 0, msg |-> None]
Connected == {"psync", "reply", "stream"}

NoClient == [pc |-> "idle", node |-> None, path |-> None, frame |-> NoFrame, targets |-> {}]

NoRecord == [kind |-> "none", up |-> None, run |-> None, off |-> 0]
Tombstone(h) == [NoRecord EXCEPT !.kind = "clear", !.up = h]
Checkpoint(h, r, o) == [kind |-> "at", up |-> h, run |-> r, off |-> o]

\* Init: every node has been started and given its REPLICAOF, which wrote a
\* tombstone record; the followers have not connected yet.
Init ==
    /\ conf \in Deployments
    /\ store = [n \in Nodes |-> [k \in Keys |-> 0]]
    /\ role = [n \in Nodes |-> IF Upstream0[n] = None THEN "master" ELSE "replica"]
    /\ up = Upstream0
    /\ masterRun = [n \in Nodes |-> None]
    /\ inc = [n \in Nodes |-> 0]
    /\ off = [n \in Nodes |-> 0]
    /\ log = [n \in Nodes |-> [active |-> Attached, first |-> 1, entries |-> <<>>]]
    /\ lock = [n \in Nodes |-> None]
    /\ fol = [n \in Nodes |-> Follower(IF Upstream0[n] = None THEN "off" ELSE "dial")]
    /\ link = [n \in Nodes |-> NoLink([id |-> -1])]
    /\ client = [c \in Clients |-> NoClient]
    /\ ckpt = [n \in Nodes |-> IF Upstream0[n] = None THEN NoRecord ELSE Tombstone(Upstream0[n])]
    /\ side = [n \in Nodes |-> NoRecord]
    /\ count = [writes |-> 0, drops |-> 0, restarts |-> 0, moves |-> 0]
    /\ published = [n \in Nodes |-> [o \in Offsets |-> IF o = 0 THEN store[n] ELSE None]]
    /\ ahead = [n \in Nodes |-> 0]
    /\ syncs = [n \in Nodes |-> 0]
    /\ base = [n \in Nodes |-> 0]
    /\ asked = role

----------------------------------------------------------------------------
(* The backlog and the registered replicas.                                *)

Replicas(n) == {m \in Nodes : link[m].up = n}

Publishing(n) == Replicas(n) # {} \/ log[n].active

\* primaryHasReplicas.
PrimaryHasReplicas(n) == role[n] = "master" /\ Publishing(n)

Apply(s, f) == [s EXCEPT ![f.key] = f.val]

\* Mutation: an active backlog is reset to the current offset by every PSYNC.
ActivatedAfresh(n) == [active |-> TRUE, first |-> off[n] + 2, entries |-> <<>>]

\* ensureBacklogLocked.
Activated(n) == IF log[n].active THEN log[n] ELSE [active |-> TRUE, first |-> off[n] + 1, entries |-> <<>>]

\* Mutation: the eviction forgets to advance backlogFirstOffset.
AppendedStaleFirst(n, f) ==
    LET all  == Append(Activated(n).entries, [at |-> off[n] + 1, frame |-> f])
        kept == IF Len(all) > BacklogSize THEN Tail(all) ELSE all
    IN  [active |-> TRUE, first |-> Activated(n).first, entries |-> kept]

\* appendBacklogPayloadLocked: append, then evict from the front until the
\* retained frames fit, and let first name the oldest retained offset.
Appended(n, f) ==
    LET all  == Append(Activated(n).entries, [at |-> off[n] + 1, frame |-> f])
        kept == IF Len(all) > BacklogSize THEN Tail(all) ELSE all
    IN  [active |-> TRUE, first |-> kept[1].at, entries |-> kept]

\* Offset, backlog and history after n's stream has grown by the frame f and
\* its keyspace has become s.
Published(n, f, s) ==
    /\ log' = [log EXCEPT ![n] = Appended(n, f)]
    /\ off' = [off EXCEPT ![n] = @ + 1]
    /\ published' = [published EXCEPT ![n][off[n] + 1] = s]

\* Mutation: the queue of a later connection of the same replica is used.
EnqueuedAnyConnection(T, f) ==
    [m \in Nodes |-> IF (\E t \in T : t[1] = m) /\ link[m].up # None
                     THEN [link[m] EXCEPT !.queue = Append(@, [kind |-> "frame", frame |-> f])]
                     ELSE link[m]]

\* enqueue on the queues of the registered replicas in T (pairs of a replica
\* and its connection number; a closed connection only returns an error).
Enqueued(T, f) ==
    [m \in Nodes |-> IF <<m, link[m].id>> \in T /\ link[m].up # None
                     THEN [link[m] EXCEPT !.queue = Append(@, [kind |-> "frame", frame |-> f])]
                     ELSE link[m]]

Targets(n) == {<<m, link[m].id>> : m \in Replicas(n)}

\* Mutation: an offset just before the retained backlog is served.
PartialSyncEarly(n, r, o) ==
    /\ log[n].active
    /\ r = RunID(n)
    /\ o <= off[n] + 1
    /\ o + 1 >= log[n].first

\* partialSyncPayloadLocked: may a replica that asks for offset o of run r
\* continue, and with which frames.
PartialSync(n, r, o) ==
    /\ log[n].active
    /\ r = RunID(n)
    /\ o <= off[n] + 1
    /\ o >= log[n].first

\* Mutation: the frame asked for is left out.
PayloadsLate(n, o) ==
    LET es == SelectSeq(log[n].entries, LAMBDA e : e.at > o)
    IN  [i \in 1 .. Len(es) |-> [kind |-> "frame", frame |-> es[i].frame]]

Payloads(n, o) ==
    LET es == SelectSeq(log[n].entries, LAMBDA e : e.at >= o)
    IN  [i \in 1 .. Len(es) |-> [kind |-> "frame", frame |-> es[i].frame]]

----------------------------------------------------------------------------
(* SET on a node.  Path "locked" is executeDurable, "fast" the concurrent  *)
(* SET under the read lock, "direct" the serialized replicated SET.        *)

\* What the three paths test before they take durableMu.
Admitted(n, path) ==
    \/ path = "locked" /\ role[n] = "master"
    \/ path = "fast" /\ ~PrimaryHasReplicas(n) /\ (Journal \/ role[n] = "master")
    \/ path = "direct" /\ ~Journal

ClientCheck(c) ==
    /\ client[c].pc = "idle"
    /\ count.writes < MaxWrites
    /\ \E n \in Targeted, path \in {"locked", "fast", "direct"}, k \in conf.keys :
          /\ Admitted(n, path)
          /\ client' = [client EXCEPT ![c] =
                 [NoClient EXCEPT !.pc = "admitted", !.node = n, !.path = path,
                                  !.frame = [key |-> k, val |-> count.writes + 1]]]
    /\ count' = [count EXCEPT !.writes = @ + 1]
    /\ UNCHANGED <<store, replication, inc, off, log, lock, fol, link, ckpt, side, history>>

\* executeDurableLocked with a SET: the keyspace and, when the node publishes,
\* the stream and the queues change in one section under durableMu.  Without
\* an AOF only a master publishes.
ClientLocked(c) ==
    LET n == client[c].node
        f == client[c].frame
        s == Apply(store[n], f)
    IN  /\ client[c].pc = "admitted" /\ client[c].path = "locked"
        /\ lock[n] = None
        /\ store' = [store EXCEPT ![n] = s]
        /\ IF Publishing(n) /\ (Journal \/ role[n] = "master")
           THEN Published(n, f, s) /\ link' = Enqueued(Targets(n), f)
           ELSE UNCHANGED <<log, off, published, link>>
        /\ client' = [client EXCEPT ![c] = NoClient]
        /\ UNCHANGED <<replication, inc, lock, fol, ckpt, side, count, ahead, lineage>>

\* executeAuthorizedConcurrentSet and executeAuthorizedConcurrentAOFSet: the
\* keyspace changes under the read lock and nothing is published.
ClientFast(c) ==
    LET n == client[c].node
    IN  /\ client[c].pc = "admitted" /\ client[c].path = "fast"
        /\ lock[n] = None
        /\ store' = [store EXCEPT ![n] = Apply(@, client[c].frame)]
        /\ client' = [client EXCEPT ![c] = NoClient]
        /\ UNCHANGED <<replication, inc, off, log, lock, fol, link, ckpt, side, count, history>>

\* executeAuthorizedSerializedReplicatedSet under durableMu: the role is tested
\* again, the frame joins the backlog and the targets are noted.
ClientDirect(c) ==
    LET n == client[c].node
        f == client[c].frame
        s == Apply(store[n], f)
    IN  /\ client[c].pc = "admitted" /\ client[c].path = "direct"
        /\ lock[n] = None
        /\ IF PrimaryHasReplicas(n)
           THEN /\ store' = [store EXCEPT ![n] = s]
                /\ Published(n, f, s)
                /\ client' = [client EXCEPT ![c].pc = "send", ![c].targets = Targets(n)]
           ELSE /\ client' = [client EXCEPT ![c] = NoClient]
                /\ UNCHANGED <<store, log, off, published>>
        /\ UNCHANGED <<replication, inc, lock, fol, link, ckpt, side, count, ahead, lineage>>

\* The rest of the serialized replicated SET, after durableMu is released.
ClientSend(c) ==
    /\ client[c].pc = "send"
    /\ link' = Enqueued(client[c].targets, client[c].frame)
    /\ client' = [client EXCEPT ![c] = NoClient]
    /\ UNCHANGED <<store, replication, inc, off, log, lock, fol, ckpt, side, count, history>>

----------------------------------------------------------------------------
(* Synchronisation of the replica m with its upstream.                     *)

\* runReplicaFollow dials the upstream and consumeReplicationConnection sends
\* PSYNC with the run ID and the next offset it needs.
Dial(m) ==
    /\ fol[m].pc = "dial"
    /\ up[m] # m
    /\ fol' = [fol EXCEPT ![m] = [Follower("psync") EXCEPT !.run = masterRun[m], !.at = off[m] + 1]]
    /\ UNCHANGED <<store, replication, inc, off, log, lock, link, client, ckpt, side, count, history>>

\* handlePSYNC up to the registration of the replica: under durableMu the
\* backlog is tested, the snapshot taken, the replica registered.
Psync(m) ==
    LET n == up[m]
        f == fol[m]
        partial == PartialSync(n, f.run, f.at)
        full == [kind |-> "full", run |-> RunID(n), off |-> off[n], store |-> store[n],
                 ahead |-> IF fol[n].pc = "forward" THEN off[n] + 1 ELSE off[n],
                 base |-> syncs[n]]
    IN  /\ f.pc = "psync" /\ link[m].up = None
        /\ lock[n] = None
        /\ lock' = [lock EXCEPT ![n] = m]
        /\ link' = [link EXCEPT ![m].up = n]
        /\ fol' = [fol EXCEPT ![m].msg = IF partial THEN <<[kind |-> "continue"]>> \o Payloads(n, f.at)
                                                    ELSE <<full>>]
        /\ log' = IF partial THEN log ELSE [log EXCEPT ![n] = Activated(n)]
        /\ published' = IF log[n].active THEN published ELSE [published EXCEPT ![n][off[n]] = store[n]]
        /\ UNCHANGED <<store, replication, inc, off, client, ckpt, side, count, ahead, lineage>>

\* The rest of handlePSYNC: the header and the snapshot or the backlog frames
\* are written to the connection and durableMu is released.
PsyncReply(m) ==
    LET n == link[m].up
    IN  /\ n # None /\ lock[n] = m
        /\ link' = [link EXCEPT ![m].wire = @ \o fol[m].msg]
        /\ lock' = [lock EXCEPT ![n] = None]
        /\ fol' = [fol EXCEPT ![m] = Follower("reply")]
        /\ UNCHANGED <<store, replication, inc, off, log, client, ckpt, side, count, history>>

\* The writer goroutine of registerReplica.
WriterFlush(m) ==
    /\ link[m].queue # <<>>
    /\ link' = [link EXCEPT ![m].wire = Append(@, Head(link[m].queue)), ![m].queue = Tail(@)]
    /\ UNCHANGED <<store, replication, inc, off, log, lock, fol, client, ckpt, side, count, history>>

\* The answer to PSYNC is read.  A frame that overtook it is an error and ends
\* the connection.
ReadReply(m) ==
    LET msg == Head(link[m].wire)
    IN  /\ fol[m].pc = "reply" /\ link[m].wire # <<>>
        /\ CASE msg.kind = "full" ->
                  /\ fol' = [fol EXCEPT ![m] = [Follower("loaded") EXCEPT !.msg = msg]]
                  /\ link' = [link EXCEPT ![m].wire = Tail(@)]
             [] msg.kind = "continue" ->
                  /\ fol' = [fol EXCEPT ![m] = Follower("stream")]
                  /\ link' = [link EXCEPT ![m].wire = Tail(@)]
             [] OTHER ->
                  /\ fol' = [fol EXCEPT ![m] = Follower("dial")]
                  /\ link' = [link EXCEPT ![m] = NoLink(@)]
        /\ UNCHANGED <<store, replication, inc, off, log, lock, client, ckpt, side, count, history>>

\* The snapshot replaces the keyspace, in the AOF first and then in memory.
FullApply(m) ==
    /\ fol[m].pc = "loaded"
    /\ lock[m] = None
    /\ lock' = [lock EXCEPT ![m] = m]
    /\ store' = [store EXCEPT ![m] = fol[m].msg.store]
    /\ ahead' = [ahead EXCEPT ![m] = fol[m].msg.ahead]
    /\ syncs' = [syncs EXCEPT ![m] = @ + 1]
    /\ fol' = [fol EXCEPT ![m].pc = "checkpoint"]
    /\ UNCHANGED <<replication, inc, off, log, link, client, ckpt, side, count, published, base, asked>>

\* persistSnugFullSyncCheckpointLocked, a second append, and the unlock.
FullCheckpoint(m) ==
    /\ fol[m].pc = "checkpoint"
    /\ lock' = [lock EXCEPT ![m] = None]
    /\ ckpt' = IF Journal THEN [ckpt EXCEPT ![m] = Checkpoint(up[m], fol[m].msg.run, fol[m].msg.off)]
                          ELSE ckpt
    /\ fol' = [fol EXCEPT ![m].pc = "commit"]
    /\ UNCHANGED <<store, replication, inc, off, log, link, client, side, count, history>>

\* The continuation identity is committed after durableMu is released.
FullCommit(m) ==
    /\ fol[m].pc = "commit"
    /\ masterRun' = [masterRun EXCEPT ![m] = fol[m].msg.run]
    /\ off' = [off EXCEPT ![m] = fol[m].msg.off]
    /\ published' = [published EXCEPT ![m][fol[m].msg.off] = store[m]]
    /\ syncs' = [syncs EXCEPT ![m] = @ + 1]
    /\ base' = [base EXCEPT ![m] = fol[m].msg.base]
    /\ fol' = [fol EXCEPT ![m] = Follower("stream")]
    /\ UNCHANGED <<store, role, up, inc, log, lock, link, client, ckpt, side, count, ahead, asked>>

\* A frame is read and applied under durableMu (AOF append, then keyspace).
ApplyFrame(m) ==
    LET msg == Head(link[m].wire)
    IN  /\ fol[m].pc = "stream" /\ link[m].wire # <<>>
        /\ lock[m] = None
        /\ store' = [store EXCEPT ![m] = Apply(@, msg.frame)]
        /\ link' = [link EXCEPT ![m].wire = Tail(@)]
        /\ fol' = [fol EXCEPT ![m] = [Follower("forward") EXCEPT !.msg = msg]]
        /\ UNCHANGED <<replication, inc, off, log, lock, client, ckpt, side, count, history>>

\* forwardReplicatedSnugFrame: outside durableMu the offset advances and the
\* exact frame goes to the node's own backlog and replicas.
Forward(m) ==
    LET f == fol[m].msg.frame
    IN  /\ fol[m].pc = "forward"
        /\ IF Publishing(m)
           THEN Published(m, f, store[m]) /\ link' = Enqueued(Targets(m), f)
           ELSE /\ off' = [off EXCEPT ![m] = @ + 1]
                /\ published' = [published EXCEPT ![m][off[m] + 1] = store[m]]
                /\ UNCHANGED <<log, link>>
        /\ fol' = [fol EXCEPT ![m] = Follower("stream")]
        /\ UNCHANGED <<store, replication, inc, lock, client, ckpt, side, count, ahead, lineage>>

\* Mutation: the ACK counts a frame that is read and not yet forwarded.
AckEarly(m) ==
    /\ fol[m].pc \in {"stream", "forward"} /\ link[m].up # None
    /\ off[m] >= link[m].ack /\ fol[m].pc = "forward"
    /\ link' = [link EXCEPT ![m].ack = off[m] + 1]
    /\ UNCHANGED <<store, replication, inc, off, log, lock, fol, client, ckpt, side, count, history>>

\* REPLCONF ACK: acknowledgeReplica keeps the largest offset.
Ack(m) ==
    /\ fol[m].pc = "stream" /\ link[m].up # None
    /\ off[m] > link[m].ack
    /\ link' = [link EXCEPT ![m].ack = off[m]]
    /\ UNCHANGED <<store, replication, inc, off, log, lock, fol, client, ckpt, side, count, history>>

\* The connection breaks, or turns out to be gone: the primary unregisters the
\* replica, a PSYNC in execution fails, and the follower dials again.
Drop(m) ==
    /\ fol[m].pc \in Connected
    /\ IF fol[m].pc = "stream" /\ link[m].up = None
       THEN UNCHANGED count
       ELSE count.drops < MaxDrops /\ count' = [count EXCEPT !.drops = @ + 1]
    /\ link' = [link EXCEPT ![m] = NoLink(@)]
    /\ lock' = [n \in Nodes |-> IF n # m /\ lock[n] = m THEN None ELSE lock[n]]
    /\ fol' = [fol EXCEPT ![m] = Follower("dial")]
    /\ UNCHANGED <<store, replication, inc, off, log, client, ckpt, side, history>>

----------------------------------------------------------------------------
(* REPLICAOF, AOF rewrite and restart.                                     *)

\* REPLICAOF host port and REPLICAOF NO ONE, under durableMu.  The tombstone
\* record names the new upstream; setReplica forgets the continuation only
\* when the upstream changes; the node keeps its run ID, its backlog and the
\* replicas that follow it.
ReplicaOf(m) ==
    /\ count.moves < MaxMoves
    /\ lock[m] = None
    /\ fol[m].pc \in {"off", "dial"} \cup Connected
    /\ \E h \in {x[2] : x \in {y \in Moves : y[1] = m}} :
          /\ up' = [up EXCEPT ![m] = h]
          /\ role' = [role EXCEPT ![m] = IF h = None THEN "master" ELSE "replica"]
          /\ asked' = [asked EXCEPT ![m] = IF h = None THEN "master" ELSE "replica"]
          /\ ckpt' = IF Journal THEN [ckpt EXCEPT ![m] = Tombstone(h)] ELSE ckpt
          /\ masterRun' = [masterRun EXCEPT ![m] = IF h = up[m] THEN @ ELSE None]
          /\ IF h \in {None, up[m]}
             THEN UNCHANGED <<off, syncs, published>>
             ELSE /\ off' = [off EXCEPT ![m] = 0]
                  /\ syncs' = [syncs EXCEPT ![m] = @ + 1]
                  /\ published' = [published EXCEPT ![m][0] = store[m]]
          /\ fol' = [fol EXCEPT ![m] = Follower(IF h = None THEN "off" ELSE "dial")]
    /\ side' = [side EXCEPT ![m] = NoRecord]
    /\ link' = [link EXCEPT ![m] = NoLink(@)]
    /\ lock' = [n \in Nodes |-> IF n # m /\ lock[n] = m THEN None ELSE lock[n]]
    /\ count' = [count EXCEPT !.moves = @ + 1]
    /\ UNCHANGED <<store, inc, log, client, ahead, base>>

\* BGREWRITEAOF and SNUG.AOFREWRITE: the new file holds a reset and the
\* keyspace records of Export, no replication record.
Rewrite(n) ==
    /\ Journal
    /\ lock[n] = None
    /\ ckpt[n] # NoRecord
    /\ ckpt' = [ckpt EXCEPT ![n] = NoRecord]
    /\ UNCHANGED <<store, replication, inc, off, log, lock, fol, link, client, side, count, history>>

\* RecoverReplicationCheckpoint: a tombstone hides what came before it and is
\* kept without the upstream it named.
RecoveredRecord(r) == IF r.kind = "clear" THEN Tombstone(None) ELSE r

\* Mutation: the record recovered from the AOF is ignored.
ResumedSidecarOnly(r, s) == [up |-> s.up, run |-> s.run, off |-> s.off]

\* ConfigureReplicationPersistenceRecovered: what the node does with the
\* record recovered from the AOF, or with the sidecar when there is none.
Resumed(r, s) ==
    LET x == IF r.kind = "none" THEN s ELSE r
    IN  [up |-> x.up, run |-> x.run, off |-> x.off]

\* The process stops and starts again: crashed, or after a graceful shutdown
\* that rewrote the AOF and saved the sidecar.  Its connections are gone in
\* both directions, and commands in execution on it are lost.
Restart(n, graceful) ==
    LET continues == graceful /\ role[n] = "replica" /\ masterRun[n] # None
        saved == IF continues THEN Checkpoint(up[n], masterRun[n], off[n]) ELSE side[n]
        record == IF continues THEN NoRecord ELSE ckpt[n]
        found == Resumed(RecoveredRecord(record), saved)
        gone == {m \in Nodes : m = n \/ link[m].up = n \/ (up[m] = n /\ fol[m].pc = "psync")}
    IN  /\ count.restarts < MaxRestarts
        /\ graceful => lock[n] = None /\ fol[n].pc \notin {"loaded", "checkpoint", "commit", "forward"}
        /\ inc' = [inc EXCEPT ![n] = @ + 1]
        /\ up' = [up EXCEPT ![n] = found.up]
        /\ role' = [role EXCEPT ![n] = IF found.up = None THEN "master" ELSE "replica"]
        /\ masterRun' = [masterRun EXCEPT ![n] = found.run]
        /\ off' = [off EXCEPT ![n] = found.off]
        /\ log' = [log EXCEPT ![n] = [active |-> FALSE, first |-> 1, entries |-> <<>>]]
        /\ ckpt' = [ckpt EXCEPT ![n] = record]
        /\ side' = [side EXCEPT ![n] = IF record.kind = "clear" THEN NoRecord ELSE saved]
        /\ link' = [m \in Nodes |-> IF m \in gone THEN NoLink(link[m]) ELSE link[m]]
        /\ lock' = [x \in Nodes |-> IF x = n \/ lock[x] \in gone THEN None ELSE lock[x]]
        /\ fol' = [m \in Nodes |->
               IF m = n THEN Follower(IF found.up = None THEN "off" ELSE "dial")
               ELSE IF m \in gone /\ fol[m].pc \in Connected THEN Follower("dial")
               ELSE fol[m]]
        /\ client' = [c \in Clients |-> IF client[c].node = n THEN NoClient ELSE client[c]]
        /\ count' = [count EXCEPT !.restarts = @ + 1]
        /\ published' = [published EXCEPT ![n] =
               [o \in Offsets |-> IF o = found.off THEN store[n] ELSE None]]
        /\ ahead' = [ahead EXCEPT ![n] = IF fol[n].pc = "forward" THEN off[n] + 1
                                         ELSE IF off[n] > @ THEN off[n] ELSE @]
        /\ UNCHANGED <<store, lineage>>

----------------------------------------------------------------------------
Follow(m) ==
    \/ Dial(m) \/ Psync(m) \/ PsyncReply(m) \/ WriterFlush(m) \/ ReadReply(m)
    \/ FullApply(m) \/ FullCheckpoint(m) \/ FullCommit(m)
    \/ ApplyFrame(m) \/ Forward(m)

Execute(c) == ClientLocked(c) \/ ClientFast(c) \/ ClientDirect(c) \/ ClientSend(c)

Next ==
    /\ UNCHANGED conf
    /\ \/ \E c \in conf.clients : ClientCheck(c)
       \/ \E c \in Clients : Execute(c)
       \/ \E m \in Nodes : Follow(m)
       \/ \E m \in Nodes : Ack(m)
       \/ \E m \in Nodes : Drop(m)
       \/ \E m \in Nodes : ReplicaOf(m)
       \/ \E n \in Rewriters : Rewrite(n)
       \/ \E n \in Crashers, graceful \in BOOLEAN : Restart(n, graceful)

Spec == Init /\ [][Next]_vars

\* Every step of a command in execution, of a PSYNC and of a follower that can
\* be taken is taken; a broken connection is noticed.  Clients need not write,
\* and connections, processes and operators need not do anything.
Fairness ==
    /\ \A c \in Clients : WF_state(Execute(c))
    /\ \A m \in Nodes : WF_state(Follow(m))
    /\ \A m \in Nodes : WF_state(fol[m].pc = "stream" /\ link[m].up = None /\ Drop(m))

LiveSpec == Spec /\ Fairness

----------------------------------------------------------------------------
(* Properties.                                                             *)

Message ==
    [kind : {"continue"}] \cup [kind : {"frame"}, frame : Frame]
    \cup [kind : {"full"}, run : RunIDs, off : Offsets, store : Store, ahead : Offsets, base : Nat]

\* Type correctness of the replication state.
TypeOK ==
    /\ store \in [Nodes -> Store]
    /\ role \in [Nodes -> {"master", "replica"}]
    /\ up \in [Nodes -> Nodes \cup {None}]
    /\ masterRun \in [Nodes -> RunIDs \cup {None}]
    /\ inc \in [Nodes -> 0 .. MaxRestarts]
    /\ off \in [Nodes -> Offsets]
    /\ \A n \in Nodes :
          /\ log[n].active \in BOOLEAN /\ log[n].first \in 1 .. MaxWrites + 1
          /\ \A i \in 1 .. Len(log[n].entries) :
                log[n].entries[i].at \in Offsets /\ log[n].entries[i].frame \in Frame
          /\ link[n].up \in Nodes \cup {None} /\ link[n].ack \in Offsets
          /\ \A i \in 1 .. Len(link[n].wire) : link[n].wire[i] \in Message
          /\ \A i \in 1 .. Len(link[n].queue) : link[n].queue[i] \in Message
          /\ fol[n].pc \in {"off", "dial", "loaded", "checkpoint", "commit", "forward"} \cup Connected
    /\ lock \in [Nodes -> Nodes \cup {None}]
    /\ \A c \in Clients : client[c].pc \in {"idle", "admitted", "send"}

\* The deployments in which writes enter the stream in the order in which they
\* reach the keyspace.  Elsewhere they need not: a fast SET that began before the
\* first replica attached is not published, and without an AOF two SETs are sent
\* after durableMu is released, in either order.
Serial == conf.attached /\ (Journal \/ Cardinality(conf.clients) = 1)

\* In those deployments a replica whose link is up has exactly the keyspace its
\* upstream had at the replica's offset: no write is missing, doubled or out of order.  After a
\* restart, or after a snapshot taken while a frame was being forwarded, the
\* keyspace is ahead of the offset until the replay has passed that point.  A
\* chained replica is faithful until its upstream replaces its own keyspace
\* or is itself given another upstream.
Faithful ==
    Serial => \A m \in Nodes :
        (/\ fol[m].pc = "stream" /\ link[m].up # None
         /\ masterRun[m] = RunID(up[m]) /\ base[m] = syncs[up[m]]
         /\ fol[up[m]].pc \notin {"checkpoint", "commit"}
         /\ off[m] >= ahead[m])
        => store[m] = published[up[m]][off[m]]

Sends(m) == {c \in Clients : client[c].pc = "send" /\ <<m, link[m].id>> \in client[c].targets}

\* The offset of a replica counts the stream of its primary: what the replica
\* has processed and what is in the queue, on the wire or about to be sent add
\* up to the primary's offset (forwardReplicatedSnugFrame, publishReplication).
OffsetsAligned ==
    \A m \in Nodes :
        (fol[m].pc \in {"stream", "forward"} /\ link[m].up # None /\ role[up[m]] = "master")
        => off[m] + Len(link[m].wire) + Len(link[m].queue) + Cardinality(Sends(m))
              + (IF fol[m].pc = "forward" THEN 1 ELSE 0) = off[up[m]]

\* WAIT counts a replica for an offset only when the replica has processed the
\* stream of this very run up to that offset: an acknowledged offset is never
\* beyond what the replica holds (acknowledgeReplica, writeReplicationACK).
AckBacked ==
    \A m \in Nodes :
        link[m].ack > 0 => masterRun[m] = RunID(link[m].up) /\ link[m].ack <= off[m]

\* Everything a primary with an active stream holds has been published in it:
\* its keyspace is the one its stream describes (handlePSYNC relies on it when
\* it lets a replica continue from the backlog).
StreamComplete ==
    Serial => \A n \in Nodes : PrimaryHasReplicas(n) => store[n] = published[n][off[n]]

\* The offsets that PSYNC and WAIT rely on name the same point of the same
\* stream on both sides, and the stream holds all the primary holds.
OffsetsSound == OffsetsAligned /\ AckBacked /\ StreamComplete

\* What a replica holds is what its upstream held at the replica's offset, and
\* both sides count the same stream (handlePSYNC, publishReplication, WAIT).
ReplicasSound == Faithful /\ OffsetsSound

\* A client write changes the keyspace of a primary only: a replica rejects
\* writes with READONLY.
ReadOnlyReplica ==
    [][\A c \in Clients : (Execute(c) /\ store' # store) => role[client[c].node] = "master"]_vars

\* A node that was told to follow an upstream is a replica until it is told
\* otherwise, across restarts.
StaysReplica == \A n \in Nodes : asked[n] = "replica" => role[n] = "replica"

\* A replica that has completed a full synchronisation is a replica of the
\* same upstream after a restart (the checkpoint in the AOF, or the sidecar).
ResumesFollowing ==
    [][\A n \in Nodes : (inc'[n] # inc[n] /\ masterRun[n] # None) => up'[n] = up[n]]_vars

\* A replica that has processed all of its primary's stream holds the primary's
\* keyspace.
CaughtUp ==
    \A m \in Nodes :
        (/\ fol[m].pc = "stream" /\ link[m].up # None
         /\ role[up[m]] = "master" /\ masterRun[m] = RunID(up[m])
         /\ off[m] = off[up[m]] /\ off[m] >= ahead[m])
        => store[m] = store[up[m]]

\* Once clients stop writing and connections stay up, every replica gets to
\* hold the keyspace of its upstream and keeps it.
Converges == <>[](\A m \in Nodes : up[m] # None => store[m] = store[up[m]])
=============================================================================
