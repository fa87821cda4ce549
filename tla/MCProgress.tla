----------------------------- MODULE MCProgress ------------------------------
(***************************************************************************)
(* Liveness of FailoverLease, Replication, AofLog, Blocking, Membership    *)
(* and ClusterSlots for TLC.                                               *)
(***************************************************************************)
EXTENDS Integers, Sequences, FiniteSets, TLC

CONSTANTS None, Parts, na, nb, nc, nd, k1, k2, c1, c2

VARIABLES part,   \* the component this behaviour is about
    conf, inc, role, upstream, masterRunID, following, link, failoverTerm, lease, leader, round,
    demote, calm, store, up, masterRun, off, log, lock, fol, client, ckpt, side, count,
    published, ahead, syncs, base, asked, mem, unavail, policy, failed, seq, queue, enq, file,
    orphan, installed, rewrite, rewriteDue, save, saveDue, snap, config, commits, floor, undone,
    db, made, mu, call, run, waiting, woken, stopped, unblock, hungup, merged, sent, given,
    dropped, rec, co, retry, known, budget, prepared, topo, aof, frame, late, plan, job, acked

mcVars == <<part, conf, inc, role, upstream, masterRunID, following, link, failoverTerm, lease, leader, round,
    demote, calm, store, up, masterRun, off, log, lock, fol, client, ckpt, side, count,
    published, ahead, syncs, base, asked, mem, unavail, policy, failed, seq, queue, enq, file,
    orphan, installed, rewrite, rewriteDue, save, saveDue, snap, config, commits, floor, undone,
    db, made, mu, call, run, waiting, woken, stopped, unblock, hungup, merged, sent, given,
    dropped, rec, co, retry, known, budget, prepared, topo, aof, frame, late, plan, job, acked>>

-----------------------------------------------------------------------------
(* A group of three whose primary restarts once.                           *)
Lease == INSTANCE FailoverLease WITH Nodes <- {na, nb, nc}, Primary <- na, Quorum <- 2, Candidates <- {nb},
             Deployments <- {[auto |-> FALSE, crashers |-> {na}]},
             LeaseTTL <- 2, LeaderTTL <- 1, RenewWindow <- 1, QuickRestart <- TRUE, MaxTerm <- 3, MaxRestarts <- 1

-----------------------------------------------------------------------------
(* A primary na and its replica nb, whose connection breaks twice.         *)

BrokenLink == [upstream |-> (na :> None) @@ (nb :> na), keys |-> {k1, k2}, clients |-> {c1},
               journal |-> TRUE, attached |-> TRUE, targeted |-> {na}, moves |-> {}, crashers |-> {},
               rewriters |-> {}, backlog |-> 1, maxWrites |-> 3, maxDrops |-> 2, maxRestarts |-> 0, maxMoves |-> 0]
Repl == INSTANCE Replication WITH Nodes <- {na, nb}, Keys <- {k1, k2}, Clients <- {c1}, Deployments <- {BrokenLink}

-----------------------------------------------------------------------------
(* A queue of one frame, failures, a policy change, a rewrite and a queued save.  *)

Returning == [policy |-> "everysec", policies |-> {"always"}, kinds |-> {"fast", "exec"}, saves |-> {"bgsave"},
              writesFail |-> TRUE, dirFails |-> FALSE, queueCap |-> 1,
              max |-> [w |-> 2, rewrite |-> 1, save |-> 1, config |-> 1, crash |-> 0, stop |-> 0]]
Aof == INSTANCE AofLog WITH Clients <- {c1, c2}, Keys <- {k1}, Deployments <- {Returning}

-----------------------------------------------------------------------------
(* Timeouts, CLIENT UNBLOCK, disconnects and the shutdown against one push.  *)

Pop(t, finite) == [op |-> "pop", t |-> t, keys |-> <<k1>>, dst |-> None, latest |-> FALSE, finite |-> finite]
Push == [op |-> "push", t |-> "list", k |-> k1, dst |-> None, keys |-> <<k1>>]
Ends == [journal |-> FALSE, fails |-> FALSE, streams |-> {}, sent |-> (c1 :> 2) @@ (c2 :> 1),
         requests |-> (c1 :> {Pop("list", FALSE), Pop("zset", TRUE)}) @@ (c2 :> {}),
         jobs |-> (c1 :> {}) @@ (c2 :> {[path |-> "fast", cmds |-> <<Push>>]}),
         unblocks |-> {"timeout", "error"}, hangups |-> {c1}, closes |-> TRUE]
Blk == INSTANCE Blocking WITH Clients <- {c1, c2}, Keys <- {k1}, Deployments <- {Ends}

-----------------------------------------------------------------------------
(* A group of three that adds a fourth member, with a crash and a lost call.  *)

Growing == [members |-> {na, nb, nc}, coordinators |-> {na}, proposals |-> {{na, nb, nc, nd}}, seeds |-> {},
            budget |-> [proposals |-> 1, losses |-> 1, crashes |-> 1, polls |-> 0]]
Mem == INSTANCE Membership WITH Nodes <- {na, nb, nc, nd}, Deployments <- {Growing}

-----------------------------------------------------------------------------
(* A node that owns nothing applies a plan; a node removes itself.         *)

Remote == [owners |-> [s \in 0 .. 1 |-> 1], known |-> [n \in {1, 2, 3} |-> {1, 2, 3}], slotOf |-> (k1 :> 1),
           data |-> (k1 :> 1), operators |-> {2}, modes |-> {"all"}, manual |-> {}, joins |-> {},
           removes |-> {}, recovers |-> {}, promoted |-> {}, group |-> [n \in {1, 2, 3} |-> {n}], retries |-> 1, hops |-> 2,
           unchecked |-> FALSE, written |-> {},
           budget |-> [plans |-> 1, resumes |-> 1, losses |-> 1, crashes |-> 1, writes |-> 0, manual |-> 0,
                       joins |-> 0, recovers |-> 0, converges |-> 0]]
Leaving == [Remote EXCEPT !.owners = [s \in 0 .. 1 |-> s + 1], !.removes = {<<2, 2>>}, !.modes = {}]
Clu == INSTANCE ClusterSlots WITH Nodes <- {1, 2, 3}, SlotCount <- 2, Keys <- {k1}, Values <- {1}, Clients <- {},
                    Deployments <- {Remote, Leaving}

-----------------------------------------------------------------------------
(* One component runs in a behaviour; the variables of the others stay unset. *)

LeaseOthers == <<store, up, masterRun, off, log, lock, fol, client, ckpt, side, count, published, ahead,
    syncs, base, asked, mem, unavail, policy, failed, seq, queue, enq, file, orphan, installed,
    rewrite, rewriteDue, save, saveDue, snap, config, commits, floor, undone, db, made, mu, call,
    run, waiting, woken, stopped, unblock, hungup, merged, sent, given, dropped, rec, co, retry,
    known, budget, prepared, topo, aof, frame, late, plan, job, acked>>
LeaseAlone == store = None /\ up = None /\ masterRun = None /\ off = None /\ log = None /\ lock = None /\
    fol = None /\ client = None /\ ckpt = None /\ side = None /\ count = None /\
    published = None /\ ahead = None /\ syncs = None /\ base = None /\ asked = None /\
    mem = None /\ unavail = None /\ policy = None /\ failed = None /\ seq = None /\
    queue = None /\ enq = None /\ file = None /\ orphan = None /\ installed = None /\
    rewrite = None /\ rewriteDue = None /\ save = None /\ saveDue = None /\ snap = None /\
    config = None /\ commits = None /\ floor = None /\ undone = None /\ db = None /\
    made = None /\ mu = None /\ call = None /\ run = None /\ waiting = None /\ woken = None /\
    stopped = None /\ unblock = None /\ hungup = None /\ merged = None /\ sent = None /\
    given = None /\ dropped = None /\ rec = None /\ co = None /\ retry = None /\ known = None /\
    budget = None /\ prepared = None /\ topo = None /\ aof = None /\ frame = None /\
    late = None /\ plan = None /\ job = None /\ acked = None

ReplOthers == <<upstream, masterRunID, following, failoverTerm, lease, leader, round, demote, calm, mem,
    unavail, policy, failed, seq, queue, enq, file, orphan, installed, rewrite, rewriteDue, save,
    saveDue, snap, config, commits, floor, undone, db, made, mu, call, run, waiting, woken,
    stopped, unblock, hungup, merged, sent, given, dropped, rec, co, retry, known, budget,
    prepared, topo, aof, frame, late, plan, job, acked>>
ReplAlone == upstream = None /\ masterRunID = None /\ following = None /\ failoverTerm = None /\
    lease = None /\ leader = None /\ round = None /\ demote = None /\ calm = None /\
    mem = None /\ unavail = None /\ policy = None /\ failed = None /\ seq = None /\
    queue = None /\ enq = None /\ file = None /\ orphan = None /\ installed = None /\
    rewrite = None /\ rewriteDue = None /\ save = None /\ saveDue = None /\ snap = None /\
    config = None /\ commits = None /\ floor = None /\ undone = None /\ db = None /\
    made = None /\ mu = None /\ call = None /\ run = None /\ waiting = None /\ woken = None /\
    stopped = None /\ unblock = None /\ hungup = None /\ merged = None /\ sent = None /\
    given = None /\ dropped = None /\ rec = None /\ co = None /\ retry = None /\ known = None /\
    budget = None /\ prepared = None /\ topo = None /\ aof = None /\ frame = None /\
    late = None /\ plan = None /\ job = None /\ acked = None

AofOthers == <<inc, role, upstream, masterRunID, following, link, failoverTerm, lease, leader, round,
    demote, calm, store, up, masterRun, off, log, lock, fol, ckpt, side, published, ahead, syncs,
    base, asked, db, made, mu, call, run, waiting, woken, stopped, unblock, hungup, merged, sent,
    given, dropped, rec, co, retry, known, budget, prepared, topo, aof, frame, late, plan, job,
    acked>>
AofAlone == inc = None /\ role = None /\ upstream = None /\ masterRunID = None /\ following = None /\
    link = None /\ failoverTerm = None /\ lease = None /\ leader = None /\ round = None /\
    demote = None /\ calm = None /\ store = None /\ up = None /\ masterRun = None /\
    off = None /\ log = None /\ lock = None /\ fol = None /\ ckpt = None /\ side = None /\
    published = None /\ ahead = None /\ syncs = None /\ base = None /\ asked = None /\
    db = None /\ made = None /\ mu = None /\ call = None /\ run = None /\ waiting = None /\
    woken = None /\ stopped = None /\ unblock = None /\ hungup = None /\ merged = None /\
    sent = None /\ given = None /\ dropped = None /\ rec = None /\ co = None /\ retry = None /\
    known = None /\ budget = None /\ prepared = None /\ topo = None /\ aof = None /\
    frame = None /\ late = None /\ plan = None /\ job = None /\ acked = None

BlkOthers == <<inc, role, upstream, masterRunID, following, link, failoverTerm, lease, leader, round,
    demote, calm, store, up, masterRun, off, lock, fol, client, ckpt, side, count, published,
    ahead, syncs, base, mem, policy, failed, seq, queue, enq, file, orphan, installed, rewrite,
    rewriteDue, save, saveDue, snap, config, commits, floor, undone, rec, co, retry, known,
    budget, prepared, topo, aof, frame, late, plan, job, acked>>
BlkAlone == inc = None /\ role = None /\ upstream = None /\ masterRunID = None /\ following = None /\
    link = None /\ failoverTerm = None /\ lease = None /\ leader = None /\ round = None /\
    demote = None /\ calm = None /\ store = None /\ up = None /\ masterRun = None /\
    off = None /\ lock = None /\ fol = None /\ client = None /\ ckpt = None /\ side = None /\
    count = None /\ published = None /\ ahead = None /\ syncs = None /\ base = None /\
    mem = None /\ policy = None /\ failed = None /\ seq = None /\ queue = None /\ enq = None /\
    file = None /\ orphan = None /\ installed = None /\ rewrite = None /\ rewriteDue = None /\
    save = None /\ saveDue = None /\ snap = None /\ config = None /\ commits = None /\
    floor = None /\ undone = None /\ rec = None /\ co = None /\ retry = None /\ known = None /\
    budget = None /\ prepared = None /\ topo = None /\ aof = None /\ frame = None /\
    late = None /\ plan = None /\ job = None /\ acked = None

MemOthers == <<inc, role, upstream, masterRunID, following, link, failoverTerm, lease, leader, round,
    demote, calm, store, up, masterRun, off, log, lock, fol, client, ckpt, side, count,
    published, ahead, syncs, base, asked, mem, unavail, policy, failed, seq, queue, enq, file,
    orphan, installed, rewrite, rewriteDue, save, saveDue, snap, config, commits, floor, undone,
    db, made, mu, call, run, waiting, woken, stopped, unblock, hungup, merged, sent, given,
    dropped, topo, aof, frame, late, plan, job, acked>>
MemAlone == inc = None /\ role = None /\ upstream = None /\ masterRunID = None /\ following = None /\
    link = None /\ failoverTerm = None /\ lease = None /\ leader = None /\ round = None /\
    demote = None /\ calm = None /\ store = None /\ up = None /\ masterRun = None /\
    off = None /\ log = None /\ lock = None /\ fol = None /\ client = None /\ ckpt = None /\
    side = None /\ count = None /\ published = None /\ ahead = None /\ syncs = None /\
    base = None /\ asked = None /\ mem = None /\ unavail = None /\ policy = None /\
    failed = None /\ seq = None /\ queue = None /\ enq = None /\ file = None /\ orphan = None /\
    installed = None /\ rewrite = None /\ rewriteDue = None /\ save = None /\ saveDue = None /\
    snap = None /\ config = None /\ commits = None /\ floor = None /\ undone = None /\
    db = None /\ made = None /\ mu = None /\ call = None /\ run = None /\ waiting = None /\
    woken = None /\ stopped = None /\ unblock = None /\ hungup = None /\ merged = None /\
    sent = None /\ given = None /\ dropped = None /\ topo = None /\ aof = None /\ frame = None /\
    late = None /\ plan = None /\ job = None /\ acked = None

CluOthers == <<inc, role, upstream, masterRunID, following, link, failoverTerm, lease, leader, round,
    demote, calm, store, up, masterRun, off, log, lock, fol, client, ckpt, side, count,
    published, ahead, syncs, base, asked, unavail, policy, failed, seq, queue, enq, file, orphan,
    installed, rewrite, rewriteDue, save, saveDue, snap, config, commits, floor, undone, db,
    made, mu, run, waiting, woken, stopped, unblock, hungup, merged, sent, given, dropped, rec,
    co, retry, known, prepared>>
CluAlone == inc = None /\ role = None /\ upstream = None /\ masterRunID = None /\ following = None /\
    link = None /\ failoverTerm = None /\ lease = None /\ leader = None /\ round = None /\
    demote = None /\ calm = None /\ store = None /\ up = None /\ masterRun = None /\
    off = None /\ log = None /\ lock = None /\ fol = None /\ client = None /\ ckpt = None /\
    side = None /\ count = None /\ published = None /\ ahead = None /\ syncs = None /\
    base = None /\ asked = None /\ unavail = None /\ policy = None /\ failed = None /\
    seq = None /\ queue = None /\ enq = None /\ file = None /\ orphan = None /\
    installed = None /\ rewrite = None /\ rewriteDue = None /\ save = None /\ saveDue = None /\
    snap = None /\ config = None /\ commits = None /\ floor = None /\ undone = None /\
    db = None /\ made = None /\ mu = None /\ run = None /\ waiting = None /\ woken = None /\
    stopped = None /\ unblock = None /\ hungup = None /\ merged = None /\ sent = None /\
    given = None /\ dropped = None /\ rec = None /\ co = None /\ retry = None /\ known = None /\
    prepared = None

MCInit ==
    /\ part \in Parts
    /\ \/ part = "lease" /\ Lease!Init /\ LeaseAlone
       \/ part = "repl" /\ Repl!Init /\ ReplAlone
       \/ part = "aof" /\ Aof!Init /\ AofAlone
       \/ part = "blocking" /\ Blk!Init /\ BlkAlone
       \/ part = "membership" /\ Mem!Init /\ MemAlone
       \/ part = "slots" /\ Clu!Init /\ CluAlone

MCNext ==
    \/ part = "lease" /\ (Lease!Next \/ Lease!Calm) /\ UNCHANGED <<part, LeaseOthers>>
    \/ part = "repl" /\ Repl!Next /\ UNCHANGED <<part, ReplOthers>>
    \/ part = "aof" /\ Aof!Next /\ UNCHANGED <<part, AofOthers>>
    \/ part = "blocking" /\ Blk!Next /\ UNCHANGED <<part, BlkOthers>>
    \/ part = "membership" /\ Mem!Next /\ UNCHANGED <<part, MemOthers>>
    \/ part = "slots" /\ Clu!Next /\ UNCHANGED <<part, CluOthers>>

\* A step of a component.
LeaseDoes(A) == part = "lease" /\ A /\ UNCHANGED <<part, LeaseOthers>>
ReplDoes(A) == part = "repl" /\ A /\ UNCHANGED <<part, conf, ReplOthers>>
AofDoes(A) == part = "aof" /\ A /\ UNCHANGED <<part, conf, AofOthers>>
BlkDoes(A) == part = "blocking" /\ A /\ UNCHANGED <<part, conf, BlkOthers>>
MemDoes(A) == part = "membership" /\ A /\ UNCHANGED <<part, conf, MemOthers>>
CluDoes(A) == part = "slots" /\ A /\ UNCHANGED <<part, conf, CluOthers>>

\* The fairness of each component: time passes and threads, followers, timers and
\* maintenance run; clients, operators and failures need not do anything.  A
\* behaviour is about one component, so a disjunction of actions of different
\* components is fair exactly when each of them is.
MCFairness ==
    /\ SF_mcVars(LeaseDoes(Lease!Tick) \/ AofDoes(Aof!SaveHandoff))
    /\ WF_mcVars(\/ LeaseDoes(Lease!Calm)
                  \/ ReplDoes(Repl!Execute(c1))
                  \/ AofDoes(Aof!SyncLoop)
                  \/ BlkDoes(Blk!Execute(c1))
                  \/ MemDoes(Mem!Coordination(na))
                  \/ CluDoes(Clu!Step(1)))
    /\ WF_mcVars(\/ LeaseDoes(Lease!Maintain(na))
                  \/ ReplDoes(Repl!Follow(na))
                  \/ AofDoes(Aof!SetPolicy)
                  \/ BlkDoes(Blk!Block(c1))
                  \/ MemDoes(Mem!StartRetry(na))
                  \/ CluDoes(Clu!Step(2)))
    /\ WF_mcVars(\/ LeaseDoes(Lease!Handle(na))
                  \/ ReplDoes(fol[na].pc = "stream" /\ link[na].up = None /\ Repl!Drop(na))
                  \/ AofDoes(Aof!Write(c1))
                  \/ BlkDoes(Blk!Timeout(c1))
                  \/ MemDoes(Mem!Retry(na, "op"))
                  \/ CluDoes(Clu!Step(3)))
    /\ WF_mcVars(\/ LeaseDoes(Lease!Reconnect(na))
                  \/ ReplDoes(Repl!Follow(nb))
                  \/ AofDoes(Aof!Write(c2))
                  \/ BlkDoes(Blk!Cancel(c1))
                  \/ MemDoes(Mem!Retry(na, "maint"))
                  \/ CluDoes(Clu!Turn(<<1, "op">>)))
    /\ WF_mcVars(\/ LeaseDoes(Lease!LinkDown(na))
                  \/ ReplDoes(fol[nb].pc = "stream" /\ link[nb].up = None /\ Repl!Drop(nb))
                  \/ AofDoes(Aof!BeginRewrite)
                  \/ BlkDoes(Blk!MergeCancel(c1))
                  \/ MemDoes(Mem!Coordination(nb))
                  \/ CluDoes(Clu!Turn(<<1, "bg">>)))
    /\ WF_mcVars(\/ LeaseDoes(Lease!Maintain(nb))
                  \/ AofDoes(Aof!FinishRewrite)
                  \/ BlkDoes(Blk!Execute(c2))
                  \/ MemDoes(Mem!StartRetry(nb))
                  \/ CluDoes(Clu!Turn(<<2, "op">>)))
    /\ WF_mcVars(\/ LeaseDoes(Lease!Handle(nb))
                  \/ AofDoes(Aof!Install)
                  \/ BlkDoes(Blk!Block(c2))
                  \/ MemDoes(Mem!Retry(nb, "op"))
                  \/ CluDoes(Clu!Turn(<<2, "bg">>)))
    /\ WF_mcVars(\/ LeaseDoes(Lease!Reconnect(nb))
                  \/ AofDoes(Aof!ExportAll)
                  \/ BlkDoes(Blk!Timeout(c2))
                  \/ MemDoes(Mem!Retry(nb, "maint"))
                  \/ CluDoes(Clu!Turn(<<3, "op">>)))
    /\ WF_mcVars(\/ LeaseDoes(Lease!LinkDown(nb))
                  \/ AofDoes(Aof!SnapshotRecords)
                  \/ BlkDoes(Blk!Cancel(c2))
                  \/ MemDoes(Mem!Coordination(nc))
                  \/ CluDoes(Clu!Turn(<<3, "bg">>)))
    /\ WF_mcVars(\/ LeaseDoes(Lease!Maintain(nc))
                  \/ BlkDoes(Blk!MergeCancel(c2))
                  \/ MemDoes(Mem!StartRetry(nc)))
    /\ WF_mcVars(\/ LeaseDoes(Lease!Handle(nc))
                  \/ MemDoes(Mem!Retry(nc, "op")))
    /\ WF_mcVars(\/ LeaseDoes(Lease!Reconnect(nc))
                  \/ MemDoes(Mem!Retry(nc, "maint")))
    /\ WF_mcVars(\/ LeaseDoes(Lease!LinkDown(nc))
                  \/ MemDoes(Mem!Coordination(nd)))
    /\ WF_mcVars(\/ MemDoes(Mem!StartRetry(nd)))
    /\ WF_mcVars(\/ MemDoes(Mem!Retry(nd, "op")))
    /\ WF_mcVars(\/ MemDoes(Mem!Retry(nd, "maint")))

MCSpec == MCInit /\ [][MCNext]_mcVars /\ MCFairness

-----------------------------------------------------------------------------
(* Properties.                                                             *)

\* Once the group is calm a node with a live lease accepts writes again and again (maintainFailoverLeaderLease).
Recovers == []<>(part = "lease" => \E n \in {na, nb, nc} : Lease!Writable(n) /\ Lease!LeaderLive(n))

\* Once clients stop writing and the connection stays up the replica gets to hold, and keeps, the keyspace
\* of its upstream (the follower loop, PSYNC).
Converges == <>[](part = "repl" => \A m \in {na, nb} : up[m] # None => store[m] = store[up[m]])

\* Writes return although they wait for the queue, the sync and the locks of the AOF; what was appended is
\* synced unless the log fails; a rewrite or save queued behind the other job starts (Append, syncLoop).
LogProgress ==
    /\ []<>(part = "aof" => \A c0 \in {c1, c2} : ~Aof!Busy(c0))
    /\ []<>(part = "aof" => seq.synced = seq.appended \/ failed)
    /\ []<>(part = "aof" => ~rewriteDue /\ ~saveDue)

\* A blocking command returns when it has a timeout, when its client is unblocked or gone, and at a shutdown;
\* one that sleeps on a key with something for it is served, or another client takes the element.
BlockedReturn ==
    /\ []<>(part = "blocking" => \A c0 \in {c1, c2} : ~Blk!MustReturn(c0))
    /\ []<>(part = "blocking" => \A c0 \in {c1, c2} : ~Blk!Due(c0, k1))

\* A durable intent of a membership change is carried out (retryFailoverMembershipCommit).
IntentsEnd == []<>(part = "membership" => \A n \in {na, nb, nc, nd} : Mem!Intent(n) = None)

\* Every CLUSTER command ends, although two nodes can wait for each other's durableMu (sendClusterControlCommand).
CommandsReturn == []<>(part = "slots" => \A th \in {1, 2, 3} \X {"op", "bg"} : frame[th].pc = "idle")
=============================================================================
