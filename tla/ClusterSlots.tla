---------------------------- MODULE ClusterSlots ----------------------------
(***************************************************************************)
(* Cluster mode at run time (internal/server/cluster.go,                   *)
(* cluster_membership.go, cluster_failover.go, cluster_persistence.go,     *)
(* migrate_commands.go): slot ownership, resharding, membership, failover  *)
(* ownership and the routing of key commands.                              *)
(*                                                                         *)
(* A CLUSTER command runs under durableMu of its node from start to end,   *)
(* the calls it makes to other nodes included, and such a call runs under  *)
(* durableMu of its target.  Two commands can therefore wait for each      *)
(* other, and only the deadline of a call ends it: the caller gets an      *)
(* error and the target still runs what is already in its socket.          *)
(* Ownership of the promoted leader converges on a thread of its own, "bg",*)
(* without durableMu.  clusterRebalanceMu is a TryLock.                    *)
(*                                                                         *)
(* topo[n] is the topology n holds in memory and in its sidecar, which     *)
(* every mutation writes before it returns.  mem[n] and aof[n] are the     *)
(* keys: MIGRATE deletes in memory reply by reply and appends at the end.  *)
(* A failed append of MIGRATE is left out: it ends as a crash before the   *)
(* append does.                                                            *)
(***************************************************************************)
EXTENDS ClusterPlan

CONSTANTS Nodes,        \* addresses
          Keys, Values, Clients,
          Deployments   \* the clusters and the commands that are checked

VARIABLES
    conf,   \* the deployment
    topo,   \* topo[n]: owners, transitions, known nodes and epoch in the view of n
    mem,    \* mem[n][k]: the store
    aof,    \* aof[n][k]: what a restart of n finds
    frame,  \* frame[th]: the CLUSTER command or the convergence that runs
    call,   \* call[th]: the call it waits for
    late,   \* commands in the socket of a node whose caller has given up
    plan,   \* plan[n]: what the operator got from a PLAN on n
    job,    \* job[c]: the key command of client c
    acked,  \* history: the value last written with +OK
    budget  \* commands, writes, lost answers and crashes still to come

state == <<topo, mem, aof, frame, call, late, plan, job, acked, budget>>
vars == <<conf, state>>

Threads == Nodes \X {"op", "bg"}
Op(n) == <<n, "op">>
Bg(n) == <<n, "bg">>
SlotOf(k) == conf.slotOf[k]
Idle == [pc |-> "idle"]
NoJob == [pc |-> "idle"]

Init ==
    /\ conf \in Deployments
    /\ topo = [n \in Nodes |-> [own |-> conf.owners, mig |-> [s \in Slots |-> None], imp |-> [s \in Slots |-> None],
                                known |-> conf.known[n], epoch |-> 0]]
    /\ mem = [n \in Nodes |-> [k \in Keys |-> IF conf.owners[conf.slotOf[k]] = n THEN conf.data[k] ELSE None]]
    /\ aof = mem
    /\ frame = [th \in Threads |-> Idle]
    /\ call = [th \in Threads |-> None]
    /\ late = {}
    /\ plan = [n \in Nodes |-> None]
    /\ job = [c \in Clients |-> NoJob]
    /\ acked = conf.data
    /\ budget = conf.budget

-----------------------------------------------------------------------------
(* What a command does to the topology of the node it runs on.             *)

Active(t) == \E s \in Slots : t.mig[s] # None \/ t.imp[s] # None
Digest(n) == topo[n].own
LockFree(n) == frame[Op(n)].pc = "idle"
MuFree(n) == LockFree(n) /\ frame[Bg(n)].pc = "idle"
HasKeys(n, s) == \E k \in Keys : SlotOf(k) = s /\ mem[n][k] # None

Refused(t) == [ok |-> FALSE, topo |-> t]

\* A mutation counts in the epoch only when it changes something.
mutateClusterTopology(t, new) ==
    [ok |-> TRUE, topo |-> IF new = t THEN t ELSE [new EXCEPT !.epoch = t.epoch + 1]]

\* CLUSTER SETSLOT.
executeClusterSetSlot(n, action, s, x) ==
    LET t == topo[n]
        clear == [t EXCEPT !.mig[s] = None, !.imp[s] = None] IN
    CASE action = "STABLE" -> mutateClusterTopology(t, clear)
      [] action = "MIGRATING" /\ x \in t.known \cup {n} /\ t.own[s] = n ->
             mutateClusterTopology(t, [clear EXCEPT !.mig[s] = x])
      [] action = "IMPORTING" /\ x \in t.known \cup {n} /\ t.own[s] # n ->
             mutateClusterTopology(t, [clear EXCEPT !.imp[s] = x])
      [] action = "NODE" /\ x \in t.known \cup {n} /\ ~(t.own[s] = n /\ x # n /\ HasKeys(n, s)) ->
             mutateClusterTopology(t, [clear EXCEPT !.own[s] = x])
      [] OTHER -> Refused(t)

\* ADDSLOTS, DELSLOTS and FLUSHSLOTS.
executeClusterSlots(n, action, s) ==
    LET t == topo[n]
        Gone(S) == [t EXCEPT !.own = [q \in Slots |-> IF q \in S THEN None ELSE @[q]]] IN
    CASE action = "ADDSLOTS" /\ t.own[s] = None ->
             mutateClusterTopology(t, [t EXCEPT !.own[s] = n, !.mig[s] = None, !.imp[s] = None])
      [] action = "DELSLOTS" /\ t.own[s] = n ->
             mutateClusterTopology(t, [Gone({s}) EXCEPT !.mig[s] = None, !.imp[s] = None])
      [] action = "FLUSHSLOTS" /\ \A k \in Keys : mem[n][k] = None ->
             mutateClusterTopology(t, [Gone(Owned(t.own, n)) EXCEPT !.mig = [q \in Slots |-> None],
                                                                    !.imp = [q \in Slots |-> None]])
      [] OTHER -> Refused(t)

clusterMembershipCheckSelf(n, x, digest) ==
    [ok |-> x = n /\ ~Active(topo[n]) /\ Digest(n) = digest, topo |-> topo[n]]

addClusterKnownNode(n, x, digest) ==
    IF Active(topo[n]) \/ Digest(n) # digest THEN Refused(topo[n])
    ELSE mutateClusterTopology(topo[n], [topo[n] EXCEPT !.known = @ \cup {x}])

removeClusterKnownNode(n, x, digest) ==
    IF \/ Active(topo[n]) \/ Digest(n) # digest
       \/ x \in clusterOwners(topo[n].own)
       \/ topo[n].known = {x}
    THEN Refused(topo[n])
    ELSE mutateClusterTopology(topo[n], [topo[n] EXCEPT !.known = @ \ {x}])

\* replaceClusterOwnerFenced; an empty digest (None) is not compared.
replaceClusterOwner(n, old, new, digest) ==
    LET t == topo[n]
        owners == clusterOwners(t.own) IN
    IF Active(t) \/ digest \notin {None, t.own} \/ owners \cap {old, new} = {} THEN Refused(t)
    ELSE IF old \notin owners THEN [ok |-> TRUE, topo |-> t]
    ELSE mutateClusterTopology(t, [t EXCEPT !.known = @ \cup {new},
                                            !.own = [s \in Slots |-> IF @[s] = old THEN new ELSE @[s]]])

\* The slot owner among the failover members of n, None when there is none or several.
clusterFailoverCurrentOwner(n) ==
    LET of == clusterOwners(topo[n].own) \cap conf.group[n] IN
    IF Cardinality(of) = 1 THEN CHOOSE o \in of : TRUE ELSE None

\* The nodes that may own slots in the view of n: replicas of its own shard may not.
capacityNodes(n) ==
    LET owner == clusterFailoverCurrentOwner(n) IN
    topo[n].known \ (IF owner = None THEN {} ELSE conf.group[n] \ {owner})

PlanId(n) == [own |-> topo[n].own, known |-> topo[n].known, epoch |-> topo[n].epoch]

\* The single slots of a plan, in the order they are moved.
SingleMoves(moves) ==
    LET At(s) == CHOOSE m \in moves : s \in m.start .. m.end IN
    [i \in 1 .. Cardinality(MovedSlots(moves)) |->
        LET s == SetToSortSeq(MovedSlots(moves), <)[i] IN
        [slot |-> s, source |-> At(s).source, target |-> At(s).target]]

-----------------------------------------------------------------------------
(* Calls between nodes.                                                    *)

\* What a short command does on n: it runs under durableMu of n in one go.
Handle(n, cmd) ==
    CASE cmd.name = "SETSLOT" -> executeClusterSetSlot(n, cmd.action, cmd.slot, cmd.node)
      [] cmd.name = "CHECK" -> clusterMembershipCheckSelf(n, cmd.node, cmd.digest)
      [] cmd.name = "ADD" -> addClusterKnownNode(n, cmd.node, cmd.digest)
      [] cmd.name = "REMOVE" -> removeClusterKnownNode(n, cmd.node, cmd.digest)
      [] cmd.name = "VIEW" -> [ok |-> ~Active(topo[n]) /\ Digest(n) = cmd.digest, topo |-> topo[n]]
      [] cmd.name = "OWNER" ->
             IF MuFree(n) THEN replaceClusterOwner(n, cmd.old, cmd.node, cmd.digest) ELSE Refused(topo[n])

SetSlot(action, s, x) == [name |-> "SETSLOT", action |-> action, slot |-> s, node |-> x]
Member(name, x, digest) == [name |-> name, node |-> x, digest |-> digest]
To(n, cmd) == [to |-> n, cmd |-> cmd]

\* The frame of a command that first makes the calls todo and goes on at pc then.
Tell(f, todo, then) == [f EXCEPT !.pc = "tell", !.todo = todo, !.then = then]
Frame(kind, slots, by) ==
    [pc |-> "next", kind |-> kind, slots |-> slots, slot |-> 0, target |-> None, todo |-> <<>>, then |-> "next",
     node |-> None, digest |-> None, batch |-> <<>>, failed |-> FALSE, tries |-> 0, by |-> by]

Send(th, to, cmd) == call' = [call EXCEPT ![th] = [to |-> to, cmd |-> cmd, reply |-> None, view |-> {}]]

\* A command ends and its caller, if it still waits, gets the answer.
End(th, ok) ==
    /\ frame' = [frame EXCEPT ![th] = Idle]
    /\ call' = [c \in Threads |->
          IF c = th THEN None
          ELSE IF c = frame[th].by THEN [call[c] EXCEPT !.reply = IF ok THEN "ok" ELSE "err"]
          ELSE call[c]]

\* The next call of a command that makes several.
SendNext(th) ==
    /\ frame[th].pc = "tell" /\ frame[th].todo # <<>> /\ call[th] = None
    /\ Send(th, Head(frame[th].todo).to, Head(frame[th].todo).cmd)
    /\ UNCHANGED <<conf, topo, mem, aof, frame, late, plan, job, acked, budget>>

\* Its answer: the command goes on, or ends with an error.  A move whose IMPORTING the
\* target took and whose MIGRATING failed has told the target STABLE and ends as well.
Told(th) ==
    /\ frame[th].pc = "tell" /\ call[th] # None /\ call[th].reply # None
    /\ IF call[th].reply = "ok" /\ frame[th].then # "undone"
       THEN /\ frame' = [frame EXCEPT ![th].todo = Tail(@),
                                      ![th].pc = IF Len(frame[th].todo) = 1 THEN frame[th].then ELSE "tell",
                                      ![th].node = IF call[th].cmd.name = "VIEW" THEN call[th].view ELSE @]
            /\ call' = [call EXCEPT ![th] = None]
       ELSE End(th, FALSE)
    /\ UNCHANGED <<conf, topo, mem, aof, late, plan, job, acked, budget>>

\* REBALANCE EXECUTE: the fence, the owner, no transition, a target n knows.
executeRemoteRebalanceSlot(n, cmd, by) ==
    LET t == topo[n]
        ok == /\ MuFree(n) /\ t.own = cmd.digest /\ t.own[cmd.slot] = n
              /\ t.mig[cmd.slot] = None /\ t.imp[cmd.slot] = None
              /\ cmd.node \in t.known \ {n} IN
    IF ok THEN Frame("execute", <<[slot |-> cmd.slot, source |-> n, target |-> cmd.node]>>, by) ELSE Idle

\* RESTORE-ASKING of one key of a batch.
Restores(n, cmd) ==
    LET k == Head(cmd.batch).key IN
    topo[n].imp[SlotOf(k)] # None /\ (cmd.replace \/ mem[n][k] = None)

Restored(n, cmd) == [mem[n] EXCEPT ![Head(cmd.batch).key] = Head(cmd.batch).val]

\* The target of a call runs it, once durableMu is free.
HandleCall(th) ==
    LET c == call[th] n == c.to IN
    /\ c # None /\ c.reply = None /\ LockFree(n)
    /\ \/ /\ c.cmd.name = "EXECUTE"
          /\ ~\E g \in Threads : frame[g].pc # "idle" /\ frame[g].by = th
          /\ LET f == executeRemoteRebalanceSlot(n, c.cmd, th) IN
             /\ frame' = [frame EXCEPT ![Op(n)] = f]
             /\ call' = IF f = Idle THEN [call EXCEPT ![th].reply = "err"] ELSE call
          /\ UNCHANGED <<topo, mem, aof>>
       \/ /\ c.cmd.name = "RESTORE" /\ c.cmd.batch # <<>>
          /\ mem' = IF Restores(n, c.cmd) THEN [mem EXCEPT ![n] = Restored(n, c.cmd)] ELSE mem
          /\ aof' = [aof EXCEPT ![n] = mem'[n]]
          /\ call' = [call EXCEPT ![th].cmd.batch = Tail(@),
                                  ![th].cmd.done = Append(@, Restores(n, c.cmd))]
          /\ UNCHANGED <<topo, frame>>
       \/ /\ c.cmd.name \notin {"EXECUTE", "RESTORE"}
          /\ topo' = [topo EXCEPT ![n] = Handle(n, c.cmd).topo]
          /\ call' = [call EXCEPT ![th].reply = IF Handle(n, c.cmd).ok THEN "ok" ELSE "err",
                                  ![th].view = topo[n].known]
          /\ UNCHANGED <<mem, aof, frame>>
    /\ UNCHANGED <<conf, late, plan, job, acked, budget>>

\* A target runs a command its caller no longer waits for.
HandleLate ==
    \E l \in late :
        /\ LockFree(l.to)
        /\ IF l.cmd.name = "RESTORE"
           THEN /\ mem' = IF Restores(l.to, l.cmd) THEN [mem EXCEPT ![l.to] = Restored(l.to, l.cmd)] ELSE mem
                /\ aof' = [aof EXCEPT ![l.to] = mem'[l.to]]
                /\ late' = (late \ {l}) \cup
                      (IF Len(l.cmd.batch) = 1 THEN {} ELSE {[l EXCEPT !.cmd.batch = Tail(@)]})
                /\ UNCHANGED <<topo, frame>>
           ELSE /\ IF l.cmd.name = "EXECUTE"
                   THEN frame' = [frame EXCEPT ![Op(l.to)] = executeRemoteRebalanceSlot(l.to, l.cmd, None)] /\ topo' = topo
                   ELSE topo' = [topo EXCEPT ![l.to] = Handle(l.to, l.cmd).topo] /\ frame' = frame
                /\ late' = late \ {l}
                /\ UNCHANGED <<mem, aof>>
        /\ UNCHANGED <<conf, call, plan, job, acked, budget>>

\* What of a call is in the socket of its target when the caller gives up.
Unread(c) ==
    IF \/ c.reply # None
       \/ c.cmd.name = "EXECUTE" /\ \E g \in Threads : frame[g].pc # "idle" /\ frame[g].by # None /\ call[frame[g].by] = c
       \/ c.cmd.name = "RESTORE" /\ c.cmd.batch = <<>>
    THEN {} ELSE {To(c.to, c.cmd)}

\* A deadline that never comes while the target is only busy.
TimeoutPatient(th) ==
    /\ call[th] # None /\ call[th].reply = None /\ LockFree(call[th].to) /\ budget.losses > 0
    /\ budget' = [budget EXCEPT !.losses = @ - 1]
    /\ \E sent \in {{}, Unread(call[th])} : late' = late \cup sent
    /\ frame' = [g \in Threads |-> IF frame[g].pc # "idle" /\ frame[g].by = th THEN [frame[g] EXCEPT !.by = None] ELSE frame[g]]
    /\ call' = [call EXCEPT ![th].reply = "err"]
    /\ UNCHANGED <<conf, topo, mem, aof, plan, job, acked>>

\* The caller gives up: its deadline passes because the target is busy with a command, or
\* a connection or an answer is lost (bounded).  What was sent may still run.
Timeout(th) ==
    /\ call[th] # None /\ call[th].reply # "err"
    /\ \/ call[th].reply = None /\ ~LockFree(call[th].to) /\ UNCHANGED budget
       \/ budget.losses > 0 /\ budget' = [budget EXCEPT !.losses = @ - 1]
    /\ \E sent \in {{}, Unread(call[th])} :
          /\ sent = {} => budget' # budget
          /\ late' = late \cup sent
    /\ frame' = [g \in Threads |-> IF frame[g].pc # "idle" /\ frame[g].by = th THEN [frame[g] EXCEPT !.by = None] ELSE frame[g]]
    /\ call' = [call EXCEPT ![th].reply = "err"]
    /\ UNCHANGED <<conf, topo, mem, aof, plan, job, acked>>

-----------------------------------------------------------------------------
(* REBALANCE.                                                              *)

\* REBALANCE PLAN and REMOVE PLAN: the operator keeps what identifies the plan.
Plan(n) ==
    /\ n \in conf.operators /\ plan[n] = None /\ LockFree(n) /\ budget.plans > 0
    /\ plan' = [plan EXCEPT ![n] = PlanId(n)]
    /\ budget' = [budget EXCEPT !.plans = @ - 1]
    /\ UNCHANGED <<conf, topo, mem, aof, frame, call, late, job, acked>>

\* REBALANCE APPLY ONCE, BATCH or ALL: what it will move, or None when it refuses.
ApplyMoves(n, mode) ==
    LET moves == planClusterRebalance(topo[n].own, capacityNodes(n)) IN
    IF ~MuFree(n) \/ Active(topo[n]) \/ moves = None \/ PlanId(n) # plan[n] THEN None
    ELSE LET all == SingleMoves(moves)
             mine == SelectSeq(all, LAMBDA m : m.source = n) IN
         CASE mode = "all" -> all
           [] mode = "batch" -> IF mine = <<>> /\ all # <<>> THEN None ELSE mine
           [] mode = "once" -> IF all = <<>> THEN <<>> ELSE IF all[1].source # n THEN None ELSE <<all[1]>>

Apply(n, mode) ==
    /\ mode \in conf.modes /\ plan[n] # None /\ LockFree(n)
    /\ plan' = [plan EXCEPT ![n] = None]
    /\ frame' = IF ApplyMoves(n, mode) \in {None, <<>>} THEN frame
                ELSE [frame EXCEPT ![Op(n)] = Frame(mode, ApplyMoves(n, mode), None)]
    /\ UNCHANGED <<conf, topo, mem, aof, call, late, job, acked, budget>>

\* The next slot: moved here, or by the node that owns it.  ALL looks for transitions again.
NextSlot(n) ==
    LET f == frame[Op(n)] m == Head(f.slots) IN
    /\ f.pc = "next" /\ f.slots # <<>>
    /\ IF f.kind = "all" /\ Active(topo[n]) THEN End(Op(n), FALSE)
       ELSE /\ frame' = [frame EXCEPT ![Op(n)] =
                  IF m.source = n
                  THEN Tell([f EXCEPT !.slot = m.slot, !.target = m.target],
                            <<To(m.target, SetSlot("IMPORTING", m.slot, n))>>, "migrating")
                  ELSE Tell([f EXCEPT !.slots = Tail(@)],
                            <<To(m.source, [name |-> "EXECUTE", slot |-> m.slot, node |-> m.target, digest |-> Digest(n)])>>,
                            "next")]
            /\ UNCHANGED call
    /\ UNCHANGED <<conf, topo, mem, aof, late, plan, job, acked, budget>>

\* MIGRATING on the source; the target is told STABLE when that fails.
SetMigrating(n) ==
    LET f == frame[Op(n)] r == executeClusterSetSlot(n, "MIGRATING", f.slot, f.target) IN
    /\ f.pc = "migrating"
    /\ topo' = [topo EXCEPT ![n] = r.topo]
    /\ frame' = [frame EXCEPT ![Op(n)] =
          IF r.ok THEN [f EXCEPT !.pc = "copy"]
          ELSE Tell(f, <<To(f.target, SetSlot("STABLE", f.slot, None))>>, "undone")]
    /\ UNCHANGED <<conf, mem, aof, call, late, plan, job, acked, budget>>

\* The keys of the slot that are left are sent in one batch; when none is left every known
\* node is told the new owner, this one last.
Copy(n) ==
    LET f == frame[Op(n)]
        left == {k \in Keys : SlotOf(k) = f.slot /\ mem[n][k] # None}
        batch == [i \in 1 .. Cardinality(left) |-> LET k == SetToSeq(left)[i] IN [key |-> k, val |-> mem[n][k]]]
        peers == SetToSortSeq(topo[n].known \ {n}, <) IN
    /\ f.pc = "copy"
    /\ IF topo[n].own[f.slot] = n /\ left # {}
       THEN /\ Send(Op(n), f.target, [name |-> "RESTORE", batch |-> batch, done |-> <<>>, replace |-> f.kind = "resume"])
            /\ frame' = [frame EXCEPT ![Op(n)] = [f EXCEPT !.pc = "migrate", !.batch = batch, !.failed = FALSE]]
       ELSE /\ frame' = [frame EXCEPT ![Op(n)] =
                  Tell(f, [i \in 1 .. Len(peers) |-> To(peers[i], SetSlot("NODE", f.slot, f.target))], "finalize")]
            /\ UNCHANGED call
    /\ UNCHANGED <<conf, topo, mem, aof, late, plan, job, acked, budget>>

\* A deletion that does not wait for the answer of the target.
MigrateReplyEager(n) ==
    LET f == frame[Op(n)] c == call[Op(n)] k == Head(f.batch).key IN
    /\ f.pc = "migrate" /\ f.batch # <<>> /\ c.cmd.done # <<>>
    /\ frame' = [frame EXCEPT ![Op(n)] = [f EXCEPT !.batch = Tail(@), !.failed = @ \/ ~Head(c.cmd.done)]]
    /\ mem' = [mem EXCEPT ![n][k] = None]
    /\ call' = [call EXCEPT ![Op(n)].cmd.done = Tail(@)]
    /\ UNCHANGED <<conf, topo, aof, late, plan, job, acked, budget>>

\* An answer of the batch: a key the target took is deleted here.
MigrateReply(n) ==
    LET f == frame[Op(n)] c == call[Op(n)] k == Head(f.batch).key IN
    /\ f.pc = "migrate" /\ f.batch # <<>> /\ c.cmd.done # <<>>
    /\ frame' = [frame EXCEPT ![Op(n)] = [f EXCEPT !.batch = Tail(@), !.failed = @ \/ ~Head(c.cmd.done)]]
    /\ mem' = IF Head(c.cmd.done) THEN [mem EXCEPT ![n][k] = None] ELSE mem
    /\ call' = [call EXCEPT ![Op(n)].cmd.done = Tail(@)]
    /\ UNCHANGED <<conf, topo, aof, late, plan, job, acked, budget>>

\* The end of the batch, all answers read or none to come: the deletions are appended.
\* RESUME tries again after a transport error; otherwise an error ends the command and
\* leaves the slot in transition.
MigrateDone(n) ==
    LET f == frame[Op(n)] c == call[Op(n)]
        broken == c.reply = "err" /\ c.cmd.done = <<>> IN
    /\ f.pc = "migrate" /\ (f.batch = <<>> \/ broken)
    /\ aof' = [aof EXCEPT ![n] = mem[n]]
    /\ IF f.batch = <<>> /\ ~f.failed
       THEN frame' = [frame EXCEPT ![Op(n)].pc = "copy"] /\ call' = [call EXCEPT ![Op(n)] = None]
       ELSE IF f.kind = "resume" /\ ~f.failed /\ f.tries < conf.retries
       THEN frame' = [frame EXCEPT ![Op(n)].pc = "copy", ![Op(n)].tries = @ + 1] /\ call' = [call EXCEPT ![Op(n)] = None]
       ELSE End(Op(n), FALSE)
    /\ UNCHANGED <<conf, topo, mem, late, plan, job, acked, budget>>

\* The source gives the slot up, unless it holds a key of it again.
Finalize(n) ==
    LET f == frame[Op(n)] r == executeClusterSetSlot(n, "NODE", f.slot, f.target) IN
    /\ f.pc = "finalize"
    /\ topo' = [topo EXCEPT ![n] = r.topo]
    /\ IF ~r.ok THEN End(Op(n), FALSE)
       ELSE /\ frame' = [frame EXCEPT ![Op(n)] = [f EXCEPT !.pc = "next", !.slots = IF @ = <<>> THEN @ ELSE Tail(@)]]
            /\ UNCHANGED call
    /\ UNCHANGED <<conf, mem, aof, late, plan, job, acked, budget>>

\* Nothing left to move.
Moved(n) ==
    /\ frame[Op(n)].pc = "next" /\ frame[Op(n)].slots = <<>> /\ frame[Op(n)].kind # "remove"
    /\ End(Op(n), TRUE)
    /\ UNCHANGED <<conf, topo, mem, aof, late, plan, job, acked, budget>>

\* REBALANCE RECOVER RESUME of a slot that is migrating here.
Resume(n, s) ==
    /\ budget.resumes > 0 /\ MuFree(n)
    /\ topo[n].own[s] = n /\ topo[n].mig[s] # None
    /\ frame' = [frame EXCEPT ![Op(n)] =
          Tell([Frame("resume", <<>>, None) EXCEPT !.slot = s, !.target = topo[n].mig[s]],
               <<To(topo[n].mig[s], SetSlot("IMPORTING", s, n))>>, "copy")]
    /\ budget' = [budget EXCEPT !.resumes = @ - 1]
    /\ UNCHANGED <<conf, topo, mem, aof, call, late, plan, job, acked>>

\* SETSLOT, ADDSLOTS, DELSLOTS or FLUSHSLOTS by an operator.
Operate(n, action, s) ==
    LET r == IF action = "STABLE" THEN executeClusterSetSlot(n, action, s, None)
             ELSE executeClusterSlots(n, action, s) IN
    /\ <<action, n>> \in conf.manual /\ budget.manual > 0 /\ LockFree(n) /\ r.ok
    /\ topo' = [topo EXCEPT ![n] = r.topo]
    /\ budget' = [budget EXCEPT !.manual = @ - 1]
    /\ UNCHANGED <<conf, mem, aof, frame, call, late, plan, job, acked>>

-----------------------------------------------------------------------------
(* Membership.                                                             *)

\* A JOIN that takes the candidate's word for the other members.
executeClusterJoinHasty(n, x) ==
    LET d == Digest(n) IN
    /\ <<n, x>> \in conf.joins /\ budget.joins > 0 /\ MuFree(n)
    /\ ~Active(topo[n]) /\ x \notin topo[n].known
    /\ frame' = [frame EXCEPT ![Op(n)] =
          Tell([Frame("join", <<>>, None) EXCEPT !.node = x, !.digest = d], <<To(x, Member("CHECK", x, d))>>, "commit")]
    /\ budget' = [budget EXCEPT !.joins = @ - 1]
    /\ UNCHANGED <<conf, topo, mem, aof, call, late, plan, job, acked>>

\* CLUSTER JOIN: the candidate is asked, learns the members and itself, the members
\* learn it, this node last.
executeClusterJoin(n, x) ==
    LET members == SetToSortSeq(topo[n].known, <)
        d == Digest(n)
        Teach(m) == To(x, Member("ADD", m, d))
        Spread(m) == To(m, Member("ADD", x, d)) IN
    /\ <<n, x>> \in conf.joins /\ budget.joins > 0 /\ MuFree(n)
    /\ ~Active(topo[n]) /\ x \notin topo[n].known
    /\ frame' = [frame EXCEPT ![Op(n)] =
          Tell([Frame("join", <<>>, None) EXCEPT !.node = x, !.digest = d],
               <<To(x, Member("CHECK", x, d))>>
                 \o [i \in 1 .. Len(members) |-> Teach(members[i])] \o <<Teach(x)>>
                 \o LET others == SelectSeq(members, LAMBDA m : m # n) IN [i \in 1 .. Len(others) |-> Spread(others[i])],
               "commit")]
    /\ budget' = [budget EXCEPT !.joins = @ - 1]
    /\ UNCHANGED <<conf, topo, mem, aof, call, late, plan, job, acked>>

\* CLUSTER REMOVE APPLY: the slots are evacuated first.
executeClusterRemove(n, x) ==
    LET moves == planClusterNodeRemoval(topo[n].own, topo[n].known, x) IN
    /\ <<n, x>> \in conf.removes /\ plan[n] # None /\ MuFree(n)
    /\ ~Active(topo[n]) /\ moves # None /\ plan[n] = PlanId(n)
    /\ plan' = [plan EXCEPT ![n] = None]
    /\ frame' = [frame EXCEPT ![Op(n)] = [Frame("remove", SingleMoves(moves), None) EXCEPT !.node = x]]
    /\ UNCHANGED <<conf, topo, mem, aof, call, late, job, acked, budget>>

\* The evacuation is over: the members that stay are told, then the removed one.
Evacuated(n) ==
    LET f == frame[Op(n)]
        stay == SetToSortSeq(topo[n].known \ {n, f.node}, <)
        order == stay \o (IF f.node = n THEN <<>> ELSE <<f.node>>) IN
    /\ f.pc = "next" /\ f.slots = <<>> /\ f.kind = "remove"
    /\ IF f.node \in clusterOwners(topo[n].own) \/ Active(topo[n]) THEN End(Op(n), FALSE)
       ELSE /\ frame' = [frame EXCEPT ![Op(n)] =
                  IF order = <<>> THEN [f EXCEPT !.pc = "commit", !.digest = Digest(n)]
                  ELSE Tell([f EXCEPT !.digest = Digest(n)],
                            [i \in 1 .. Len(order) |-> To(order[i], Member("REMOVE", f.node, Digest(n)))], "commit")]
            /\ UNCHANGED call
    /\ UNCHANGED <<conf, topo, mem, aof, late, plan, job, acked, budget>>

\* CLUSTER MEMBERSHIP RECOVER: the view of a peer with the same owners replaces the own one.
executeClusterMembershipRecover(n, p) ==
    /\ <<n, p>> \in conf.recovers /\ budget.recovers > 0 /\ MuFree(n) /\ ~Active(topo[n])
    /\ frame' = [frame EXCEPT ![Op(n)] =
          Tell([Frame("recover", <<>>, None) EXCEPT !.digest = Digest(n)],
               <<To(p, [name |-> "VIEW", digest |-> Digest(n)])>>, "commit")]
    /\ budget' = [budget EXCEPT !.recovers = @ - 1]
    /\ UNCHANGED <<conf, topo, mem, aof, call, late, plan, job, acked>>

\* The view of a peer that no slot owner is missing from.
applyClusterMembershipRecovery(n, digest, view) ==
    IF Active(topo[n]) \/ Digest(n) # digest \/ ~(clusterOwners(topo[n].own) \subseteq view) THEN Refused(topo[n])
    ELSE mutateClusterTopology(topo[n], [topo[n] EXCEPT !.known = view])

\* The local end of JOIN, REMOVE and RECOVER.
Commit(n) ==
    LET f == frame[Op(n)]
        r == CASE f.kind = "join" -> addClusterKnownNode(n, f.node, f.digest)
               [] f.kind = "remove" -> removeClusterKnownNode(n, f.node, f.digest)
               [] f.kind = "recover" -> applyClusterMembershipRecovery(n, f.digest, f.node) IN
    /\ f.pc = "commit"
    /\ topo' = [topo EXCEPT ![n] = r.topo]
    /\ End(Op(n), r.ok)
    /\ UNCHANGED <<conf, mem, aof, late, plan, job, acked, budget>>

-----------------------------------------------------------------------------
(* Failover ownership.                                                     *)

\* A promotion that takes the slots first.
ConvergeSelf(n) ==
    LET old == clusterFailoverCurrentOwner(n) IN
    /\ n \in conf.promoted /\ budget.converges > 0 /\ MuFree(n)
    /\ old \notin {None, n} /\ ~Active(topo[n])
    /\ frame' = [frame EXCEPT ![Bg(n)] = [Frame("converge", <<>>, None) EXCEPT !.node = old, !.pc = "flip"]]
    /\ budget' = [budget EXCEPT !.converges = @ - 1]
    /\ UNCHANGED <<conf, topo, mem, aof, call, late, plan, job, acked>>

\* convergeClusterFailoverOwnership on the promoted leader: the other slot owners first.
Converge(n) ==
    LET old == clusterFailoverCurrentOwner(n)
        others == SetToSortSeq(clusterOwners(topo[n].own) \ {n, old}, <) IN
    /\ n \in conf.promoted /\ budget.converges > 0 /\ MuFree(n)
    /\ old \notin {None, n} /\ ~Active(topo[n])
    /\ frame' = [frame EXCEPT ![Bg(n)] =
          LET f == [Frame("converge", <<>>, None) EXCEPT !.node = old] IN
          IF others = <<>> THEN [f EXCEPT !.pc = "flip"]
          ELSE Tell(f, [i \in 1 .. Len(others) |->
                          To(others[i], [name |-> "OWNER", old |-> old, node |-> n, digest |-> Digest(n)])], "flip")]
    /\ budget' = [budget EXCEPT !.converges = @ - 1]
    /\ UNCHANGED <<conf, topo, mem, aof, call, late, plan, job, acked>>

\* Its own view last.
Flip(n) ==
    LET r == replaceClusterOwner(n, frame[Bg(n)].node, n, None) IN
    /\ frame[Bg(n)].pc = "flip"
    /\ topo' = [topo EXCEPT ![n] = r.topo]
    /\ End(Bg(n), r.ok)
    /\ UNCHANGED <<conf, mem, aof, late, plan, job, acked, budget>>

\* A member that is reparented or demoted repairs its view.
repairClusterFailoverMemberOwnership(n, new) ==
    LET old == clusterFailoverCurrentOwner(n) r == replaceClusterOwner(n, old, new, None) IN
    /\ new \in conf.promoted /\ n \in conf.group[new] \ {new}
    /\ MuFree(n) /\ old \notin {None, new} /\ r.ok
    /\ topo' = [topo EXCEPT ![n] = r.topo]
    /\ UNCHANGED <<conf, mem, aof, frame, call, late, plan, job, acked, budget>>

-----------------------------------------------------------------------------
(* Clients.                                                                *)

\* enforceClusterRoutingForClientMode for one key: served here, or sent elsewhere.
Route(n, k, asking) ==
    LET s == SlotOf(k) t == topo[n] IN
    CASE t.own[s] = None -> [to |-> None, asking |-> FALSE]
      [] t.own[s] = n /\ t.mig[s] # None /\ mem[n][k] = None -> [to |-> t.mig[s], asking |-> TRUE]
      [] t.own[s] = n \/ (t.imp[s] # None /\ asking) -> [to |-> n, asking |-> FALSE]
      [] OTHER -> [to |-> t.own[s], asking |-> FALSE]

Serves(n, k, asking) == Route(n, k, asking).to = n

\* A client sends a write of k to n.
Begin(c, n, k) ==
    /\ job[c].pc = "idle" /\ budget.writes > 0 /\ k \in conf.written
    /\ job' = [job EXCEPT ![c] = [pc |-> "sent", at |-> n, key |-> k, asking |-> FALSE, hops |-> 0]]
    /\ UNCHANGED <<conf, topo, mem, aof, frame, call, late, plan, acked, budget>>

\* The first look at the slot, before durableMu: it uses ASKING up.
Redirect(c, r) ==
    job' = [job EXCEPT ![c] = IF r.to = None \/ job[c].hops = conf.hops THEN NoJob
                              ELSE [job[c] EXCEPT !.pc = "sent", !.at = r.to, !.asking = r.asking, !.hops = @ + 1]]

RouteFirst(c) ==
    LET j == job[c] r == Route(j.at, j.key, j.asking) IN
    /\ j.pc = "sent"
    /\ IF r.to = j.at THEN job' = [job EXCEPT ![c].pc = "routed"] ELSE Redirect(c, r)
    /\ UNCHANGED <<conf, topo, mem, aof, frame, call, late, plan, acked, budget>>

\* A command that is not looked at again.
ExecuteUnchecked(c) ==
    LET j == job[c] IN
    /\ j.pc = "routed" /\ LockFree(j.at)
    /\ \E v \in Values \ {acked[j.key]} :
          /\ mem' = [mem EXCEPT ![j.at][j.key] = v] /\ aof' = [aof EXCEPT ![j.at][j.key] = v]
          /\ acked' = [acked EXCEPT ![j.key] = v]
    /\ job' = [job EXCEPT ![c] = NoJob]
    /\ budget' = [budget EXCEPT !.writes = @ - 1]
    /\ UNCHANGED <<conf, topo, frame, call, late, plan>>

\* The command runs under durableMu.  The commands of Server.execute look at the slot
\* again there, and find ASKING used up; plain GET and SET and the commands with a
\* dispatcher of their own do not (conf.unchecked).
Execute(c) ==
    LET j == job[c] r == Route(j.at, j.key, FALSE) IN
    /\ j.pc = "routed" /\ LockFree(j.at)
    /\ IF conf.unchecked \/ r.to = j.at
       THEN ExecuteUnchecked(c)
       ELSE /\ Redirect(c, r)
            /\ UNCHANGED <<conf, topo, mem, aof, frame, call, late, plan, acked, budget>>

\* The process of n dies: memory, commands and sockets are lost.
Crash(n) ==
    /\ budget.crashes > 0
    /\ mem' = [mem EXCEPT ![n] = aof[n]]
    /\ frame' = [th \in Threads |->
          IF th[1] = n THEN Idle
          ELSE IF frame[th].pc # "idle" /\ frame[th].by \in {Op(n), Bg(n)} THEN [frame[th] EXCEPT !.by = None] ELSE frame[th]]
    /\ call' = [th \in Threads |->
          IF th[1] = n \/ call[th] = None THEN None
          ELSE IF call[th].to = n /\ call[th].reply = None THEN [call[th] EXCEPT !.reply = "err"] ELSE call[th]]
    /\ late' = {l \in late : l.to # n} \cup
               UNION {IF call[th] = None THEN {} ELSE {l \in Unread(call[th]) : l.to # n} : th \in {Op(n), Bg(n)}}
    /\ job' = [c \in Clients |-> IF job[c].pc # "idle" /\ job[c].at = n THEN NoJob ELSE job[c]]
    /\ budget' = [budget EXCEPT !.crashes = @ - 1]
    /\ UNCHANGED <<conf, topo, aof, plan, acked>>

Step(n) ==
    \/ NextSlot(n) \/ SetMigrating(n) \/ Copy(n) \/ MigrateReply(n) \/ MigrateDone(n) \/ Finalize(n) \/ Moved(n)
    \/ Evacuated(n) \/ Commit(n) \/ Flip(n)

Commands(n) ==
    \/ Plan(n)
    \/ \E mode \in {"once", "batch", "all"} : Apply(n, mode)
    \/ \E s \in Slots : Resume(n, s)
    \/ \E s \in Slots, action \in {"STABLE", "ADDSLOTS", "DELSLOTS", "FLUSHSLOTS"} : Operate(n, action, s)
    \/ \E x \in Nodes : executeClusterJoin(n, x) \/ executeClusterRemove(n, x) \/ executeClusterMembershipRecover(n, x)
    \/ Converge(n)
    \/ \E x \in Nodes : repairClusterFailoverMemberOwnership(n, x)

\* The life of a call.
Turn(th) == SendNext(th) \/ Told(th) \/ HandleCall(th) \/ Timeout(th)

Next ==
    \/ \E n \in Nodes : Step(n) \/ Commands(n) \/ Crash(n)
    \/ \E th \in Threads : Turn(th)
    \/ HandleLate
    \/ \E c \in Clients : RouteFirst(c) \/ Execute(c) \/ \E n \in Nodes, k \in Keys : Begin(c, n, k)

Spec == Init /\ [][Next]_vars

\* The handlers of a node run, and a deadline passes.
Fairness ==
    /\ \A n \in Nodes : WF_state(Step(n))
    /\ \A th \in Threads : WF_state(Turn(th))

-----------------------------------------------------------------------------
(* Properties.                                                             *)

TypeOK ==
    /\ \A n \in Nodes :
          /\ topo[n].own \in [Slots -> Nodes \cup {None}] /\ topo[n].mig \in [Slots -> Nodes \cup {None}]
          /\ topo[n].imp \in [Slots -> Nodes \cup {None}] /\ topo[n].known \subseteq Nodes /\ topo[n].epoch \in Nat
          /\ mem[n] \in [Keys -> Values \cup {None}] /\ aof[n] \in [Keys -> Values \cup {None}]
    /\ \A th \in Threads :
          /\ frame[th].pc \in {"idle", "next", "tell", "migrating", "copy", "migrate", "finalize", "commit", "flip"}
          /\ call[th] # None => frame[th].pc \in {"tell", "migrate"}
          /\ frame[th].pc # "idle" /\ frame[th].by # None => call[frame[th].by] # None
    /\ acked \in [Keys -> Values \cup {None}]

\* A node that would serve a key holds the value last acknowledged: a slot that moves, a
\* move that fails half way, is resumed or is cut by a crash never makes an older value, or
\* no value, visible to commands that look at the slot under durableMu.
ServesLatest == \A n \in Nodes, k \in Keys : LockFree(n) /\ Serves(n, k, FALSE) => mem[n][k] = acked[k]

\* Whatever crashes next, an acknowledged value is in the log of some node: MIGRATE appends
\* a deletion only for keys that the log of the target holds.
KeyDurable == \A k \in Keys : acked[k] # None => \E n \in Nodes : aof[n][k] = acked[k]

\* No node routes to a node it does not know: REMOVE, RECOVER and failover ownership keep
\* every slot owner in the known set.
OwnersKnown == \A n \in Nodes : clusterOwners(topo[n].own) \subseteq topo[n].known \cup {n}

\* The node that runs JOIN or REMOVE changes its own view last: when it lists the new
\* member every member does, and the member lists them; when it has dropped a member nobody lists it.
CoordinatorLast ==
    /\ \A j \in conf.joins :
          j[2] \in topo[j[1]].known =>
              topo[j[1]].known \subseteq topo[j[2]].known /\ \A m \in topo[j[1]].known : j[2] \in topo[m].known
    /\ \A r \in conf.removes :
          r[2] \notin topo[r[1]].known => \A m \in topo[r[1]].known \cup {r[2]} : r[2] \notin topo[m].known

\* A promoted leader takes the slots in its own view only when every other owner has: no
\* owner outside the shard still routes to the old leader.
FlipLast ==
    \A n \in conf.promoted, s \in Slots :
        topo[n].own[s] = n =>
            \A m \in clusterOwners(topo[n].own) \ conf.group[n] : topo[m].own[s] \notin conf.group[n] \ {n}

\* Every CLUSTER command ends, although commands on two nodes can wait for each other's durableMu.
CommandsReturn == \A th \in Threads : frame[th].pc # "idle" ~> frame[th].pc = "idle"

\* A slot in transition can be resumed: its target is not already the owner, which
\* refuses IMPORTING.
Resumable == \A n \in Nodes, s \in Slots :
    topo[n].own[s] = n /\ topo[n].mig[s] # None /\ LockFree(n) /\ late = {} => topo[topo[n].mig[s]].own[s] # topo[n].mig[s]
=============================================================================
