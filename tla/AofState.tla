------------------------------ MODULE AofState ------------------------------
(***************************************************************************)
(* The append-only file and the snapshot: the state of persistence.Log     *)
(* (internal/persistence/log.go), of the writes, background jobs and       *)
(* policy changes that use it, and of the files; and what holds of them at *)
(* every step.                                                             *)
(*                                                                         *)
(* The keyspace is a function from keys to the number of the last write of *)
(* the key, 0 when absent. A frame is the set of records one append        *)
(* writes, None for a key without one; the base image of a rewritten AOF   *)
(* is a frame with a record for every key (its Reset record deletes the    *)
(* others). A key is a shard of its own. The file is the frames given to   *)
(* the bufio writer, of which the first "flushed" are in the operating     *)
(* system and the first "synced" on disk.                                  *)
(***************************************************************************)
EXTENDS Integers, Sequences, FiniteSets, FiniteSetsExt

CONSTANTS Clients, Keys, None,
          Deployments    \* the configurations and workloads considered

\* What bounds a workload: how often each of these may happen.
Bounded == {"w", "rewrite", "save", "config", "crash", "stop"}

ASSUME AofAssumption ==
    /\ None \notin Clients \cup {"config", "rewrite", "always", "everysec", "no"}
    /\ Clients \cap {"config", "rewrite"} = {}
    /\ None \notin Nat
    /\ IsFiniteSet(Keys) /\ Keys # {}
    /\ Deployments \subseteq
          [policy : {"always", "everysec", "no"},  \* appendfsync at start-up
           policies : SUBSET {"always", "everysec", "no"},  \* what CONFIG SET may choose
           kinds : SUBSET {"fast", "set", "batch", "exec"}, \* the write paths clients use
           saves : SUBSET {"bgsave", "periodic", "stop"},   \* what writes snapshots
           writesFail : BOOLEAN,   \* writing or syncing the AOF may fail
           dirFails : BOOLEAN,     \* syncing the directory after a rename may fail
           queueCap : Nat \ {0},   \* capacity of l.queue (4096)
           max : [Bounded -> Nat]]

VARIABLES
    conf,       \* the deployment
    mem,        \* the keyspace in memory
    client,     \* client[c]: the write in execution
    unavail,    \* durabilityFailed
    policy,     \* l.policy
    failed,     \* l.failed # nil
    seq,        \* appendedSeq, writtenSeq and syncedSeq
    queue,      \* l.queue
    enq,        \* the holder of enqueueMu across a wait, or None
    file,       \* the file behind l.file: its frames, how many flushed and synced
    orphan,     \* TRUE when l.file is no longer the file at the AOF path
    installed,  \* the frames of the file at the AOF path when orphan
    rewrite,    \* the rewrite job: phase, base image, rewriteBuffer
    rewriteDue, \* aofRewriteScheduled
    save,       \* the background save: phase and records
    saveDue,    \* bgsaveScheduled
    snap,       \* the snapshot file
    config,     \* the policy CONFIG SET is switching to, or None
    count,      \* writes, rewrites, saves, policy changes, crashes and stops so far
    commits,    \* history: the frames in the order of their sequence numbers
    floor,      \* history: the last commit acknowledged under "always"
    undone      \* history: the commits whose client was told of a failure

logVars == <<policy, failed, seq, queue, enq, file, orphan, installed>>
jobVars == <<rewrite, rewriteDue, save, saveDue, snap>>
history == <<commits, floor, undone>>
state == <<mem, client, unavail, logVars, jobVars, config, count, history>>
vars == <<conf, state>>

Policy0 == conf.policy
Policies == conf.policies
Kinds == conf.kinds
Saves == conf.saves
WritesFail == conf.writesFail
DirFails == conf.dirFails
QueueCap == conf.queueCap
\* May one more of these happen?
Left(what) == count[what] < conf.max[what]

Empty == [k \in Keys |-> 0]
Idle == [pc |-> "idle", kind |-> None, keys |-> {}, left |-> {}, w |-> 0,
         before |-> Empty, idx |-> 0, sync |-> FALSE, err |-> FALSE]
NoJob == [phase |-> "idle", img |-> Empty, buffer |-> <<>>, idx |-> 0]
NoSave == [phase |-> "idle", img |-> Empty]
Bump(what) == count' = [count EXCEPT ![what] = @ + 1]

-----------------------------------------------------------------------------
(* Locks. durableMu is held exclusively by every write path but "fast", by *)
(* CONFIG SET and by the start of a rewrite; "fast" holds it shared and    *)
(* the lock of its key's shard.                                            *)

Busy(c) == client[c].pc # "idle"
Shared == \E c \in Clients : Busy(c) /\ client[c].kind = "fast"
Exclusive == \/ \E c \in Clients : Busy(c) /\ client[c].kind # "fast"
             \/ config # None
             \/ rewrite.phase = "begin"
DurableMuFree == ~Exclusive /\ ~Shared

\* drainEverysec returns: every appended frame has been given to the writer.
Drained == failed \/ seq.written >= seq.appended

Running == [rewrite |-> rewrite.phase # "idle", save |-> save.phase # "idle"]

-----------------------------------------------------------------------------
(* What a write, a rewrite and a replay record.                            *)

Records(c) == [k \in Keys |-> IF k \in client[c].keys THEN client[c].w ELSE None]
Overlay(img, recs) == [k \in Keys |-> IF recs[k] # None THEN recs[k] ELSE img[k]]

\* The number of sequence numbers an append takes (AppendPlainSetBatch: one
\* for each key).
Weight(c) == IF client[c].kind = "batch" THEN Cardinality(client[c].keys) ELSE 1

Frame(c) == [recs |-> Records(c), idx |-> Len(commits) + 1]
Committed(c) == commits' = Append(commits,
                    [recs |-> Records(c), seq |-> seq.appended + Weight(c)])

\* bufferRewriteFrameLocked.
BufferedLost(job, frame) == job
Buffered(job, frame) ==
    IF job.phase \in {"temp", "install"} THEN [job EXCEPT !.buffer = Append(@, frame)] ELSE job
RewriteActive == rewrite.phase \in {"temp", "install"}

\* Flush and sync everything the writer holds.
FlushedOnly == [file EXCEPT !.flushed = Len(file.frames)]
Synced == [file EXCEPT !.flushed = Len(file.frames), !.synced = Len(file.frames)]

\* Replay: the last record of each key wins; a key without one keeps the value
\* of the image the replay starts from.
Replay(img, frames) ==
    [k \in Keys |->
        LET touching == {i \in DOMAIN frames : frames[i].recs[k] # None}
        IN  IF touching = {} THEN img[k] ELSE frames[Max(touching)].recs[k]]
LastCommit(frames) == IF frames = <<>> THEN 0 ELSE frames[Len(frames)].idx

-----------------------------------------------------------------------------
(* Types.                                                                  *)

\* A keyspace image; what one append records; the records of the log, of its
\* queue and of the history.
Images == [Keys -> Nat]
Recs == [Keys -> Nat \cup {None}]
Frames == [recs : Recs, idx : Nat]
Commits == [recs : Recs, seq : Nat]
Entries == [frame : Frames, seq : Nat, done : Clients \cup {None}]
WriteKinds == {"fast", "set", "batch", "exec"}
WriteStates ==
    [pc : {"idle", "apply", "append", "drain", "done", "finish"},
     kind : WriteKinds \cup {None}, keys : SUBSET Keys, left : SUBSET Keys, w : Nat,
     before : Images, idx : Nat, sync : BOOLEAN, err : BOOLEAN]
Seqs == [appended : Nat, written : Nat, synced : Nat]
Files == [frames : Seq(Frames), flushed : Nat, synced : Nat]
Rewrites == [phase : {"idle", "begin", "temp", "install"}, img : Images,
             buffer : Seq(Frames), idx : Nat]
SaveStates == [phase : {"idle", "export", "write", "handoff"}, img : Images]

\* Every variable has its type: what is synced was flushed, what was flushed
\* was written.
TypeOK ==
    /\ conf \in Deployments
    /\ mem \in Images /\ snap \in Images
    /\ client \in [Clients -> WriteStates]
    /\ unavail \in BOOLEAN /\ failed \in BOOLEAN /\ orphan \in BOOLEAN
    /\ rewriteDue \in BOOLEAN /\ saveDue \in BOOLEAN
    /\ policy \in {"always", "everysec", "no"} /\ config \in Policies \cup {None}
    /\ seq \in Seqs
    /\ file \in Files
    /\ file.synced <= file.flushed /\ file.flushed <= Len(file.frames)
    /\ installed \in Seq(Frames)
    /\ queue \in Seq(Entries)
    /\ enq \in Clients \cup {None, "config", "rewrite"}
    /\ rewrite \in Rewrites /\ save \in SaveStates
    /\ count \in [Bounded -> Nat]
    /\ commits \in Seq(Commits)
    /\ floor \in Nat /\ undone \subseteq Nat

-----------------------------------------------------------------------------
(* The inductive invariant: what each frame, entry and client stands for.  *)

\* The commit that the first n of these frames reach, and its sequence number.
Reach(frames, n) == IF n = 0 THEN 0 ELSE frames[1].idx + n - 1
Written == Reach(file.frames, Len(file.frames))
SeqOf(n) == IF n = 0 THEN 0 ELSE commits[n].seq

\* The file holds the commits without a gap from its first frame on; a healthy
\* log has those it lacks in its queue, in order.
LogInOrder ==
    /\ \A i \in DOMAIN file.frames : file.frames[i].idx = file.frames[1].idx + i - 1
    /\ Written <= Len(commits)
    /\ \A i \in DOMAIN queue : queue[i].frame.idx = queue[1].frame.idx + i - 1
    /\ ~failed => /\ Written + Len(queue) = Len(commits)
                  /\ queue # <<>> => queue[1].frame.idx = Written + 1
    /\ ~orphan

\* Sequence numbers grow with the commits; those recovered by a restart have
\* none.  appendedSeq and writtenSeq are those of the last commit and of the
\* last frame written.
SequenceInOrder ==
    /\ \A i, j \in DOMAIN commits : i < j =>
          /\ commits[i].seq <= commits[j].seq
          /\ commits[j].seq > 0 => commits[i].seq < commits[j].seq
    /\ seq.synced <= seq.written /\ seq.written <= seq.appended
    /\ seq.appended = SeqOf(Len(commits))
    /\ ~failed => /\ seq.written = SeqOf(Written)
                  /\ \A i \in DOMAIN queue :
                        queue[i].seq > 0 /\ queue[i].seq = SeqOf(queue[i].frame.idx)

\* What was acknowledged under "always" and what syncedSeq covers is synced.
SyncedReached ==
    /\ floor <= Reach(file.frames, file.synced)
    /\ \A i \in DOMAIN commits :
          commits[i].seq \in 1 .. seq.synced => i <= Reach(file.frames, file.synced)
    /\ policy = "always" /\ ~failed =>
          /\ \A i \in DOMAIN queue : queue[i].done # None
          /\ queue = <<>> => seq.synced = seq.appended

\* A client's write: how far it is and which commit is its own.
WriteSound(c) ==
    LET cl == client[c] IN
    /\ Busy(c) => /\ cl.kind \in WriteKinds /\ cl.kind \in Kinds /\ cl.keys # {}
                  /\ cl.kind \in {"batch", "exec"} => cl.keys = Keys
    /\ cl.pc \in {"idle", "apply", "append", "drain"} => cl.idx = 0 /\ ~cl.err /\ ~cl.sync
    /\ cl.pc = "drain" => policy = "no"
    /\ cl.pc = "done" => cl.idx \in DOMAIN commits /\ cl.sync /\ ~cl.err
    /\ cl.pc = "finish" =>
          /\ cl.idx \in 0 .. Len(commits)
          /\ ~cl.err => cl.idx > 0
          /\ cl.sync /\ ~cl.err => cl.idx <= Reach(file.frames, file.synced)
    /\ cl.err => failed
\* Every write in execution is sound; an entry that a client waits for holds its
\* commit.
WritesSound ==
    /\ \A c \in Clients : WriteSound(c)
    /\ \A i \in DOMAIN queue : queue[i].done # None =>
          /\ client[queue[i].done].pc = "done"
          /\ client[queue[i].done].idx = queue[i].frame.idx
    /\ undone \subseteq DOMAIN commits

\* durableMu and the shards: two writes in execution are fast ones of different
\* keys, and there is none while CONFIG SET or the start of a rewrite waits.
\* enqueueMu: who holds it, and why.
LocksHeld ==
    /\ \A c, d \in Clients : c # d /\ Busy(c) /\ Busy(d) =>
          /\ client[c].kind = "fast" /\ client[d].kind = "fast"
          /\ client[c].keys \cap client[d].keys = {}
    /\ config # None \/ rewrite.phase = "begin" => \A c \in Clients : ~Busy(c)
    /\ config # None <=> enq = "config"
    /\ rewrite.phase \in {"begin", "install"} <=> enq = "rewrite"
    /\ \A c \in Clients :
          /\ client[c].pc = "drain" => enq = c
          /\ client[c].pc = "done" /\ RewriteActive => enq = c
          /\ enq = c => \/ client[c].pc = "drain"
                        \/ client[c].pc = "done" /\ RewriteActive /\ client[c].idx = Len(commits)

\* A client that waits with enqueueMu has a commit the rewrite has not buffered.
Unbuffered == IF \E c \in Clients : enq = c /\ client[c].pc = "done" THEN 1 ELSE 0
\* The buffer of a rewrite continues its base image without a gap.
RewriteInOrder ==
    RewriteActive /\ ~failed =>
        /\ \A i \in DOMAIN rewrite.buffer : rewrite.buffer[i].idx = rewrite.idx + i
        /\ rewrite.idx + Len(rewrite.buffer) + Unbuffered = Len(commits)

\* The log side of the invariant, for deployments whose directory syncs work.
LogInv ==
    /\ TypeOK /\ LogInOrder /\ SequenceInOrder /\ SyncedReached /\ WritesSound
    /\ LocksHeld /\ RewriteInOrder

\* The value the first n of these commits give a key, but for some of them.
Live(C, n, lost, k) == {i \in 1 .. n : i \notin lost /\ C[i].recs[k] # None}
Value(C, n, lost, k) ==
    IF Live(C, n, lost, k) = {} THEN 0 ELSE C[Max(Live(C, n, lost, k))].recs[k]

\* What the frames hold: the records of their commit, or, as the first frame of
\* a rewritten file, the keyspace after it.
FileHolds ==
    \A i \in DOMAIN file.frames :
        LET f == file.frames[i] IN
        \/ f.idx \in DOMAIN commits /\ f.recs = commits[f.idx].recs /\ (i = 1 => f.idx = 1)
        \/ i = 1 /\ f.recs \in Images /\ \A k \in Keys : f.recs[k] = Value(commits, f.idx, {}, k)
QueueHolds ==
    \A i \in DOMAIN queue :
        /\ queue[i].frame.idx \in DOMAIN commits
        /\ queue[i].frame.recs = commits[queue[i].frame.idx].recs
RewriteHolds ==
    RewriteActive /\ ~failed =>
        /\ \A k \in Keys : rewrite.img[k] = Value(commits, rewrite.idx, {}, k)
        /\ \A i \in DOMAIN rewrite.buffer :
              rewrite.buffer[i].recs = commits[rewrite.idx + i].recs

\* The commit of a write in execution is the last one of its keys; a commit is
\* given up only when the log has failed.
CommitsOwned ==
    /\ \A c \in Clients : client[c].idx > 0 =>
          /\ commits[client[c].idx].recs = Records(c)
          /\ client[c].idx \notin undone
          /\ \A j \in client[c].idx + 1 .. Len(commits) :
                \A k \in client[c].keys : commits[j].recs[k] = None
    /\ undone # {} => failed

\* Memory, key by key: what the commits make of it, but for the commit of the
\* write in execution; a batch or a transaction has changed it already, and
\* keeps what it was.
Explained(m, cl, k, was) ==
    IF cl.kind \in {"fast", "set"} THEN m[k] = was
    ELSE cl.before[k] = was /\ m[k] = IF k \in cl.left THEN was ELSE cl.w
MemoryExplained ==
    /\ \A k \in Keys : (\A c \in Clients : Busy(c) => k \notin client[c].keys) =>
          mem[k] = Value(commits, Len(commits), undone, k)
    /\ \A c \in Clients : Busy(c) =>
          /\ client[c].left # {} => client[c].pc = "apply" /\ client[c].kind \in {"batch", "exec"}
          /\ \A k \in client[c].keys :
                Explained(mem, client[c], k,
                          Value(commits, Len(commits), undone \cup {client[c].idx}, k))

\* A snapshot, written or in the making, holds no key the synced AOF lacks.
Touched(k) == \E i \in 1 .. file.synced : file.frames[i].recs[k] # None
SnapshotsCovered ==
    IF Saves = {} THEN snap = Empty /\ save.phase = "idle" /\ ~saveDue
    ELSE /\ policy = "always" /\ ~failed /\ file.synced = Len(file.frames)
         /\ \A c \in Clients : Busy(c) =>
               /\ client[c].kind \in {"fast", "set"}
               /\ client[c].pc = "finish" => client[c].sync
         /\ \A k \in Keys : mem[k] # 0 \/ snap[k] # 0 \/ save.img[k] # 0 => Touched(k)

\* A rewrite and a background save never run at the same time.
JobsExclusive == ~(Running.rewrite /\ Running.save)

ContentInv ==
    /\ FileHolds /\ QueueHolds /\ RewriteHolds /\ CommitsOwned /\ MemoryExplained
    /\ SnapshotsCovered /\ JobsExclusive
IInv == LogInv /\ ContentInv
=============================================================================
