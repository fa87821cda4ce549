------------------------------- MODULE AofLog -------------------------------
(***************************************************************************)
(* The append-only file and the snapshot as one system: the write paths,   *)
(* the sync loop and policy changes, the background jobs, crash, stop and  *)
(* recovery, over the state of AofState; and what is promised of it.       *)
(***************************************************************************)
EXTENDS AofWrites, AofSync, AofJobs

Init ==
    /\ conf \in Deployments
    /\ mem = Empty
    /\ client = [c \in Clients |-> Idle]
    /\ unavail = FALSE
    /\ policy = Policy0 /\ failed = FALSE
    /\ seq = [appended |-> 0, written |-> 0, synced |-> 0]
    /\ queue = <<>> /\ enq = None
    /\ file = [frames |-> <<>>, flushed |-> 0, synced |-> 0]
    /\ orphan = FALSE /\ installed = <<>>
    /\ rewrite = NoJob /\ rewriteDue = FALSE
    /\ save = NoSave /\ saveDue = FALSE
    /\ snap = Empty
    /\ config = None
    /\ count = [b \in Bounded |-> 0]
    /\ commits = <<>> /\ floor = 0 /\ undone = {}

Next == UNCHANGED conf /\ (Writers \/ SyncLoop \/ Admin \/ Jobs \/ Crash \/ Stop)
Spec == Init /\ [][Next]_vars

Fairness ==
    /\ WF_state(SyncLoop)
    /\ \A c \in Clients : WF_state(Write(c))
    /\ WF_state(SetPolicy)
    /\ WF_state(BeginRewrite) /\ WF_state(FinishRewrite) /\ WF_state(Install)
    /\ WF_state(ExportAll) /\ WF_state(SnapshotRecords) /\ SF_state(SaveHandoff)
FairSpec == Spec /\ Fairness

-----------------------------------------------------------------------------
(* Properties.                                                             *)

\* The keyspace after the first n commits.
After(n) == Replay(Empty, SubSeq(commits, 1, n))

\* Whatever a crash leaves of the AOF, replaying it over the snapshot yields
\* the keyspace after some prefix of the commits, in sequence order: a batch or
\* a transaction is there as a whole or not at all, a rewrite loses no frame
\* and revives none.
RecoverySound ==
    \A frames \in CrashFiles : Replay(snap, frames) = After(LastCommit(frames))

\* "An AOF frame contains the entire affected command batch, so MSET recovery is
\* atomic" (docs/decisions/005-logical-persistence.md): whatever a crash leaves,
\* the recovered keyspace is the one after some number of commits.
RecoveryIsPrefix ==
    \A frames \in CrashFiles :
        \E n \in 0 .. Len(commits) : Replay(snap, frames) = After(n)

\* A write acknowledged under "always" survives every crash, whatever policy
\* changes, rewrites and other clients' batches surround it.
AlwaysDurable == \A frames \in CrashFiles : LastCommit(frames) >= floor

\* What syncedSeq reports, and WAITAOF answers from, is on disk.
SyncedIsDurable ==
    \A frames \in CrashFiles, i \in DOMAIN commits :
        commits[i].seq \in 1 .. seq.synced => i <= LastCommit(frames)

\* Once CONFIG SET appendfsync always has returned, every write completed
\* before it is on disk: only frames still queued are not synced.
PolicySwitchSyncs ==
    policy = "always" /\ ~failed /\ queue = <<>> => seq.synced = seq.appended

\* What clients were promised is on disk: acknowledged writes under "always",
\* what WAITAOF answers from, and everything once a switch to "always" returned.
Durable == AlwaysDurable /\ SyncedIsDurable /\ PolicySwitchSyncs

\* The keyspace the commits make, but for some of them.
NoRecs == [k \in Keys |-> None]
Without(lost) ==
    Replay(Empty, [i \in DOMAIN commits |->
              IF i \in lost THEN [commits[i] EXCEPT !.recs = NoRecs] ELSE commits[i]])

\* With no write in execution, memory is what the commits make of it, except
\* those whose client was told that the append failed: an acknowledged write is
\* in memory, a refused one is not, and two fast writes of different shards
\* reach memory in a way their order in the log explains.
MemoryMatchesLog == (\A c \in Clients : ~Busy(c)) => mem = Without(undone)

\* With no write in execution, memory is what the commits make of it (the
\* property MemoryMatchesLog); and at every step of a write, a drain, a rewrite
\* or a restart, file, queue, buffer, snapshot and memory agree with the commits.
MemorySound == IInv /\ MemoryMatchesLog

\* Background jobs take turns, and a graceful stop and restart of a healthy log
\* changes nothing in memory.
JobsSafe == [][JobsExclusive' /\ (Stop /\ ~failed => mem' = mem)]_vars

\* Every write returns to its client: no append waits for ever on the queue,
\* on enqueueMu or on a drain.
AppendReturns == \A c \in Clients : Busy(c) ~> ~Busy(c)

\* While the policy is "everysec" or "always" an appended frame is eventually
\* synced, unless the log fails.
EverysecSyncs == seq.synced < seq.appended ~> (seq.synced = seq.appended \/ failed)

\* A rewrite or save queued behind the other job starts eventually.
ScheduledJobsRun == (rewriteDue ~> Running.rewrite) /\ (saveDue ~> ~saveDue)

\* "A rolled-back transaction leaves nothing in the log"
\* (docs/ATOMIC-TRANSACTIONS.md): a write that was undone in memory because its
\* append failed is not recovered after a crash.
UndoneStaysUndone ==
    \A frames \in CrashFiles : undone \cap (1 .. LastCommit(frames)) = {}
=============================================================================
