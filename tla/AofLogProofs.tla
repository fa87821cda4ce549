---------------------------- MODULE AofLogProofs ----------------------------
(***************************************************************************)
(* The theorems about the append-only file: the inductive invariant, from  *)
(* the steps of the writes, of the sync loop and of the jobs, and the      *)
(* properties that follow from it.                                         *)
(***************************************************************************)
EXTENDS AofLog, AofWritesProofs, AofMemoryProofs, AofSyncProofs, AofJobsProofs

\* An empty log is in order.
LEMMA InitLog ==
    ASSUME Init
    PROVE  LogInv
<1>1. TypeOK
  <2>1. conf \in Deployments /\ policy \in {"always", "everysec", "no"}
    BY Zenon, AofAssumption DEF Init, Policy0
  <2>2. /\ mem \in Images /\ snap \in Images /\ rewrite \in Rewrites /\ save \in SaveStates
        /\ client \in [Clients -> WriteStates]
    BY Zenon, Constructed DEF Init
  <2>3. seq \in Seqs /\ count \in [Bounded -> Nat]
    BY Zenon DEF Init, Seqs
  <2>4. <<>> \in Seq(Frames) /\ <<>> \in Seq(Entries) /\ <<>> \in Seq(Commits) /\ Len(<<>>) = 0
    OBVIOUS
  <2>5. file \in Files /\ file.synced <= file.flushed /\ file.flushed <= Len(file.frames)
    BY <2>4 DEF Init, Files
  <2> QED BY ZenonT(40), <2>1, <2>2, <2>3, <2>4, <2>5 DEF Init, TypeOK
<1>2. /\ file.frames = <<>> /\ file.synced = 0 /\ queue = <<>> /\ commits = <<>> /\ Len(<<>>) = 0
      /\ DOMAIN file.frames = {} /\ DOMAIN queue = {} /\ DOMAIN commits = {}
      /\ seq.appended = 0 /\ seq.written = 0 /\ seq.synced = 0
      /\ enq = None /\ config = None /\ floor = 0 /\ undone = {} /\ orphan = FALSE /\ failed = FALSE
      /\ rewrite.phase = "idle"
      /\ \A c \in Clients : /\ client[c].pc = "idle" /\ client[c].idx = 0
                            /\ ~client[c].err /\ ~client[c].sync
  BY DEF Init, NoJob, Idle
<1>3. Reach(file.frames, file.synced) = 0 /\ Written = 0 /\ SeqOf(0) = 0
  BY Zenon, <1>2 DEF Reach, Written, SeqOf
<1>4. LogInOrder /\ SequenceInOrder /\ SyncedReached
  BY <1>2, <1>3 DEF LogInOrder, SequenceInOrder, SyncedReached
<1>5. WritesSound
  BY Zenon, <1>2 DEF WritesSound, WriteSound, Busy
<1>6. LocksHeld /\ RewriteInOrder
  BY Zenon, <1>2, AofAssumption DEF LocksHeld, Busy, RewriteInOrder, RewriteActive
<1> QED BY <1>1, <1>4, <1>5, <1>6 DEF LogInv

\* No deployment of this class of models has a directory sync that fails: the
\* log's file is the one at the AOF path.
NoOrphans == \A d \in Deployments : ~d.dirFails

\* Every step keeps the log in order.
LEMMA LogStep ==
    ASSUME IndexFacts, NoOrphans, LogInv, [Next]_vars
    PROVE  LogInv'
<1>1. TypeOK /\ LogInOrder /\ ~orphan /\ ~DirFails
  BY DEF LogInv, LogInOrder, NoOrphans, TypeOK, DirFails
<1>2. CASE UNCHANGED vars
  <2>1. UNCHANGED <<conf, mem, client, unavail, policy, failed, seq, queue, enq, file, orphan, installed,
                    rewrite, rewriteDue, save, saveDue, snap, config, count, commits, floor, undone>>
    BY Zenon, <1>2 DEF vars, state, logVars, jobVars, history
  <2>2. TypeOK'
    BY <1>1, <2>1 DEF TypeOK, Policies
  <2>3. LocksHeld'
    BY ZenonT(40), <2>1 DEF LogInv, LocksHeld, Busy, RewriteActive
  <2>4. RewriteInOrder'
    BY <2>1, CalmRewrite
  <2> QED BY ZenonT(40), <2>1, <2>2, <2>3, <2>4, CalmLog DEF LogInv, SyncedReached
<1>3. CASE conf' = conf /\ Writers
  <2>1. TypeOK'
    BY <1>1, <1>3, WriterTyped
  <2>2. PICK c \in Clients :
           \/ \E k \in Keys : StartFast(c, k)
           \/ \E k \in Keys : StartLocked(c, "set", {k})
           \/ \E kind \in {"batch", "exec"} : StartLocked(c, kind, Keys)
           \/ ApplyOne(c) \/ AbortAtomic(c) \/ AppendEncoded(c) \/ AppendDirect(c) \/ FinishWrite(c)
    BY Zenon, <1>3 DEF Writers
  <2>3. CASE \E k \in Keys : StartFast(c, k)
    <3>1. PICK k \in Keys : StartFast(c, k)
      BY <2>3
    <3>2. {k} \in SUBSET Keys /\ {k} # {} /\ "fast" \in WriteKinds
      BY Zenon DEF WriteKinds
    <3> QED BY ZenonT(40), <1>3, <2>1, <3>1, <3>2, StartLog
  <2>4. CASE \E k \in Keys : StartLocked(c, "set", {k})
    <3>1. PICK k \in Keys : StartLocked(c, "set", {k})
      BY <2>4
    <3>2. {k} \in SUBSET Keys /\ {k} # {} /\ "set" \in WriteKinds
      BY Zenon DEF WriteKinds
    <3> QED BY <1>3, <2>1, <3>1, <3>2, StartLog
  <2>5. CASE \E kind \in {"batch", "exec"} : StartLocked(c, kind, Keys)
    <3>1. PICK kind \in {"batch", "exec"} : StartLocked(c, kind, Keys)
      BY <2>5
    <3>2. Keys \in SUBSET Keys /\ Keys # {} /\ kind \in WriteKinds
      BY Zenon, AofAssumption DEF WriteKinds
    <3> QED BY <1>3, <2>1, <3>1, <3>2, StartLog
  <2>6. CASE ApplyOne(c) \/ AbortAtomic(c) \/ FinishWrite(c)
    BY Zenon, <1>3, <2>1, <2>6, MoveLog
  <2>7. CASE AppendEncoded(c)
    BY ZenonT(40), <1>3, <2>1, <2>7, RefusedLog, QueuedLog
  <2>8. CASE AppendDirect(c)
    BY <1>3, <2>1, <2>8, DirectLog
  <2> QED BY ZenonT(40), <2>2, <2>3, <2>4, <2>5, <2>6, <2>7, <2>8
<1>4. CASE conf' = conf /\ SyncLoop
  <2>1. TypeOK'
    BY <1>1, <1>4, SyncLoopTyped
  <2> QED BY <1>4, <2>1, TickLog, DrainLog DEF SyncLoop
<1>5. CASE conf' = conf /\ Admin
  <2>1. TypeOK'
    BY Zenon, <1>1, <1>5, AdminTyped
  <2> QED BY Zenon, <1>5, <2>1, PolicyLog
<1>6. CASE conf' = conf /\ Jobs
  <2>1. TypeOK' /\ orphan' = FALSE
    BY Zenon, <1>1, <1>6, JobsTyped
  <2> QED BY Zenon, <1>1, <1>6, <2>1, JobsLog
<1>7. mem \in Images /\ snap \in Images
  BY Zenon, <1>1 DEF TypeOK
<1>8. CASE conf' = conf /\ Crash
  BY Zenon, <1>1, <1>7, <1>8, CrashForms, RestartLog
<1>9. CASE conf' = conf /\ Stop
  <2>1. /\ count' \in [Bounded -> Nat]
        /\ \E n \in file.synced .. Len(file.frames), img \in {snap, mem} :
                \E s \in {file.synced, n} : Restarted(img, SubSeq(file.frames, 1, n), s)
    BY Zenon, <1>1, <1>9, StopForms
  <2>2. PICK n \in file.synced .. Len(file.frames), img \in {snap, mem} :
                \E s \in {file.synced, n} : Restarted(img, SubSeq(file.frames, 1, n), s)
    BY Zenon, <2>1
  <2>3. img \in Images
    BY Zenon, <1>7
  <2> QED BY Zenon, <1>9, <2>1, <2>2, <2>3, RestartLog
<1> QED BY <1>2, <1>3, <1>4, <1>5, <1>6, <1>8, <1>9 DEF Next

\* In every state of the invariant, whatever a crash leaves holds what was promised.
LEMMA DurableSuffices == LogInv => Durable
<1> SUFFICES ASSUME LogInv PROVE Durable
  BY Zenon
<1> DEFINE F == file.frames
           R == Reach(F, file.synced)
<1>1. TypeOK /\ LogInOrder /\ ~orphan
  BY ZenonT(40) DEF LogInv, LogInOrder
<1>2. F \in Seq(Frames) /\ Len(F) \in Nat /\ file.synced \in Nat /\ file.flushed \in Nat
      /\ file.synced <= file.flushed /\ file.flushed <= Len(F) /\ R \in Nat
  BY Zenon, <1>1, FileFacts
<1>3. ASSUME NEW frames \in CrashFiles PROVE LastCommit(frames) >= R /\ LastCommit(frames) \in Nat
  <2>1. PICK n \in file.synced .. file.flushed : frames = SubSeq(F, 1, n)
    <3>1. frames \in Prefixes(file.flushed) \cup Prefixes(file.synced)
      BY Zenon, <1>1, <1>3 DEF CrashFiles, ProcessCrash, PowerCrash
    <3>2. \A n \in file.flushed .. file.flushed : n \in file.synced .. file.flushed
      BY <1>2
    <3> HIDE DEF F
    <3> QED BY Zenon, <3>1, <3>2 DEF Prefixes, F
  <2>2. n \in 0 .. Len(F) /\ file.synced \in 0 .. Len(F) /\ n \in file.synced .. Len(F)
    BY <1>2
  <2>3. LastCommit(frames) = Reach(F, n) /\ Reach(F, n) \in Nat
    BY Zenon, <1>1, <2>1, <2>2, FileFacts
  <2>4. R <= Reach(F, n)
    BY Zenon, <1>2, <2>2, ReachFacts
  <2> QED BY Zenon, <1>2, <2>3, <2>4
<1>4. /\ floor <= R /\ floor \in Nat
      /\ \A i \in DOMAIN commits : commits[i].seq \in 1 .. seq.synced => i <= R
      /\ policy = "always" /\ ~failed /\ queue = <<>> => seq.synced = seq.appended
  BY Zenon DEF LogInv, SyncedReached, TypeOK
<1>5. AlwaysDurable
  BY <1>2, <1>3, <1>4 DEF AlwaysDurable
<1>6. SyncedIsDurable
  <2>1. ASSUME NEW frames \in CrashFiles, NEW i \in DOMAIN commits, commits[i].seq \in 1 .. seq.synced
        PROVE  i <= LastCommit(frames)
    <3>1. i <= R /\ i \in Nat
      BY <1>4, <2>1, LogFacts
    <3> QED BY <1>2, <1>3, <3>1
  <2> QED BY Zenon, <2>1 DEF SyncedIsDurable
<1> QED BY Zenon, <1>4, <1>5, <1>6 DEF Durable, PolicySwitchSyncs

\* The keyspace after n commits, key by key.
LEMMA ValueOfAfter ==
    ASSUME IndexFacts, commits \in Seq(Commits), NEW n \in 0 .. Len(commits), NEW k \in Keys
    PROVE  After(n)[k] = Value(commits, n, {}, k)
<1> DEFINE P == SubSeq(commits, 1, n)
           T == {i \in DOMAIN P : P[i].recs[k] # None}
<1>1. n \in Nat /\ Len(commits) \in Nat
  OBVIOUS
<1>2. DOMAIN P = 1 .. n /\ \A i \in 1 .. n : P[i] = commits[i]
  BY <1>1
<1>3. T = Live(commits, n, {}, k)
  BY Zenon, <1>2 DEF Live
<1>4. After(n)[k] = IF T = {} THEN Empty[k] ELSE P[Max(T)].recs[k]
  BY Zenon DEF After, Replay
<1>5. Empty[k] = 0
  BY Zenon DEF Empty
<1> HIDE DEF P, T
<1>6. T # {} => P[Max(T)] = commits[Max(T)]
  BY Zenon, <1>1, <1>2, <1>3, LiveMax
<1> QED BY ZenonT(40), <1>3, <1>4, <1>5, <1>6 DEF Value

\* The keyspace the commits make but for some of them, key by key.
LEMMA ValueOfWithout ==
    ASSUME IndexFacts, commits \in Seq(Commits), NEW lost, NEW k \in Keys
    PROVE  Without(lost)[k] = Value(commits, Len(commits), lost, k)
<1> DEFINE N == Len(commits)
           P == [i \in DOMAIN commits |->
                   IF i \in lost THEN [commits[i] EXCEPT !.recs = NoRecs] ELSE commits[i]]
           T == {i \in DOMAIN P : P[i].recs[k] # None}
<1>1. N \in Nat /\ DOMAIN commits = 1 .. N
  OBVIOUS
<1>2. DOMAIN P = 1 .. N
  BY Zenon, <1>1
<1>3. ASSUME NEW i \in 1 .. N
      PROVE  P[i].recs[k] = IF i \in lost THEN None ELSE commits[i].recs[k]
  <2>1. commits[i] \in Commits
    BY <1>1
  <2>2. CASE i \in lost
    <3>1. P[i] = [commits[i] EXCEPT !.recs = NoRecs]
      BY Zenon, <1>1, <2>2
    <3>2. P[i].recs = NoRecs
      BY <2>1, <3>1 DEF Commits
    <3> HIDE DEF P
    <3> QED BY Zenon, <2>2, <3>2 DEF NoRecs
  <2>3. CASE i \notin lost
    BY Zenon, <1>1, <2>3
  <2> QED BY Zenon, <2>2, <2>3
<1>4. Without(lost)[k] = IF T = {} THEN Empty[k] ELSE P[Max(T)].recs[k]
  BY Zenon DEF Without, Replay
<1>5. Empty[k] = 0
  BY Zenon DEF Empty
<1> HIDE DEF P, T
<1>6. T = Live(commits, N, lost, k)
  BY Zenon, <1>2, <1>3 DEF Live, T
<1>7. T # {} => P[Max(T)].recs[k] = commits[Max(T)].recs[k]
  <2>1. T # {} => Max(T) \in T /\ Max(T) \in 1 .. N
    BY Zenon, <1>1, <1>6, LiveMax
  <2>2. T # {} => Max(T) \notin lost
    BY Zenon, <1>6, <2>1 DEF Live
  <2> QED BY Zenon, <1>3, <2>1, <2>2
<1> QED BY Zenon, <1>4, <1>5, <1>6, <1>7 DEF Value

\* An empty log holds an empty keyspace.
LEMMA InitContent ==
    ASSUME SnapshotsFollow, Init
    PROVE  ContentInv
<1>1. /\ mem = Empty /\ client = [c \in Clients |-> Idle] /\ policy = Policy0 /\ failed = FALSE
      /\ queue = <<>> /\ file = [frames |-> <<>>, flushed |-> 0, synced |-> 0]
      /\ rewrite = NoJob /\ save = NoSave /\ saveDue = FALSE /\ snap = Empty
      /\ commits = <<>> /\ undone = {} /\ conf \in Deployments
  BY Zenon DEF Init
<1>2. \A c \in Clients : client[c].idx = 0 /\ ~Busy(c)
  BY Zenon, <1>1 DEF Idle, Busy
<1>3. file.frames = <<>> /\ file.synced = 0 /\ rewrite.phase = "idle" /\ save.phase = "idle"
  BY Zenon, <1>1 DEF NoJob, NoSave
<1>4. FileHolds /\ QueueHolds
  BY <1>1, <1>3 DEF FileHolds, QueueHolds
<1>5. RewriteHolds /\ JobsExclusive
  BY Zenon, <1>3 DEF RewriteHolds, RewriteActive, JobsExclusive, Running
<1>6. CommitsOwned
  BY <1>1, <1>2 DEF CommitsOwned
<1>7. MemoryExplained
  <2>1. ASSUME NEW k \in Keys PROVE mem[k] = Value(commits, Len(commits), undone, k)
    <3>1. Len(commits) = 0
      BY Zenon, <1>1
    <3>2. Live(commits, Len(commits), undone, k) = {}
      BY <3>1 DEF Live
    <3> QED BY Zenon, <1>1, <3>2 DEF Value, Empty
  <2> QED BY Zenon, <1>2, <2>1 DEF MemoryExplained
<1>8. SnapshotsCovered
  <2>1. Saves # {} => policy = "always"
    BY Zenon, <1>1 DEF SnapshotsFollow, Saves, Policy0
  <2>2. \A k \in Keys : mem[k] = 0 /\ snap[k] = 0 /\ save.img[k] = 0
    BY Zenon, <1>1 DEF NoSave, Empty
  <2>3. file.synced = Len(file.frames)
    BY <1>3
  <2> QED BY <1>1, <1>2, <1>3, <2>1, <2>2, <2>3 DEF SnapshotsCovered
<1> QED BY <1>4, <1>5, <1>6, <1>7, <1>8 DEF ContentInv

\* Every step keeps the invariant.
LEMMA ContentStep ==
    ASSUME IndexFacts, NoOrphans, SnapshotsFollow, IInv, [Next]_vars
    PROVE  IInv'
<1>1. LogInv /\ ContentInv /\ LogInv' /\ ~DirFails
  <2>1. LogInv /\ ContentInv
    BY Zenon DEF IInv
  <2>2. LogInv'
    BY Zenon, <2>1, LogStep
  <2> QED BY <2>1, <2>2 DEF LogInv, NoOrphans, TypeOK, DirFails
<1> SUFFICES ContentInv'
  BY Zenon, <1>1 DEF IInv
<1>2. CASE UNCHANGED vars
  <2>1. UNCHANGED <<conf, mem, client, policy, failed, queue, file, rewrite, save, saveDue, snap,
                    commits, undone>>
    BY Zenon, <1>2 DEF vars, state, logVars, jobVars, history
  <2>2. SnapshotsCovered'
    <3>1. Saves' = Saves /\ (\A c \in Clients : Busy(c)' = Busy(c)) /\ \A k \in Keys : Touched(k)' = Touched(k)
      BY Zenon, <2>1 DEF Saves, Busy, Touched
    <3> QED BY ZenonT(40), <1>1, <2>1, <3>1 DEF ContentInv, SnapshotsCovered
  <2>3. FileHolds' /\ QueueHolds' /\ RewriteHolds' /\ JobsExclusive'
    BY Zenon, <1>1, <2>1, LogUntouched
  <2>4. CommitsOwned' /\ MemoryExplained'
    BY Zenon, <1>1, <2>1, CalmContent
  <2> QED BY Zenon, <2>2, <2>3, <2>4 DEF ContentInv
<1>3. CASE conf' = conf /\ Writers
  <2>1. PICK c \in Clients :
           \/ \E k \in Keys : StartFast(c, k)
           \/ \E k \in Keys : StartLocked(c, "set", {k})
           \/ \E kind \in {"batch", "exec"} : StartLocked(c, kind, Keys)
           \/ ApplyOne(c) \/ AbortAtomic(c) \/ AppendEncoded(c) \/ AppendDirect(c) \/ FinishWrite(c)
    BY <1>3 DEF Writers
  <2>2. CASE \E k \in Keys : StartFast(c, k)
    <3>1. PICK k \in Keys : StartFast(c, k)
      BY <2>2
    <3>2. {k} \in SUBSET Keys /\ {k} # {} /\ "fast" \in WriteKinds
      BY Zenon DEF WriteKinds
    <3> QED BY Zenon, <1>1, <1>3, <3>1, <3>2, StartContent
  <2>3. CASE \E k \in Keys : StartLocked(c, "set", {k})
    <3>1. PICK k \in Keys : StartLocked(c, "set", {k})
      BY Zenon, <2>3
    <3>2. {k} \in SUBSET Keys /\ {k} # {} /\ "set" \in WriteKinds
      BY Zenon DEF WriteKinds
    <3> QED BY Zenon, <1>1, <1>3, <3>1, <3>2, StartContent
  <2>4. CASE \E kind \in {"batch", "exec"} : StartLocked(c, kind, Keys)
    <3>1. PICK kind \in {"batch", "exec"} : StartLocked(c, kind, Keys)
      BY Zenon, <2>4
    <3>2. Keys \in SUBSET Keys /\ Keys # {} /\ kind \in WriteKinds
      BY Zenon, AofAssumption DEF WriteKinds
    <3> QED BY Zenon, <1>1, <1>3, <3>1, <3>2, StartContent
  <2>5. CASE ApplyOne(c) \/ AbortAtomic(c)
    BY Zenon, <1>1, <1>3, <2>5, ApplyContent
  <2>6. CASE AppendEncoded(c)
    BY Zenon, <1>1, <1>3, <2>6, RefusedContent, QueuedContent
  <2>7. CASE AppendDirect(c)
    BY Zenon, <1>1, <1>3, <2>7, DirectContent
  <2>8. CASE FinishWrite(c)
    BY Zenon, <1>1, <1>3, <2>8, FinishContent
  <2> QED BY <2>1, <2>2, <2>3, <2>4, <2>5, <2>6, <2>7, <2>8
<1>4. CASE conf' = conf /\ SyncLoop
  BY Zenon, <1>1, <1>4, TickContent, DrainContent DEF SyncLoop
<1>5. CASE conf' = conf /\ Admin
  BY Zenon, <1>1, <1>5, PolicyContent
<1>6. CASE conf' = conf /\ Jobs
  BY Zenon, <1>1, <1>6, JobsContent
<1>7. CASE conf' = conf /\ Crash
  BY <1>1, <1>7, CrashContent
<1>8. CASE conf' = conf /\ Stop
  BY Zenon, <1>1, <1>8, StopContent
<1> QED BY <1>2, <1>3, <1>4, <1>5, <1>6, <1>7, <1>8 DEF Next

\* The invariant makes recovery the replay of a prefix.
LEMMA RecoverySuffices ==
    ASSUME IndexFacts
    PROVE  IInv => RecoverySound
<1> SUFFICES ASSUME IInv, NEW frames \in CrashFiles
             PROVE  Replay(snap, frames) = After(LastCommit(frames))
  BY Zenon DEF RecoverySound
<1>1. LogInv /\ ContentInv /\ TypeOK /\ LogInOrder /\ ~orphan /\ FileHolds
  BY DEF IInv, LogInv, LogInOrder, ContentInv
<1>2. /\ Len(file.frames) \in Nat /\ file.synced \in Nat /\ file.flushed \in Nat
      /\ file.synced <= file.flushed /\ file.flushed <= Len(file.frames)
      /\ commits \in Seq(Commits) /\ Written \in Nat /\ Written <= Len(commits) /\ Len(commits) \in Nat
  BY Zenon, <1>1, FileFacts
<1>3. PICK n \in file.synced .. file.flushed : frames = SubSeq(file.frames, 1, n)
  <2>1. frames \in Prefixes(file.flushed) \cup Prefixes(file.synced)
    BY <1>1 DEF CrashFiles, ProcessCrash, PowerCrash
  <2>2. \A n \in file.flushed .. file.flushed : n \in file.synced .. file.flushed
    BY <1>2
  <2> QED BY Zenon, <2>1, <2>2 DEF Prefixes
<1>4. n \in file.synced .. Len(file.frames) /\ n \in 0 .. Len(file.frames)
  BY <1>2
<1> DEFINE R == Reach(file.frames, n)
<1>5. LastCommit(frames) = R /\ R \in 0 .. Len(commits)
  <2>1. LastCommit(frames) = R /\ R \in Nat /\ R <= Written
    BY Zenon, <1>1, <1>3, <1>4, FileFacts
  <2> QED BY <1>2, <2>1
<1>6. ASSUME NEW k \in Keys PROVE Replay(snap, frames)[k] = After(R)[k]
  <2>1. snap[k] # 0 => Touched(k)
    BY Zenon, <1>1 DEF ContentInv, SnapshotsCovered, Empty
  <2>2. Replay(snap, frames)[k] = Value(commits, R, {}, k)
    BY ZenonT(40), <1>1, <1>3, <1>4, <2>1, Recovered
  <2>3. After(R)[k] = Value(commits, R, {}, k)
    BY Zenon, <1>2, <1>5, ValueOfAfter
  <2> QED BY Zenon, <2>2, <2>3
<1>7. \A img, fs : Replay(img, fs) = [k \in Keys |-> Replay(img, fs)[k]]
  BY Zenon DEF Replay
<1>8. After(R) = [k \in Keys |-> After(R)[k]]
  BY Zenon, <1>7 DEF After
<1> HIDE DEF R
<1> QED BY <1>5, <1>6, <1>7, <1>8

\* The invariant explains memory.
LEMMA MemorySuffices ==
    ASSUME IndexFacts
    PROVE  IInv => MemorySound
<1> SUFFICES ASSUME IInv, \A c \in Clients : ~Busy(c)
             PROVE  mem = Without(undone)
  BY Zenon DEF MemorySound, MemoryMatchesLog
<1>1. LogInv /\ ContentInv /\ mem \in Images /\ commits \in Seq(Commits)
  BY LogFacts DEF IInv, LogInv, TypeOK
<1>2. \A k \in Keys : mem[k] = Without(undone)[k]
  BY Zenon, <1>1, ValueOfWithout DEF ContentInv, MemoryExplained
<1>3. Without(undone) = [k \in Keys |-> Without(undone)[k]]
  <2>1. \A img, fs : Replay(img, fs) = [k \in Keys |-> Replay(img, fs)[k]]
    BY Zenon DEF Replay
  <2> QED BY Zenon, <2>1 DEF Without
<1>4. mem = [k \in Keys |-> mem[k]]
  BY Zenon, <1>1 DEF Images
<1> QED BY Zenon, <1>2, <1>3, <1>4

\* A step leaves the jobs apart, and a graceful stop leaves memory as it was.
LEMMA JobsStep ==
    ASSUME IndexFacts, NoOrphans, SnapshotsFollow
    PROVE  IInv /\ [Next]_vars => [JobsExclusive' /\ (Stop /\ ~failed => mem' = mem)]_vars
<1> SUFFICES ASSUME IInv, [Next]_vars, ~UNCHANGED vars
             PROVE  JobsExclusive' /\ (Stop /\ ~failed => mem' = mem)
  BY Zenon
<1>1. IInv' /\ LogInv' /\ JobsExclusive'
  BY Zenon, ContentStep DEF IInv, ContentInv
<1>2. conf' = conf
  BY Zenon DEF Next
<1> QED BY Zenon, <1>1, <1>2, StopContent

INSTANCE FiniteSetTheorems

\* What the lemmas took from the theory of finite sets.
LEMMA IndexFactsHold == IndexFacts
<1>1. ASSUME NEW n \in Nat, NEW S \in SUBSET (1 .. n), S # {}
      PROVE  Max(S) \in S /\ \A y \in S : y <= Max(S)
  <2> DEFINE T == {n - x : x \in S}
             Less == OpToRel(<, Nat)
  <2>0. \A x \in S : x \in 1 .. n /\ n - x \in T
    OBVIOUS
  <2>1. T \subseteq Nat /\ T # {}
    <3>1. \A m \in T : \E x \in S : m = n - x
      BY Zenon
    <3>2. T # {}
      <4>1. PICK x \in S : TRUE
        BY ZenonT(40), <1>1
      <4> QED BY <2>0, <4>1
    <3> HIDE DEF T
    <3>3. \A m \in T : m \in Nat
      BY <2>0, <3>1
    <3> QED BY ZenonT(40), <3>2, <3>3
  <2>2. IsWellFoundedOn(Less, Nat)
    BY ZenonT(40), NatLessThanWellFounded
  <2>3. PICK m \in T : \A y \in T : <<y, m>> \notin Less
    <3> HIDE DEF T, Less
    <3> QED BY ZenonT(40), <2>1, <2>2, WFMin
  <2>4. PICK x \in S : m = n - x
    BY ZenonT(40), <2>3
  <2>5. \A y \in S : x >= y
    <3> SUFFICES ASSUME NEW y \in S, y > x PROVE FALSE
      BY <2>0
    <3> HIDE DEF T
    <3>1. n - y \in T /\ n - y < m /\ n - y \in Nat /\ m \in Nat
      BY <2>0, <2>4
    <3> QED BY ZenonT(40), <2>3, <3>1 DEF OpToRel
  <2> QED BY Zenon, <2>5 DEF Max
<1>2. ASSUME NEW S \in SUBSET Keys
      PROVE  Cardinality(S) \in Nat /\ (S # {} => Cardinality(S) # 0)
  <2>1. IsFiniteSet(S)
    BY <1>2, AofAssumption, FS_Subset
  <2> QED BY ZenonT(40), <2>1, FS_CardinalityType, FS_EmptySet
<1> QED BY ZenonT(40), <1>1, <1>2 DEF IndexFacts

\* The log invariant: for any number of clients and keys, any deployment whose
\* directory syncs work and any number of crashes, the file holds the commits
\* without a gap, a healthy log has the others in its queue in order, and
\* everything acknowledged under "always" or covered by syncedSeq is synced.
THEOREM LogInvariant ==
    ASSUME NoOrphans
    PROVE  Spec => []LogInv
<1>1. Init => LogInv
  BY Zenon, InitLog
<1>2. LogInv /\ [Next]_vars => LogInv'
  BY IndexFactsHold, LogStep
<1> QED BY <1>1, <1>2, PTL DEF Spec

\* What clients were promised is on disk (the property Durable): whatever a
\* crash leaves of the AOF, it reaches the last write acknowledged under
\* "always" and every commit syncedSeq covers; a switch to "always" has synced.
THEOREM DurableAlways ==
    ASSUME NoOrphans
    PROVE  Spec => []Durable
BY LogInvariant, DurableSuffices, PTL

\* What the log holds and what memory holds (the invariant of MemorySound): in
\* deployments whose directory syncs work and whose snapshots follow the log,
\* frames, queue and rewrite buffer hold the records of their commits, memory
\* is what the commits make of it but for the writes in execution, and no
\* snapshot holds a key the synced AOF lacks.
THEOREM ContentInvariant ==
    ASSUME NoOrphans, SnapshotsFollow
    PROVE  Spec => []IInv
<1>1. Init => IInv
  BY ZenonT(40), InitLog, InitContent DEF IInv
<1>2. IInv /\ [Next]_vars => IInv'
  BY IndexFactsHold, ContentStep
<1> QED BY <1>1, <1>2, PTL DEF Spec

\* Recovery is the replay of a prefix (the property RecoverySound): whatever a
\* crash leaves of the AOF, loading the snapshot and replaying the file over it
\* gives the keyspace after the commits the file reaches, whatever rewrites,
\* torn tails, failed appends and earlier restarts came before.
THEOREM RecoveryAlways ==
    ASSUME NoOrphans, SnapshotsFollow
    PROVE  Spec => []RecoverySound
<1>1. IInv => RecoverySound
  BY ZenonT(40), IndexFactsHold, RecoverySuffices
<1> QED BY <1>1, ContentInvariant, PTL

\* Memory agrees with the log (the property MemorySound): with no write in
\* execution, memory is what the commits make of it, except those whose client
\* was told that the append failed.
THEOREM MemoryAlways ==
    ASSUME NoOrphans, SnapshotsFollow
    PROVE  Spec => []MemorySound
<1>1. IInv => MemorySound
  BY IndexFactsHold, MemorySuffices
<1> QED BY <1>1, ContentInvariant, PTL

\* Jobs and a graceful stop (the property JobsSafe): after every step a rewrite
\* and a save do not both run, and a stop and restart of a healthy log leaves
\* memory as it was, with or without the snapshot that the stop writes.
THEOREM JobsAlways ==
    ASSUME NoOrphans, SnapshotsFollow
    PROVE  Spec => JobsSafe
<1>1. IInv /\ [Next]_vars => [JobsExclusive' /\ (Stop /\ ~failed => mem' = mem)]_vars
  BY Zenon, IndexFactsHold, JobsStep
<1> QED BY <1>1, ContentInvariant, PTL DEF Spec, JobsSafe
=============================================================================
