--------------------------- MODULE AofJobsProofs ----------------------------
(***************************************************************************)
(* The background jobs, a crash and a graceful stop keep the inductive     *)
(* invariant.                                                              *)
(***************************************************************************)
EXTENDS AofFacts, AofJobs

\* Replaying keeps, for each key, the last record or the image's value.
LEMMA Replayed ==
    ASSUME IndexFacts, NEW n \in Nat, NEW F, DOMAIN F = 1 .. n, NEW img, NEW k \in Keys
    PROVE  \/ /\ \A i \in 1 .. n : F[i].recs[k] = None
              /\ Replay(img, F)[k] = img[k]
           \/ \E i \in 1 .. n :
                 /\ F[i].recs[k] # None
                 /\ \A j \in i + 1 .. n : F[j].recs[k] = None
                 /\ Replay(img, F)[k] = F[i].recs[k]
<1> DEFINE S == {i \in DOMAIN F : F[i].recs[k] # None}
<1>1. Replay(img, F)[k] = IF S = {} THEN img[k] ELSE F[Max(S)].recs[k]
  BY Zenon DEF Replay
<1>2. CASE S = {}
  BY <1>1, <1>2
<1>3. CASE S # {}
  <2>1. S \in SUBSET (1 .. n)
    OBVIOUS
  <2>2. Max(S) \in S /\ \A y \in S : y <= Max(S)
    <3> HIDE DEF S
    <3> QED BY ZenonT(40), <1>3, <2>1, MaxExists
  <2>3. Replay(img, F)[k] = F[Max(S)].recs[k]
    BY Zenon, <1>1, <1>3
  <2> DEFINE m == Max(S)
  <2>4. m \in 1 .. n /\ F[m].recs[k] # None /\ \A y \in S : y <= m
    BY <2>2
  <2>5. Replay(img, F)[k] = F[m].recs[k]
    BY <2>3
  <2> HIDE DEF m
  <2>6. \A j \in m + 1 .. n : F[j].recs[k] = None
    BY <2>4
  <2> QED BY <2>4, <2>5, <2>6
<1> QED BY <1>2, <1>3

\* A replay over an image yields an image.
LEMMA ReplayTyped ==
    ASSUME IndexFacts, NEW img \in Images, NEW F \in Seq(Frames)
    PROVE  Replay(img, F) \in Images
<1>1. DOMAIN F = 1 .. Len(F) /\ Len(F) \in Nat /\ \A i \in 1 .. Len(F) : F[i] \in Frames
  OBVIOUS
<1>2. ASSUME NEW k \in Keys PROVE Replay(img, F)[k] \in Nat
  <2>1. \A i \in 1 .. Len(F) : F[i].recs[k] # None => F[i].recs[k] \in Nat
    BY Zenon, <1>1 DEF Frames, Recs
  <2> QED BY <1>1, <2>1, Replayed DEF Images
<1> QED BY Zenon, <1>2 DEF Replay, Images

\* The jobs keep the state well typed and, where directory syncs work, no
\* orphan.
LEMMA JobsTyped ==
    ASSUME TypeOK, conf' = conf, ~orphan, ~DirFails, Jobs
    PROVE  TypeOK' /\ orphan' = FALSE
<1>0. /\ mem \in Images /\ snap \in Images /\ rewrite \in Rewrites /\ save \in SaveStates
      /\ seq \in Seqs /\ file \in Files /\ Len(commits) \in Nat /\ count \in [Bounded -> Nat]
      /\ failed \in BOOLEAN /\ orphan = FALSE
  BY DEF TypeOK
<1>1. NewFile \in Seq(Frames) /\ Len(NewFile) \in Nat
  <2>1. rewrite.img \in Recs /\ rewrite.idx \in Nat /\ rewrite.buffer \in Seq(Frames)
    BY Zenon, <1>0 DEF Rewrites, Images, Recs
  <2>2. <<[recs |-> rewrite.img, idx |-> rewrite.idx]>> \in Seq(Frames)
    BY <2>1 DEF Frames
  <2> QED BY <2>1, <2>2, ConcatProperties DEF NewFile
<1>2. /\ [NoJob EXCEPT !.phase = "begin"] \in Rewrites
      /\ [rewrite EXCEPT !.phase = "install"] \in Rewrites
      /\ [phase |-> "temp", img |-> mem, buffer |-> <<>>, idx |-> Len(commits)] \in Rewrites
      /\ NoJob \in Rewrites
  BY <1>0, Constructed DEF Rewrites
<1>3. /\ NoSave \in SaveStates /\ [NoSave EXCEPT !.phase = "export"] \in SaveStates
      /\ [NoSave EXCEPT !.phase = "handoff"] \in SaveStates
      /\ [phase |-> "write", img |-> mem] \in SaveStates
      /\ save.img \in Images
  BY Zenon, <1>0, Constructed DEF SaveStates
<1>4. RewriteEnds => rewrite' \in Rewrites /\ save' \in SaveStates /\ saveDue' \in BOOLEAN
  BY Zenon, <1>0, <1>2, <1>3 DEF RewriteEnds
<1>5. /\ [count EXCEPT !["rewrite"] = @ + 1] \in [Bounded -> Nat]
      /\ [count EXCEPT !["save"] = @ + 1] \in [Bounded -> Nat]
  BY <1>0 DEF Bounded
<1>6. CASE BGRewriteAOF
  BY Zenon, <1>0, <1>2, <1>5, <1>6 DEF TypeOK, BGRewriteAOF, Bump, history, Policies
<1>7. CASE BeginRewrite
  BY Zenon, <1>0, <1>2, <1>7 DEF TypeOK, BeginRewrite, history, Policies
<1>8. CASE FinishRewrite
  BY Zenon, <1>0, <1>2, <1>4, <1>8 DEF TypeOK, FinishRewrite, history, Policies
<1>9. CASE Install
  <2>1. RewriteEnds /\ enq' = None
        /\ UNCHANGED <<mem, client, unavail, policy, failed, queue, rewriteDue, snap, config,
                       count, history>>
    BY Zenon, <1>9 DEF Install
  <2>2. CASE UNCHANGED <<seq, file, orphan, installed>>
    BY Zenon, <1>0, <1>4, <2>1, <2>2 DEF TypeOK, history, Policies
  <2>3. CASE /\ file' = [frames |-> NewFile, flushed |-> Len(NewFile), synced |-> Len(NewFile)]
             /\ orphan' = FALSE /\ installed' = <<>>
             /\ seq' = [seq EXCEPT !.written = seq.appended, !.synced = seq.appended]
    <3>1. file' \in Files /\ file'.synced <= file'.flushed /\ file'.flushed <= Len(file'.frames)
      BY <1>1, <2>3 DEF Files
    <3>2. seq' \in Seqs
      BY Zenon, <1>0, <2>3 DEF Seqs
    <3>3. installed' \in Seq(Frames)
      BY <2>3
    <3> QED BY ZenonT(40), <1>4, <2>1, <2>3, <3>1, <3>2, <3>3 DEF TypeOK, history, Policies
  <2> QED BY Zenon, <1>9, <2>2, <2>3 DEF Install
<1>10. CASE BGSave
  BY ZenonT(40), <1>0, <1>3, <1>5, <1>10 DEF TypeOK, BGSave, Bump, logVars, history, Policies
<1>11. CASE PeriodicSave
  BY Zenon, <1>0, <1>3, <1>5, <1>11 DEF TypeOK, PeriodicSave, Bump, logVars, history, Policies
<1>12. CASE ExportAll
  BY ZenonT(40), <1>0, <1>3, <1>12 DEF TypeOK, ExportAll, logVars, history, Policies
<1>13. CASE SnapshotRecords
  BY ZenonT(40), <1>0, <1>3, <1>13 DEF TypeOK, SnapshotRecords, logVars, history, Policies
<1>14. CASE SaveHandoff
  BY Zenon, <1>0, <1>2, <1>3, <1>14 DEF TypeOK, SaveHandoff, history, Policies
<1> QED BY Zenon, <1>6, <1>7, <1>8, <1>9, <1>10, <1>11, <1>12, <1>13, <1>14 DEF Jobs

\* A restart after a crash finds the snapshot, and the file up to some frame
\* that is synced or later.
LEMMA CrashForms ==
    ASSUME TypeOK, LogInOrder, Crash
    PROVE  /\ count' \in [Bounded -> Nat]
           /\ \E n \in file.synced .. Len(file.frames) : \E s \in {file.synced, n} :
                 Restarted(snap, SubSeq(file.frames, 1, n), s)
<1>1. count' \in [Bounded -> Nat]
  BY DEF Crash, Bump, TypeOK, Bounded
<1>2. ~orphan
  BY Zenon DEF LogInOrder
<1>3. ASSUME NEW frames \in ProcessCrash, Restarted(snap, frames, file.synced)
      PROVE  \E n \in file.synced .. Len(file.frames) : \E s \in {file.synced, n} :
                 Restarted(snap, SubSeq(file.frames, 1, n), s)
  <2>1. frames = SubSeq(file.frames, 1, file.flushed)
    BY <1>2, FileFacts DEF ProcessCrash, Prefixes
  <2>2. file.flushed \in file.synced .. Len(file.frames)
    BY FileFacts
  <2> QED BY <1>3, <2>1, <2>2
<1>4. ASSUME NEW frames \in PowerCrash, Restarted(snap, frames, Len(frames))
      PROVE  \E n \in file.synced .. Len(file.frames) : \E s \in {file.synced, n} :
                 Restarted(snap, SubSeq(file.frames, 1, n), s)
  <2>1. PICK n \in file.synced .. file.flushed : frames = SubSeq(file.frames, 1, n)
    BY Zenon, <1>2 DEF PowerCrash, Prefixes
  <2>2. n \in file.synced .. Len(file.frames) /\ n \in 0 .. Len(file.frames)
    BY FileFacts
  <2>3. Len(frames) = n
    BY Zenon, <2>1, <2>2, FileFacts, PrefixParts
  <2> QED BY Zenon, <1>4, <2>1, <2>2, <2>3
<1> QED BY Zenon, <1>1, <1>2, <1>3, <1>4 DEF Crash

\* A graceful stop leaves a healthy log complete, and may save the memory.
LEMMA StopForms ==
    ASSUME TypeOK, LogInOrder, Stop
    PROVE  /\ count' \in [Bounded -> Nat]
           /\ \E n \in file.synced .. Len(file.frames), img \in {snap, mem} :
                \E s \in {file.synced, n} :
                 /\ Restarted(img, SubSeq(file.frames, 1, n), s)
                 /\ Saves = {} => img = snap
                 /\ ~failed => n = Len(file.frames)
<1>1. count' \in [Bounded -> Nat]
  BY DEF Stop, Bump, TypeOK, Bounded
<1>2. ~orphan
  BY DEF LogInOrder
<1>3. PICK frames \in Closed, img \in IF "stop" \in Saves THEN {snap, mem} ELSE {snap} :
          Restarted(img, frames, IF failed /\ ~orphan THEN file.synced ELSE Len(frames))
  BY Zenon DEF Stop
<1>4. img \in {snap, mem} /\ (Saves = {} => img = snap)
  BY <1>3
<1>5. CASE failed
  <2>1. frames = SubSeq(file.frames, 1, file.flushed)
    BY <1>2, <1>5, FileFacts DEF Closed, Prefixes
  <2>2. file.flushed \in file.synced .. Len(file.frames)
    BY FileFacts
  <2>3. Restarted(img, SubSeq(file.frames, 1, file.flushed), file.synced)
    BY Zenon, <1>2, <1>3, <1>5, <2>1
  <2> QED BY Zenon, <1>1, <1>4, <1>5, <2>2, <2>3
<1>6. CASE ~failed
  <2>1. frames = SubSeq(file.frames, 1, Len(file.frames))
    BY Zenon, <1>2, <1>6, FileFacts, SubSeqFull DEF Closed
  <2>2. Len(file.frames) \in file.synced .. Len(file.frames)
    BY FileFacts
  <2>3. Len(frames) = Len(file.frames)
    BY <2>1, FileFacts, SubSeqFull
  <2>4. Restarted(img, SubSeq(file.frames, 1, Len(file.frames)), Len(file.frames))
    BY Zenon, <1>3, <1>6, <2>1, <2>3
  <2> QED BY Zenon, <1>1, <1>4, <2>2, <2>4
<1> QED BY Zenon, <1>5, <1>6

\* A restart on any prefix that holds the synced frames finds the log in
\* order.
LEMMA RestartLog ==
    ASSUME IndexFacts, LogInv, conf' = conf, count' \in [Bounded -> Nat],
           NEW n \in file.synced .. Len(file.frames), NEW s \in {file.synced, n},
           NEW img \in Images, Restarted(img, SubSeq(file.frames, 1, n), s)
    PROVE  LogInv'
<1> DEFINE F == file.frames
           P == SubSeq(F, 1, n)
           kept == Reach(F, n)
<1>1. TypeOK /\ LogInOrder
  BY Zenon DEF LogInv
<1>2. /\ F \in Seq(Frames) /\ n \in 0 .. Len(F) /\ n \in Nat /\ s \in Nat /\ s <= n
      /\ file.synced \in 0 .. n /\ commits \in Seq(Commits)
  BY <1>1, FileFacts
<1>3. LastCommit(P) = kept /\ kept \in Nat /\ kept <= Len(commits) /\ Len(commits) \in Nat
  <2>1. /\ LastCommit(P) = kept /\ kept \in Nat /\ kept <= Written /\ Written \in Nat
        /\ Written <= Len(commits) /\ Len(commits) \in Nat
    BY <1>1, <1>2, FileFacts
  <2> QED BY <2>1
<1>4. /\ P \in Seq(Frames) /\ Len(P) = n /\ DOMAIN P = 1 .. n
      /\ \A i \in 1 .. n : P[i] = F[i]
      /\ \A m \in 0 .. n : Reach(P, m) = Reach(F, m)
  BY <1>2, PrefixParts
<1> HIDE DEF P, kept
<1>5. /\ snap' = img /\ mem' = Replay(img, P)
      /\ client' = [c \in Clients |-> Idle]
      /\ unavail' = FALSE /\ policy' = Policy0 /\ failed' = FALSE
      /\ seq' = [appended |-> 0, written |-> 0, synced |-> 0]
      /\ queue' = <<>> /\ enq' = None
      /\ file' = [frames |-> P, flushed |-> Len(P), synced |-> s]
      /\ orphan' = FALSE /\ installed' = <<>>
      /\ rewrite' = NoJob /\ rewriteDue' = FALSE
      /\ save' = NoSave /\ saveDue' = FALSE
      /\ config' = None /\ undone' = {} /\ UNCHANGED floor
      /\ commits' = [i \in 1 .. LastCommit(P) |-> [commits[i] EXCEPT !.seq = 0]]
  BY Zenon DEF Restarted, P
<1>6. /\ commits' \in Seq(Commits) /\ Len(commits') = kept /\ DOMAIN commits' = 1 .. kept
      /\ \A i \in 1 .. kept : commits'[i].seq = 0
  <2>1. commits' = [i \in 1 .. kept |-> [commits[i] EXCEPT !.seq = 0]]
    BY <1>3, <1>5
  <2>2. \A i \in 1 .. kept : commits[i] \in Commits
    BY <1>2, <1>3
  <2>3. \A i \in 1 .. kept : [commits[i] EXCEPT !.seq = 0] \in Commits /\ [commits[i] EXCEPT !.seq = 0].seq = 0
    BY Zenon, <2>2 DEF Commits
  <2>4. commits' \in [1 .. kept -> Commits] /\ \A i \in 1 .. kept : commits'[i].seq = 0
    BY Zenon, <2>1, <2>3
  <2> QED BY <1>3, <2>4
<1>7. file'.frames = P /\ file'.flushed = n /\ file'.synced = s /\ file' \in Files
  BY Zenon, <1>2, <1>4, <1>5 DEF Files
<1>8. Written' = kept
  BY <1>2, <1>4, <1>7 DEF Written, kept
<1>9. TypeOK'
  <2>1. mem' \in Images /\ snap' \in Images
    BY Zenon, <1>4, <1>5, ReplayTyped
  <2>2. client' \in [Clients -> WriteStates] /\ rewrite' \in Rewrites /\ save' \in SaveStates
    BY <1>5, Constructed
  <2>3. seq' \in Seqs
    BY Zenon, <1>5 DEF Seqs
  <2>4. file'.synced <= file'.flushed /\ file'.flushed <= Len(file'.frames)
    BY <1>2, <1>4, <1>7
  <2>5. policy' \in {"always", "everysec", "no"}
    BY Zenon, <1>1, <1>5, AofAssumption DEF TypeOK, Policy0
  <2>6. installed' \in Seq(Frames) /\ queue' \in Seq(Entries)
    BY <1>5
  <2>7. /\ unavail' \in BOOLEAN /\ failed' \in BOOLEAN /\ orphan' \in BOOLEAN
        /\ rewriteDue' \in BOOLEAN /\ saveDue' \in BOOLEAN /\ config' = None /\ enq' = None
        /\ floor' = floor /\ undone' = {}
    BY Zenon, <1>5
  <2>8. conf' \in Deployments /\ floor \in Nat
    BY Zenon, <1>1 DEF TypeOK
  <2> QED BY ZenonT(40), <1>6, <1>7, <2>1, <2>2, <2>3, <2>4, <2>5, <2>6, <2>7, <2>8 DEF TypeOK
<1>10. LogInOrder'
  <2>1. \A i \in DOMAIN P : P[i].idx = P[1].idx + i - 1
    <3>1. \A i \in 1 .. n : i \in DOMAIN F /\ 1 \in 1 .. n
      BY <1>2
    <3>2. \A i \in DOMAIN F : F[i].idx = F[1].idx + i - 1
      BY Zenon, <1>1 DEF LogInOrder
    <3> QED BY Zenon, <1>4, <3>1, <3>2
  <2>2. Len(queue') = 0 /\ DOMAIN queue' = {} /\ ~orphan'
    BY <1>5
  <2> QED BY <1>3, <1>5, <1>6, <1>7, <1>8, <2>1, <2>2 DEF LogInOrder
<1>11. SequenceInOrder'
  <2>1. seq'.appended = 0 /\ seq'.written = 0 /\ seq'.synced = 0 /\ DOMAIN queue' = {}
    BY <1>5
  <2>2. \A m \in 0 .. kept : SeqOf(m)' = 0
    BY <1>6 DEF SeqOf
  <2>3. SeqOf(Len(commits))' = 0 /\ SeqOf(Written)' = 0
    BY <1>3, <1>6, <1>8, <2>2
  <2> QED BY <1>6, <2>1, <2>3 DEF SequenceInOrder
<1>12. SyncedReached'
  <2>1. Reach(file'.frames, file'.synced) >= Reach(F, file.synced)
    <3>1. Reach(file'.frames, file'.synced) = Reach(F, s)
      BY <1>2, <1>4, <1>7
    <3>2. Reach(F, s) >= Reach(F, file.synced)
      <4>1. file.synced \in 0 .. Len(F) /\ s \in file.synced .. Len(F)
        BY <1>2
      <4>2. Reach(F, file.synced) <= Reach(F, s) /\ Reach(F, s) \in Nat /\ Reach(F, file.synced) \in Nat
        BY Zenon, <1>2, <4>1, ReachFacts
      <4> QED BY Zenon, <4>2
    <3> QED BY <3>1, <3>2
  <2>2. floor <= Reach(F, file.synced) /\ floor \in Nat /\ Reach(F, file.synced) \in Nat
    BY Zenon, <1>1, FileFacts DEF LogInv, SyncedReached, TypeOK
  <2>3. floor' <= Reach(file'.frames, file'.synced)
    <3>1. Reach(file'.frames, file'.synced) \in Nat
      BY <1>2, <1>4, <1>7, ReachFacts
    <3> QED BY <1>5, <2>1, <2>2, <3>1
  <2>4. seq'.synced = 0 /\ seq'.appended = 0 /\ DOMAIN queue' = {}
    BY <1>5
  <2>5. \A i \in DOMAIN commits' : commits'[i].seq \notin 1 .. seq'.synced
    BY <1>6, <2>4
  <2> QED BY Zenon, <2>3, <2>4, <2>5 DEF SyncedReached
<1>13. \A c \in Clients : /\ ~Busy(c)' /\ client'[c].pc = "idle" /\ client'[c].idx = 0
                          /\ ~client'[c].err /\ ~client'[c].sync
  BY Zenon, <1>5 DEF Busy, Idle
<1>14. WritesSound'
  <2>1. DOMAIN queue' = {} /\ undone' = {}
    BY <1>5
  <2> QED BY Zenon, <1>13, <2>1 DEF WritesSound, WriteSound
<1>15. LocksHeld' /\ RewriteInOrder'
  <2>1. config' = None /\ enq' = None /\ rewrite'.phase = "idle"
    BY Zenon, <1>5 DEF NoJob
  <2> QED BY Zenon, <1>13, <2>1, AofAssumption DEF LocksHeld, RewriteInOrder, RewriteActive
<1> QED BY Zenon, <1>9, <1>10, <1>11, <1>12, <1>14, <1>15 DEF LogInv

\* The start and the end of a rewrite, and the saves: the log itself is as it was.
LEMMA JobLocks ==
    ASSUME LogInv, conf' = conf, UNCHANGED <<client, failed, config, commits>>,
           rewrite' \in Rewrites,
           \/ UNCHANGED <<rewrite, enq>>
           \/ /\ DurableMuFree /\ enq = None
              /\ rewrite'.phase = "begin" /\ enq' = "rewrite"
           \/ /\ rewrite.phase = "begin" /\ rewrite'.phase \notin {"begin", "install"} /\ enq' = None
              /\ RewriteActive' =>
                    rewrite'.buffer = <<>> /\ rewrite'.idx = Len(commits)
           \/ /\ rewrite.phase = "temp" /\ enq = None
              /\ rewrite' = [rewrite EXCEPT !.phase = "install"] /\ enq' = "rewrite"
           \/ /\ rewrite.phase \in {"temp", "install"} /\ enq \in {None, "rewrite"}
              /\ rewrite'.phase = "idle" /\ enq' = None
    PROVE  LocksHeld' /\ RewriteInOrder'
<1>1. None \notin Clients \cup {"config", "rewrite"} /\ Clients \cap {"config", "rewrite"} = {}
  BY AofAssumption
<1>2. \A c \in Clients : Busy(c)' = Busy(c)
  BY Zenon DEF Busy
<1>3. CASE UNCHANGED <<rewrite, enq>>
  <2>1. LocksHeld'
    BY Zenon, <1>3 DEF LogInv, LocksHeld, Busy, RewriteActive
  <2> QED BY Zenon, <1>3, <2>1, CalmRewrite
<1>4. CASE enq \in {None, "rewrite"} /\ enq' \in {None, "rewrite"}
  <2>1. /\ config = None
        /\ \A c \in Clients : enq # c /\ enq' # c /\ client[c].pc # "drain"
        /\ RewriteActive => \A c \in Clients : client[c].pc # "done"
    BY Zenon, <1>1, <1>4 DEF LogInv, LocksHeld
  <2>2. \A c, d \in Clients : c # d /\ Busy(c) /\ Busy(d) =>
          /\ client[c].kind = "fast" /\ client[d].kind = "fast"
          /\ client[c].keys \cap client[d].keys = {}
    BY Zenon DEF LogInv, LocksHeld
  <2>3. Unbuffered = 0 /\ Unbuffered' = 0
    BY Zenon, <2>1 DEF Unbuffered
  <2>4. ASSUME rewrite'.phase \in {"begin", "install"} <=> enq' = "rewrite",
               rewrite'.phase = "begin" => \A c \in Clients : ~Busy(c),
               RewriteActive' => \A c \in Clients : client[c].pc # "done"
        PROVE  LocksHeld'
    BY Zenon, <1>1, <1>2, <1>4, <2>1, <2>2, <2>4 DEF LocksHeld
  <2>5. CASE DurableMuFree /\ enq = None /\ rewrite'.phase = "begin" /\ enq' = "rewrite"
    <3>1. \A c \in Clients : ~Busy(c)
      BY Zenon, <2>5 DEF DurableMuFree, Exclusive, Shared
    <3>2. ~RewriteActive'
      BY Zenon, <2>5 DEF RewriteActive
    <3> QED BY Zenon, <2>4, <2>5, <3>1, <3>2 DEF RewriteInOrder
  <2>6. CASE /\ rewrite.phase = "begin" /\ rewrite'.phase \notin {"begin", "install"} /\ enq' = None
             /\ RewriteActive' => rewrite'.buffer = <<>> /\ rewrite'.idx = Len(commits)
    <3>1. \A c \in Clients : ~Busy(c)
      BY Zenon, <2>6 DEF LogInv, LocksHeld
    <3>2. \A c \in Clients : client[c].pc # "done"
      BY Zenon, <3>1 DEF Busy
    <3>3. LocksHeld'
      BY Zenon, <1>1, <2>4, <2>6, <3>2
    <3>4. RewriteActive' => /\ DOMAIN rewrite'.buffer = {}
                            /\ rewrite'.idx + Len(rewrite'.buffer) + 0 = Len(commits)
      BY <2>6, LogFacts
    <3> QED BY Zenon, <2>3, <3>3, <3>4 DEF RewriteInOrder
  <2>7. CASE /\ rewrite.phase = "temp" /\ enq = None
             /\ rewrite' = [rewrite EXCEPT !.phase = "install"] /\ enq' = "rewrite"
    <3>1. /\ rewrite'.phase = "install" /\ rewrite'.idx = rewrite.idx /\ rewrite'.buffer = rewrite.buffer
      BY Zenon, <2>7 DEF LogInv, TypeOK, Rewrites
    <3>2. RewriteActive
      BY Zenon, <2>7 DEF RewriteActive
    <3>3. LocksHeld'
      BY Zenon, <2>1, <2>4, <2>7, <3>1, <3>2
    <3> QED BY <2>3, <3>1, <3>2, <3>3 DEF LogInv, RewriteInOrder
  <2>8. CASE /\ rewrite.phase \in {"temp", "install"} /\ rewrite'.phase = "idle" /\ enq' = None
    <3>1. ~RewriteActive'
      BY Zenon, <2>8 DEF RewriteActive
    <3> QED BY Zenon, <1>1, <2>4, <2>8, <3>1 DEF RewriteInOrder
  <2> QED BY Zenon, <1>3, <2>5, <2>6, <2>7, <2>8
<1>5. rewrite.phase = "begin" => enq = "rewrite"
  BY Zenon DEF LogInv, LocksHeld
<1> QED BY <1>3, <1>4, <1>5

\* The file a rewrite installs holds the commits to the last one.
LEMMA InstallReach ==
    ASSUME LogInv, rewrite.phase = "install", ~failed
    PROVE  /\ NewFile \in Seq(Frames) /\ Len(NewFile) = Len(rewrite.buffer) + 1
           /\ NewFile[1] = [recs |-> rewrite.img, idx |-> rewrite.idx]
           /\ \A i \in 1 .. Len(rewrite.buffer) : NewFile[i + 1] = rewrite.buffer[i]
           /\ \A i \in DOMAIN NewFile : NewFile[i].idx = NewFile[1].idx + i - 1
           /\ Reach(NewFile, Len(NewFile)) = Len(commits)
           /\ Len(rewrite.buffer) \in Nat
<1> DEFINE B == rewrite.buffer
           base == [recs |-> rewrite.img, idx |-> rewrite.idx]
<1>1. rewrite \in Rewrites /\ B \in Seq(Frames) /\ rewrite.idx \in Nat /\ rewrite.img \in Images
      /\ Len(B) \in Nat
  BY DEF LogInv, TypeOK, Rewrites
<1>2. base \in Frames /\ base.idx = rewrite.idx
  BY Zenon, <1>1 DEF Frames, Recs, Images
<1>3. Unbuffered = 0
  <2>1. \A c \in Clients : enq # c
    BY Zenon, AofAssumption DEF LogInv, LocksHeld
  <2> QED BY Zenon, <2>1 DEF Unbuffered
<1>4. /\ \A i \in 1 .. Len(B) : B[i].idx = rewrite.idx + i
      /\ rewrite.idx + Len(B) = Len(commits)
  <2>1. /\ \A i \in DOMAIN B : B[i].idx = rewrite.idx + i
        /\ rewrite.idx + Len(B) + Unbuffered = Len(commits)
    BY Zenon DEF LogInv, RewriteInOrder, RewriteActive
  <2> QED BY <1>1, <1>3, <2>1
<1> HIDE DEF base, B
<1>5. <<base>> \in Seq(Frames) /\ Len(<<base>>) = 1 /\ <<base>>[1] = base
  BY <1>2
<1>6. /\ <<base>> \o B \in Seq(Frames) /\ Len(<<base>> \o B) = 1 + Len(B)
      /\ \A i \in 1 .. Len(<<base>> \o B) : (<<base>> \o B)[i] = IF i <= 1 THEN <<base>>[i] ELSE B[i - 1]
  BY <1>1, <1>5, ConcatProperties
<1>7. NewFile = <<base>> \o B
  BY Zenon DEF NewFile, base, B
<1>8. /\ NewFile \in Seq(Frames) /\ Len(NewFile) = Len(B) + 1 /\ NewFile[1] = base
      /\ \A i \in 1 .. Len(B) : NewFile[i + 1] = B[i]
  BY <1>1, <1>5, <1>6, <1>7
<1>9. ASSUME NEW i \in 1 .. Len(B) + 1 PROVE NewFile[i].idx = rewrite.idx + i - 1
  <2>1. CASE i = 1
    BY <1>1, <1>2, <1>8, <2>1
  <2>2. CASE i > 1
    <3>1. i - 1 \in 1 .. Len(B) /\ (i - 1) + 1 = i
      BY <1>1, <2>2
    <3>2. NewFile[i] = B[i - 1]
      BY <1>8, <3>1
    <3>3. NewFile[i].idx = rewrite.idx + (i - 1)
      BY <1>4, <3>1, <3>2
    <3> QED BY <1>1, <3>3
  <2> QED BY <1>1, <2>1, <2>2
<1>10. NewFile[1].idx = rewrite.idx
  BY <1>2, <1>8
<1>11. Reach(NewFile, Len(NewFile)) = Len(commits)
  BY <1>1, <1>4, <1>8, <1>10 DEF Reach
<1>12. DOMAIN NewFile = 1 .. Len(B) + 1
  BY <1>8
<1> QED BY Zenon, <1>1, <1>8, <1>9, <1>10, <1>11, <1>12 DEF base, B

\* The installed file of a rewrite reaches the last commit.
LEMMA InstallLog ==
    ASSUME IndexFacts, LogInv, TypeOK', LocksHeld', RewriteInOrder', conf' = conf,
           rewrite.phase = "install", Drained, ~failed,
           UNCHANGED <<client, policy, failed, queue, commits, floor, undone>>,
           file' = [frames |-> NewFile, flushed |-> Len(NewFile), synced |-> Len(NewFile)],
           orphan' = FALSE,
           seq' = [seq EXCEPT !.written = seq.appended, !.synced = seq.appended]
    PROVE  LogInv'
<1> DEFINE N == Len(commits)
           R == Reach(file.frames, file.synced)
<1>1. queue = <<>> /\ Written = N /\ N \in Nat
  BY QueueEmpty, LogFacts
<1>2. /\ \A i \in DOMAIN file'.frames : file'.frames[i].idx = file'.frames[1].idx + i - 1
      /\ Written' = N /\ R' = N
  BY Zenon, InstallReach DEF Written
<1>3. R \in Nat /\ R <= N
  <2>1. file.synced \in 0 .. Len(file.frames)
    BY FileFacts DEF LogInv
  <2> QED BY Zenon, <1>1, <2>1, FileFacts DEF LogInv
<1>4. seq'.appended = seq.appended /\ seq'.written = seq.appended /\ seq'.synced = seq.appended
  BY Zenon, LogFacts DEF Seqs
<1>5. LogInOrder'
  <2>1. DOMAIN queue' = {} /\ Len(queue') = 0 /\ queue' = <<>> /\ N + 0 = N /\ N <= N
    BY <1>1
  <2> QED BY Zenon, <1>2, <2>1 DEF LogInOrder
<1>6. SequenceInOrder'
  <2>1. SeqOf(Written)' = seq.appended /\ SeqOf(Len(commits))' = seq.appended
    BY Zenon, <1>2 DEF SeqOf, LogInv, SequenceInOrder
  <2>2. DOMAIN queue' = {} /\ seq.appended <= seq.appended
    BY <1>1, LogFacts
  <2> QED BY Zenon, <1>4, <2>1, <2>2 DEF LogInv, SequenceInOrder
<1>7. SyncedReached'
  <2>1. floor <= R /\ floor \in Nat
    BY Zenon DEF LogInv, SyncedReached, TypeOK
  <2>2. floor <= R' /\ \A i \in DOMAIN commits : i <= R'
    BY <1>1, <1>2, <1>3, <2>1, LogFacts
  <2>3. DOMAIN queue' = {}
    BY <1>1
  <2> QED BY Zenon, <1>4, <2>2, <2>3 DEF SyncedReached
<1>8. WritesSound'
  <2>1. ASSUME NEW c \in Clients PROVE WriteSound(c)'
    <3>1. commits' \in Seq(Commits) /\ Len(commits) <= Len(commits') /\ R' \in Nat /\ R <= R'
      BY Zenon, <1>1, <1>2, <1>3, LogFacts
    <3> QED BY <3>1, StillSound
  <2> QED BY Zenon, <2>1 DEF LogInv, WritesSound
<1> QED BY Zenon, <1>5, <1>6, <1>7, <1>8 DEF LogInv

\* No step of a rewrite or a save disturbs the log.
LEMMA JobsLog ==
    ASSUME IndexFacts, LogInv, TypeOK', conf' = conf, orphan' = FALSE, ~DirFails, Jobs
    PROVE  LogInv'
<1>1. UNCHANGED <<conf, client, policy, failed, queue, config, commits, floor, undone>>
  BY Zenon DEF Jobs, BGRewriteAOF, BeginRewrite, FinishRewrite, Install, BGSave, PeriodicSave,
         ExportAll, SnapshotRecords, SaveHandoff, logVars, history
<1>2. rewrite' \in Rewrites
  BY Zenon DEF TypeOK
<1>3. /\ NoJob.phase = "idle" /\ [NoJob EXCEPT !.phase = "begin"].phase = "begin"
      /\ ~(NoJob.phase \in {"temp", "install"})
  BY Zenon DEF NoJob
<1>4. ASSUME UNCHANGED <<rewrite, enq>> \/ BeginRewrite \/ FinishRewrite \/ SaveHandoff \/ BGRewriteAOF
             \/ Install
      PROVE  LocksHeld' /\ RewriteInOrder'
  <2>1. CASE UNCHANGED <<rewrite, enq>>
    BY Zenon, <1>1, <1>2, <2>1, JobLocks
  <2>2. CASE BeginRewrite
    <3>1. /\ rewrite.phase = "begin" /\ enq' = None
          /\ rewrite' = IF failed THEN NoJob
                        ELSE [phase |-> "temp", img |-> mem, buffer |-> <<>>, idx |-> Len(commits)]
      BY Zenon, <2>2 DEF BeginRewrite
    <3>2. /\ rewrite'.phase \notin {"begin", "install"}
          /\ RewriteActive' => rewrite'.buffer = <<>> /\ rewrite'.idx = Len(commits)
      BY Zenon, <1>3, <3>1 DEF RewriteActive
    <3> QED BY Zenon, <1>1, <1>2, <3>1, <3>2, JobLocks
  <2>3. CASE FinishRewrite
    <3>1. /\ rewrite.phase = "temp" /\ enq = None
          /\ \/ rewrite' = [rewrite EXCEPT !.phase = "install"] /\ enq' = "rewrite"
             \/ rewrite' = NoJob /\ enq' = None
      BY Zenon, <2>3 DEF FinishRewrite, RewriteEnds
    <3> QED BY Zenon, <1>1, <1>2, <1>3, <3>1, JobLocks
  <2>4. CASE SaveHandoff
    <3>1. /\ DurableMuFree /\ enq = None
          /\ \/ rewrite' = [NoJob EXCEPT !.phase = "begin"] /\ enq' = "rewrite"
             \/ UNCHANGED <<rewrite, enq>>
      BY Zenon, <2>4 DEF SaveHandoff
    <3> QED BY Zenon, <1>1, <1>2, <1>3, <3>1, JobLocks
  <2>5. CASE BGRewriteAOF
    <3>1. /\ DurableMuFree
          /\ \/ enq = None /\ rewrite' = [NoJob EXCEPT !.phase = "begin"] /\ enq' = "rewrite"
             \/ UNCHANGED <<rewrite, enq>>
      BY Zenon, <2>5 DEF BGRewriteAOF
    <3> QED BY Zenon, <1>1, <1>2, <1>3, <3>1, JobLocks
  <2>6. CASE Install
    <3>1. rewrite.phase = "install" /\ rewrite' = NoJob /\ enq' = None
      BY Zenon, <2>6 DEF Install, RewriteEnds
    <3>2. enq = "rewrite"
      BY Zenon, <3>1 DEF LogInv, LocksHeld
    <3> QED BY Zenon, <1>1, <1>2, <1>3, <3>1, <3>2, JobLocks
  <2> QED BY Zenon, <1>4, <2>1, <2>2, <2>3, <2>4, <2>5, <2>6
<1>5. ~orphan /\ orphan' = orphan
  BY Zenon DEF LogInv, LogInOrder, TypeOK
<1>6. CASE UNCHANGED <<seq, file>>
  <2>1. UNCHANGED <<rewrite, enq>> \/ BeginRewrite \/ FinishRewrite \/ SaveHandoff \/ BGRewriteAOF \/ Install
    BY Zenon DEF Jobs, BGSave, PeriodicSave, ExportAll, SnapshotRecords, logVars
  <2>2. LocksHeld' /\ RewriteInOrder'
    BY <1>4, <2>1
  <2> QED BY Zenon, <1>1, <1>5, <1>6, <2>2, CalmLog DEF LogInv, SyncedReached
<1>7. CASE /\ Install /\ ~failed
           /\ file' = [frames |-> NewFile, flushed |-> Len(NewFile), synced |-> Len(NewFile)]
           /\ seq' = [seq EXCEPT !.written = seq.appended, !.synced = seq.appended]
  <2>1. LocksHeld' /\ RewriteInOrder'
    BY <1>4, <1>7
  <2>2. rewrite.phase = "install" /\ Drained
    BY ZenonT(40), <1>7 DEF Install
  <2> QED BY Zenon, <1>1, <1>7, <2>1, <2>2, InstallLog
<1>8. \/ UNCHANGED <<seq, file>>
      \/ /\ Install /\ ~failed
         /\ file' = [frames |-> NewFile, flushed |-> Len(NewFile), synced |-> Len(NewFile)]
         /\ seq' = [seq EXCEPT !.written = seq.appended, !.synced = seq.appended]
  BY DEF Jobs, BGRewriteAOF, BeginRewrite, FinishRewrite, Install, BGSave, PeriodicSave,
         ExportAll, SnapshotRecords, SaveHandoff, logVars
<1> QED BY <1>6, <1>7, <1>8

\* With no write in execution and a healthy log, memory is what the commits
\* make of it.
LEMMA QuietMemory ==
    ASSUME LogInv, ContentInv, ~failed, \A c \in Clients : ~Busy(c), NEW k \in Keys
    PROVE  mem[k] = Value(commits, Len(commits), {}, k)
<1>1. undone = {}
  BY Zenon DEF ContentInv, CommitsOwned
<1> QED BY Zenon, <1>1 DEF ContentInv, MemoryExplained

\* A job that takes or writes an image of memory keeps the snapshots covered.
LEMMA JobsSnapshots ==
    ASSUME LogInv, ContentInv, conf' = conf,
           UNCHANGED <<mem, client, policy, failed>>,
           Saves = {} => snap' = snap /\ save'.phase = "idle" /\ ~saveDue',
           Saves # {} =>
              /\ file'.synced = Len(file'.frames)
              /\ \A k \in Keys : Touched(k) => Touched(k)'
              /\ \A k \in Keys : snap'[k] \in {snap[k], save.img[k]} /\ save'.img[k] \in {0, mem[k], save.img[k]}
    PROVE  SnapshotsCovered'
<1>1. Saves' = Saves
  BY Zenon DEF Saves
<1>2. CASE Saves = {}
  BY Zenon, <1>1, <1>2 DEF ContentInv, SnapshotsCovered
<1>3. CASE Saves # {}
  <2>1. /\ policy = "always" /\ ~failed
        /\ \A d \in Clients : Busy(d) =>
              client[d].kind \in {"fast", "set"} /\ (client[d].pc = "finish" => client[d].sync)
        /\ \A k \in Keys : mem[k] # 0 \/ snap[k] # 0 \/ save.img[k] # 0 => Touched(k)
    BY Zenon, <1>3 DEF ContentInv, SnapshotsCovered
  <2>2. \A d \in Clients : Busy(d)' =>
              client'[d].kind \in {"fast", "set"} /\ (client'[d].pc = "finish" => client'[d].sync)
    BY Zenon, <2>1 DEF Busy
  <2>3. \A k \in Keys : mem'[k] # 0 \/ snap'[k] # 0 \/ save'.img[k] # 0 => Touched(k)'
    BY <1>3, <2>1
  <2> QED BY Zenon, <1>1, <1>3, <2>1, <2>2, <2>3 DEF SnapshotsCovered
<1> QED BY <1>2, <1>3

\* The file a rewrite installs.
LEMMA InstalledContent ==
    ASSUME LogInv, ContentInv, rewrite.phase = "install", ~failed, commits' = commits,
           file' = [frames |-> NewFile, flushed |-> Len(NewFile), synced |-> Len(NewFile)]
    PROVE  FileHolds' /\ file'.synced = Len(file'.frames) /\ \A k \in Keys : Touched(k)'
<1> DEFINE b == rewrite.buffer
           N == Len(commits)
<1>1. /\ NewFile \in Seq(Frames) /\ Len(NewFile) = Len(b) + 1
      /\ NewFile[1] = [recs |-> rewrite.img, idx |-> rewrite.idx]
      /\ \A i \in 1 .. Len(b) : NewFile[i + 1] = b[i]
      /\ Len(b) \in Nat
  BY Zenon, InstallReach
<1>2. file'.frames = NewFile /\ file'.synced = Len(NewFile) /\ DOMAIN NewFile = 1 .. Len(b) + 1
  BY <1>1
<1>3. /\ rewrite.img \in Images /\ rewrite.idx \in Nat /\ DOMAIN b = 1 .. Len(b)
      /\ \A k \in Keys : rewrite.img[k] = Value(commits, rewrite.idx, {}, k)
      /\ \A i \in 1 .. Len(b) : b[i].recs = commits[rewrite.idx + i].recs /\ b[i].idx = rewrite.idx + i
      /\ N \in Nat /\ DOMAIN commits = 1 .. N /\ Unbuffered \in {0, 1}
      /\ rewrite.idx + Len(b) + Unbuffered = N
  <2>1. rewrite \in Rewrites /\ RewriteActive
    BY Zenon DEF LogInv, TypeOK, RewriteActive
  <2>2. rewrite.img \in Images /\ rewrite.idx \in Nat /\ DOMAIN b = 1 .. Len(b)
    BY <2>1 DEF Rewrites
  <2>3. /\ \A k \in Keys : rewrite.img[k] = Value(commits, rewrite.idx, {}, k)
        /\ \A i \in 1 .. Len(b) : b[i].recs = commits[rewrite.idx + i].recs
    BY Zenon, <2>1, <2>2 DEF ContentInv, RewriteHolds
  <2>4. /\ \A i \in 1 .. Len(b) : b[i].idx = rewrite.idx + i
        /\ rewrite.idx + Len(b) + Unbuffered = N
    BY Zenon, <2>1, <2>2 DEF LogInv, RewriteInOrder
  <2>5. N \in Nat /\ DOMAIN commits = 1 .. N /\ Unbuffered \in {0, 1}
    BY LogFacts DEF Unbuffered
  <2> QED BY Zenon, <2>2, <2>3, <2>4, <2>5
<1>4. ASSUME NEW i \in 1 .. Len(b) + 1
      PROVE  LET f == NewFile[i] IN
        \/ f.idx \in DOMAIN commits /\ f.recs = commits[f.idx].recs /\ (i = 1 => f.idx = 1)
        \/ i = 1 /\ f.recs \in Images /\ \A k \in Keys : f.recs[k] = Value(commits, f.idx, {}, k)
  <2>1. CASE i = 1
    BY <1>1, <1>3, <2>1
  <2>2. CASE i # 1
    <3>1. i - 1 \in 1 .. Len(b) /\ (i - 1) + 1 = i
      BY <1>1, <2>2
    <3>2. NewFile[i] = b[i - 1]
      BY <1>1, <3>1
    <3>3. b[i - 1].recs = commits[rewrite.idx + (i - 1)].recs /\ b[i - 1].idx = rewrite.idx + (i - 1)
      BY Zenon, <1>3, <3>1
    <3>4. rewrite.idx + (i - 1) \in 1 .. N
      <4>1. rewrite.idx + Len(b) <= N /\ rewrite.idx \in Nat /\ N \in Nat /\ Len(b) \in Nat
        BY <1>1, <1>3
      <4> HIDE DEF b, N
      <4> QED BY <3>1, <4>1
    <3> QED BY ZenonT(40), <1>3, <2>2, <3>2, <3>3, <3>4
  <2> QED BY Zenon, <2>1, <2>2
<1>5. FileHolds'
  BY ZenonT(40), <1>2, <1>4 DEF FileHolds
<1>6. ASSUME NEW k \in Keys PROVE Touched(k)'
  <2>1. 1 \in 1 .. file'.synced
    BY <1>1, <1>2
  <2>2. file'.frames[1].recs[k] # None
    BY <1>1, <1>2, <1>3, AofAssumption DEF Images
  <2> QED BY Zenon, <2>1, <2>2 DEF Touched
<1> QED BY Zenon, <1>2, <1>5, <1>6

\* The steps of the rewrite and of the saves.
LEMMA JobsContent ==
    ASSUME IndexFacts, SnapshotsFollow, IInv, LogInv', conf' = conf, ~DirFails, Jobs
    PROVE  ContentInv'
<1>1. LogInv /\ ContentInv /\ TypeOK /\ rewrite \in Rewrites /\ save \in SaveStates
  BY Zenon DEF IInv, LogInv, TypeOK
<1>2. UNCHANGED <<mem, client, policy, failed, queue, commits, undone>>
  BY Zenon DEF Jobs, BGRewriteAOF, BeginRewrite, FinishRewrite, Install, BGSave, PeriodicSave, ExportAll,
         SnapshotRecords, SaveHandoff, logVars, history
<1>3. /\ QueueHolds' /\ CommitsOwned' /\ MemoryExplained'
      /\ file'.frames = file.frames => FileHolds'
      /\ rewrite' = rewrite => RewriteHolds'
  BY <1>1, <1>2, CalmContent
<1>4. JobsExclusive /\ (Saves = {} => snap = Empty /\ save.phase = "idle" /\ ~saveDue)
      /\ (Saves # {} => file.synced = Len(file.frames))
  BY Zenon, <1>1 DEF ContentInv, SnapshotsCovered
<1>5. /\ NoJob.phase = "idle" /\ NoSave.phase = "idle" /\ NoSave.img = Empty
      /\ [NoSave EXCEPT !.phase = "export"].img = Empty
      /\ [NoSave EXCEPT !.phase = "handoff"].img = Empty
      /\ [NoJob EXCEPT !.phase = "begin"].phase = "begin"
      /\ \A k \in Keys : Empty[k] = 0
  BY Zenon DEF NoJob, NoSave, Empty
<1>6. ASSUME file' = file PROVE FileHolds' /\ file'.synced = file.synced /\ \A k \in Keys : Touched(k)' = Touched(k)
  BY Zenon, <1>3, <1>6 DEF Touched
\* The parts of the invariant that jobs can disturb.
<1>7. ASSUME FileHolds', RewriteHolds', JobsExclusive',
             Saves = {} => snap' = snap /\ save'.phase = "idle" /\ ~saveDue',
             Saves # {} =>
              /\ file'.synced = Len(file'.frames)
              /\ \A k \in Keys : Touched(k) => Touched(k)'
              /\ \A k \in Keys : snap'[k] \in {snap[k], save.img[k]} /\ save'.img[k] \in {0, mem[k], save.img[k]}
      PROVE  ContentInv'
  <2>1. SnapshotsCovered'
    BY Zenon, <1>1, <1>2, <1>7, JobsSnapshots
  <2> QED BY Zenon, <1>3, <1>7, <2>1 DEF ContentInv
<1>8. CASE BGRewriteAOF
  <2>1. UNCHANGED <<file, save, saveDue, snap>>
    BY Zenon, <1>8 DEF BGRewriteAOF
  <2>2. RewriteHolds' /\ JobsExclusive'
    <3>1. CASE RewriteWaits
      <4>1. rewrite' = rewrite
        BY Zenon, <1>8, <3>1 DEF BGRewriteAOF
      <4> QED BY Zenon, <1>3, <1>4, <2>1, <4>1 DEF JobsExclusive, Running
    <3>2. CASE ~RewriteWaits
      <4>1. rewrite'.phase = "begin" /\ save.phase = "idle"
        BY ZenonT(40), <1>5, <1>8, <3>2 DEF BGRewriteAOF, RewriteWaits, Running
      <4> QED BY Zenon, <2>1, <4>1 DEF RewriteHolds, RewriteActive, JobsExclusive, Running
    <3> QED BY <3>1, <3>2
  <2> QED BY Zenon, <1>4, <1>6, <1>7, <2>1, <2>2
<1>9. CASE BeginRewrite
  <2>1. UNCHANGED <<file, save, saveDue, snap>> /\ rewrite.phase = "begin"
    BY Zenon, <1>9 DEF BeginRewrite
  <2>2. JobsExclusive'
    BY Zenon, <1>4, <2>1 DEF JobsExclusive, Running
  <2>3. RewriteHolds'
    <3>1. CASE failed
      BY Zenon, <1>2, <3>1 DEF RewriteHolds
    <3>2. CASE ~failed
      <4>1. rewrite' = [phase |-> "temp", img |-> mem, buffer |-> <<>>, idx |-> Len(commits)]
        BY Zenon, <1>9, <3>2 DEF BeginRewrite
      <4>2. rewrite'.img = mem /\ rewrite'.idx = Len(commits) /\ DOMAIN rewrite'.buffer = {}
        BY <4>1
      <4>3. \A c \in Clients : ~Busy(c)
        BY <1>1, <2>1 DEF LogInv, LocksHeld
      <4>4. \A k \in Keys : mem[k] = Value(commits, Len(commits), {}, k)
        BY Zenon, <1>1, <3>2, <4>3, QuietMemory
      <4> QED BY Zenon, <1>2, <4>2, <4>4 DEF RewriteHolds
    <3> QED BY <3>1, <3>2
  <2> QED BY Zenon, <1>4, <1>6, <1>7, <2>1, <2>2, <2>3
\* The end of a rewrite, and the save that waited for it.
<1>10. ASSUME RewriteEnds, rewrite.phase \in {"temp", "install"}
       PROVE  /\ RewriteHolds' /\ JobsExclusive' /\ ~saveDue'
              /\ Saves = {} => save'.phase = "idle"
              /\ \A k \in Keys : save'.img[k] \in {0, mem[k], save.img[k]}
  <2>1. rewrite'.phase = "idle" /\ saveDue' = FALSE
        /\ save' = IF saveDue THEN [NoSave EXCEPT !.phase = "export"] ELSE save
    BY Zenon, <1>5, <1>10 DEF RewriteEnds
  <2> QED BY Zenon, <1>4, <1>5, <2>1 DEF RewriteHolds, RewriteActive, JobsExclusive, Running
<1>11. CASE FinishRewrite
  <2>1. UNCHANGED <<file, snap>> /\ rewrite.phase = "temp"
    BY Zenon, <1>11 DEF FinishRewrite
  <2>2. CASE RewriteEnds
    BY Zenon, <1>4, <1>6, <1>7, <1>10, <2>1, <2>2
  <2>3. CASE ~RewriteEnds
    <3>1. rewrite' = [rewrite EXCEPT !.phase = "install"] /\ UNCHANGED <<save, saveDue>>
      BY Zenon, <1>11, <2>3 DEF FinishRewrite
    <3>2. rewrite'.phase = "install" /\ rewrite'.img = rewrite.img /\ rewrite'.idx = rewrite.idx
          /\ rewrite'.buffer = rewrite.buffer
      BY Zenon, <1>1, <3>1 DEF Rewrites
    <3>3. RewriteHolds'
      BY Zenon, <1>1, <1>2, <2>1, <3>2 DEF ContentInv, RewriteHolds, RewriteActive
    <3>4. JobsExclusive'
      BY ZenonT(40), <1>4, <2>1, <3>1 DEF JobsExclusive, Running
    <3> QED BY <1>4, <1>6, <1>7, <2>1, <3>1, <3>3, <3>4
  <2> QED BY <2>2, <2>3
<1>12. CASE Install
  <2>1. RewriteEnds /\ rewrite.phase = "install" /\ snap' = snap
    BY Zenon, <1>12 DEF Install
  <2>2. \/ file' = file
        \/ ~failed /\ file' = [frames |-> NewFile, flushed |-> Len(NewFile), synced |-> Len(NewFile)]
    BY Zenon, <1>12 DEF Install
  <2>3. CASE file' = file
    BY Zenon, <1>4, <1>6, <1>7, <1>10, <2>1, <2>3
  <2>4. CASE file' # file
    <3>1. FileHolds' /\ file'.synced = Len(file'.frames) /\ \A k \in Keys : Touched(k)'
      BY Zenon, <1>1, <1>2, <2>1, <2>2, <2>4, InstalledContent
    <3> QED BY Zenon, <1>4, <1>7, <1>10, <2>1, <3>1
  <2> QED BY <2>3, <2>4
<1>13. CASE BGSave
  <2>1. UNCHANGED <<file, rewrite, snap>> /\ Saves # {} /\ save.phase = "idle"
    BY ZenonT(40), <1>13 DEF BGSave, logVars, Running
  <2>2. CASE Running.rewrite
    <3>1. save' = save
      BY ZenonT(40), <1>13, <2>2 DEF BGSave
    <3> QED BY Zenon, <1>3, <1>4, <1>6, <1>7, <2>1, <3>1 DEF JobsExclusive, Running
  <2>3. CASE ~Running.rewrite
    <3>1. save'.img = mem /\ rewrite.phase = "idle"
      <4>1. save' = [phase |-> "write", img |-> mem]
        BY Zenon, <1>13, <2>3 DEF BGSave
      <4>2. rewrite.phase = "idle"
        BY Zenon, <2>3 DEF Running
      <4> QED BY Zenon, <4>1, <4>2
    <3>2. JobsExclusive'
      BY Zenon, <2>1, <3>1 DEF JobsExclusive, Running
    <3> QED BY Zenon, <1>3, <1>4, <1>6, <1>7, <2>1, <3>1, <3>2
  <2> QED BY <2>2, <2>3
<1>14. CASE PeriodicSave
  <2>1. /\ UNCHANGED <<file, rewrite, snap>> /\ Saves # {} /\ rewrite.phase = "idle"
        /\ save'.img = Empty
    BY Zenon, <1>5, <1>14 DEF PeriodicSave, logVars, Running
  <2>2. JobsExclusive'
    BY Zenon, <2>1 DEF JobsExclusive, Running
  <2> QED BY Zenon, <1>3, <1>4, <1>5, <1>6, <1>7, <2>1, <2>2
<1>15. CASE ExportAll
  <2>1. UNCHANGED <<file, rewrite, snap>> /\ save.phase = "export" /\ save'.img = mem
    BY Zenon, <1>15 DEF ExportAll, logVars
  <2>2. JobsExclusive' /\ Saves # {}
    BY Zenon, <1>4, <2>1 DEF JobsExclusive, Running
  <2> QED BY Zenon, <1>3, <1>4, <1>6, <1>7, <2>1, <2>2
<1>16. CASE SnapshotRecords
  <2>1. /\ UNCHANGED <<file, rewrite>> /\ save.phase = "write" /\ save'.img = Empty
        /\ snap' \in {snap, save.img}
    BY Zenon, <1>5, <1>16 DEF SnapshotRecords, logVars
  <2>2. JobsExclusive' /\ Saves # {}
    BY Zenon, <1>4, <2>1 DEF JobsExclusive, Running
  <2> QED BY Zenon, <1>3, <1>4, <1>5, <1>6, <1>7, <2>1, <2>2
<1>17. CASE SaveHandoff
  <2>1. /\ UNCHANGED <<file, snap>> /\ save.phase = "handoff" /\ save'.img = Empty /\ save'.phase = "idle"
        /\ rewrite' = rewrite \/ rewrite'.phase = "begin"
    BY Zenon, <1>5, <1>17 DEF SaveHandoff
  <2>2. JobsExclusive' /\ Saves # {}
    BY Zenon, <1>4, <2>1 DEF JobsExclusive, Running
  <2>3. RewriteHolds'
    BY Zenon, <1>3, <2>1 DEF RewriteHolds, RewriteActive
  <2> QED BY Zenon, <1>4, <1>5, <1>6, <1>7, <2>1, <2>2, <2>3
<1> QED BY ZenonT(40), <1>8, <1>9, <1>11, <1>12, <1>13, <1>14, <1>15, <1>16, <1>17 DEF Jobs

\* Every frame but the first is a commit.
LEMMA FrameAfter ==
    ASSUME LogInv, FileHolds, NEW i \in 1 .. Len(file.frames), i # 1 \/ file.frames[1].recs \notin Images
    PROVE  /\ file.frames[1].idx + i - 1 \in 1 .. Len(commits)
           /\ file.frames[i].recs = commits[file.frames[1].idx + i - 1].recs
           /\ file.frames[1].recs \notin Images => file.frames[1].idx = 1
<1> DEFINE F == file.frames
<1>1. F \in Seq(Frames) /\ Len(F) \in Nat /\ DOMAIN F = 1 .. Len(F) /\ 1 \in DOMAIN F
      /\ DOMAIN commits = 1 .. Len(commits)
  BY FileFacts, LogFacts
<1>2. F[i].idx = F[1].idx + i - 1
  BY Zenon, <1>1 DEF LogInv, LogInOrder
<1>3. F[i].idx \in DOMAIN commits /\ F[i].recs = commits[F[i].idx].recs
  BY Zenon, <1>1 DEF FileHolds
<1>4. F[1].recs \notin Images => F[1].idx = 1
  BY Zenon, <1>1 DEF FileHolds
<1> QED BY Zenon, <1>1, <1>2, <1>3, <1>4

\* Commits without a record of the key do not change its value.
LEMMA ValueStays ==
    ASSUME IndexFacts, NEW n \in Nat, NEW m \in Nat, n <= m, NEW C, NEW k,
           \A i \in n + 1 .. m : C[i].recs[k] = None
    PROVE  Value(C, m, {}, k) = Value(C, n, {}, k)
<1>1. \A i \in 1 .. m : i \in 1 .. n \/ i \in n + 1 .. m
  OBVIOUS
<1>2. \A i \in 1 .. n : i \in 1 .. m
  OBVIOUS
<1>3. Live(C, m, {}, k) = Live(C, n, {}, k)
  BY Zenon, <1>1, <1>2 DEF Live
<1> QED BY <1>3, ValueSame

\* Replaying a prefix of the file that includes what is synced, over a snapshot
\* the synced part covers, gives the keyspace after the last commit of the prefix.
LEMMA Recovered ==
    ASSUME IndexFacts, LogInv, FileHolds, NEW n \in file.synced .. Len(file.frames),
           NEW img, NEW k \in Keys, img[k] # 0 => Touched(k)
    PROVE  Replay(img, SubSeq(file.frames, 1, n))[k] = Value(commits, Reach(file.frames, n), {}, k)
<1> DEFINE F == file.frames
           P == SubSeq(F, 1, n)
           R == Reach(F, n)
           b == F[1].idx
<1>1. /\ F \in Seq(Frames) /\ Len(F) \in Nat /\ file.synced \in Nat /\ n \in Nat /\ n <= Len(F)
      /\ file.synced <= n
  <2>1. F \in Seq(Frames) /\ Len(F) \in Nat /\ file.synced \in Nat
    BY Zenon, FileFacts DEF LogInv
  <2> QED BY <2>1
<1>2. n \in 0 .. Len(F) /\ \A i \in 1 .. n : i \in 1 .. Len(F)
  BY <1>1
<1>3. DOMAIN P = 1 .. n /\ \A i \in 1 .. n : P[i] = F[i]
  BY Zenon, <1>1, <1>2, PrefixParts
<1>4. R \in Nat /\ (n > 0 => R = b + n - 1 /\ b \in Nat) /\ (n = 0 => R = 0)
  <2>1. n > 0 => F[1] \in Frames
    BY <1>1
  <2> QED BY <1>1, <1>2, <2>1, FileFacts DEF LogInv, Reach, Frames
<1>5. \A f \in Images : f[k] # None
  BY AofAssumption DEF Images
<1> HIDE DEF P, R
<1>6. \/ /\ \A i \in 1 .. n : P[i].recs[k] = None
         /\ Replay(img, P)[k] = img[k]
      \/ \E i \in 1 .. n :
            /\ P[i].recs[k] # None
            /\ \A j \in i + 1 .. n : P[j].recs[k] = None
            /\ Replay(img, P)[k] = P[i].recs[k]
  <2>1. n \in Nat /\ DOMAIN P = 1 .. n
    BY <1>1, <1>3
  <2> QED BY <2>1, Replayed
<1>7. CASE \A i \in 1 .. n : P[i].recs[k] = None
  <2>1. \A i \in 1 .. n : F[i].recs[k] = None
    BY Zenon, <1>3, <1>7
  <2>2. ~Touched(k)
    BY <1>1, <2>1 DEF Touched
  <2>3. Replay(img, P)[k] = 0
    BY Zenon, <1>6, <1>7, <2>2
  <2>4. \A i \in 1 .. R : commits[i].recs[k] = None
    <3>1. CASE n = 0
      BY <1>4, <3>1
    <3>2. CASE n # 0
      <4>1. 1 \in 1 .. n /\ 1 \in 1 .. Len(F)
        BY <1>1, <3>2
      <4>2. F[1].recs \notin Images
        BY Zenon, <1>5, <2>1, <4>1
      <4>3. b = 1 /\ R = n
        BY <1>1, <1>4, <3>2, <4>1, <4>2, FrameAfter
      <4>4. ASSUME NEW i \in 1 .. n PROVE commits[i].recs[k] = None
        <5>1. b + i - 1 = i
          BY <4>3
        <5>2. F[i].recs = commits[b + i - 1].recs
          BY Zenon, <1>2, <4>2, FrameAfter
        <5> QED BY Zenon, <2>1, <5>1, <5>2
      <4> QED BY <4>3, <4>4
    <3> QED BY Zenon, <3>1, <3>2
  <2>5. Live(commits, R, {}, k) = {}
    BY Zenon, <2>4 DEF Live
  <2> QED BY Zenon, <2>3, <2>5 DEF Value, P, R
<1>8. ASSUME NEW i \in 1 .. n, P[i].recs[k] # None,
             \A j \in i + 1 .. n : P[j].recs[k] = None,
             Replay(img, P)[k] = P[i].recs[k]
      PROVE  Replay(img, P)[k] = Value(commits, R, {}, k)
  <2>1. F[i].recs[k] # None /\ Replay(img, P)[k] = F[i].recs[k]
        /\ \A j \in i + 1 .. n : F[j].recs[k] = None
    <3>1. P[i] = F[i]
      BY <1>3
    <3>2. \A j \in i + 1 .. n : j \in 1 .. n
      BY <1>1
    <3>3. \A j \in i + 1 .. n : P[j] = F[j]
      BY <1>3, <3>2
    <3> QED BY Zenon, <1>8, <3>1, <3>3
  <2>2. i \in Nat /\ i <= n /\ i >= 1 /\ n > 0
    BY <1>1
  <2>3. R = b + n - 1 /\ b \in Nat
    BY Zenon, <1>4, <2>2
  <2> DEFINE m == b + i - 1
  <2> HIDE DEF b
  <2>4. ASSUME NEW j \in m + 1 .. R PROVE commits[j].recs[k] = None
    <3> DEFINE i2 == j - b + 1
    <3>1. i2 \in i + 1 .. n /\ i2 # 1 /\ i2 \in 1 .. Len(F) /\ b + i2 - 1 = j
      BY <1>1, <2>2, <2>3
    <3> HIDE DEF i2
    <3>2. F[i2].recs = commits[b + i2 - 1].recs
      BY Zenon, <3>1, FrameAfter DEF b
    <3>3. F[i2].recs[k] = None
      BY Zenon, <2>1, <3>1
    <3> QED BY Zenon, <3>1, <3>2, <3>3
  <2>5. m <= R /\ m \in Nat /\ i \in 1 .. Len(F)
    BY <1>1, <2>2, <2>3
  <2>6. CASE i # 1 \/ F[1].recs \notin Images
    <3>1. m \in 1 .. Len(commits) /\ F[i].recs = commits[m].recs
      BY ZenonT(40), <2>5, <2>6, FrameAfter DEF b
    <3> HIDE DEF m
    <3>2. LastOf(commits, R, k, m)
      BY <1>4, <2>1, <2>4, <2>5, <3>1 DEF LastOf
    <3>3. Value(commits, R, {}, k) = commits[m].recs[k]
      BY <1>4, <3>2, ValueLast
    <3> QED BY <2>1, <3>1, <3>3
  <2>7. CASE i = 1 /\ F[1].recs \in Images
    <3>1. m = b
      BY <2>7, <2>3
    <3>2. F[1].recs[k] = Value(commits, b, {}, k)
      <4>1. 1 \in DOMAIN F
        BY <1>1, <2>5, <2>7
      <4>2. CASE \A j \in Keys : F[1].recs[j] = Value(commits, F[1].idx, {}, j)
        BY Zenon, <4>2 DEF b
      <4>3. CASE F[1].idx \in DOMAIN commits /\ F[1].recs = commits[F[1].idx].recs /\ F[1].idx = 1
        <5>1. LastOf(commits, 1, k, 1)
          BY <2>1, <2>7, <4>3 DEF LastOf
        <5> QED BY <4>3, <5>1, ValueLast DEF b
      <4> QED BY Zenon, <4>1, <4>2, <4>3 DEF FileHolds
    <3>3. \A j \in b + 1 .. R : commits[j].recs[k] = None
      BY Zenon, <2>4, <3>1
    <3>4. b <= R
      BY Zenon, <2>5, <3>1
    <3>5. Value(commits, R, {}, k) = Value(commits, b, {}, k)
      BY <1>4, <2>3, <3>3, <3>4, ValueStays
    <3> QED BY Zenon, <2>1, <2>7, <3>2, <3>5
  <2> QED BY Zenon, <2>6, <2>7
<1> QED BY Zenon, <1>6, <1>7, <1>8 DEF P, R

\* A restart recovers the keyspace after the commits its file reaches.
LEMMA RestartContent ==
    ASSUME IndexFacts, SnapshotsFollow, IInv, LogInv', conf' = conf,
           NEW n \in file.synced .. Len(file.frames), NEW s \in {file.synced, n},
           NEW img, Restarted(img, SubSeq(file.frames, 1, n), s),
           Saves = {} => img = Empty,
           Saves # {} => \A k \in Keys : img[k] # 0 => Touched(k)
    PROVE  /\ ContentInv'
           /\ \A k \in Keys : mem'[k] = Value(commits, Reach(file.frames, n), {}, k)
<1> DEFINE F == file.frames
           P == SubSeq(F, 1, n)
           R == Reach(F, n)
<1>1. LogInv /\ ContentInv /\ TypeOK /\ LogInOrder /\ FileHolds
  BY Zenon DEF IInv, LogInv, ContentInv
<1>2. /\ F \in Seq(Frames) /\ Len(F) \in Nat /\ file.synced \in Nat /\ n \in Nat /\ n <= Len(F)
      /\ file.synced <= n /\ n \in 0 .. Len(F) /\ Len(commits) \in Nat /\ DOMAIN commits = 1 .. Len(commits)
  <2>1. F \in Seq(Frames) /\ Len(F) \in Nat /\ file.synced \in Nat
    BY Zenon, <1>1, FileFacts
  <2>2. Len(commits) \in Nat /\ DOMAIN commits = 1 .. Len(commits)
    BY <1>1, LogFacts
  <2> QED BY <2>1, <2>2
<1>3. P \in Seq(Frames) /\ DOMAIN P = 1 .. n /\ Len(P) = n /\ \A i \in 1 .. n : P[i] = F[i]
  BY Zenon, <1>2, PrefixParts
<1>4. R \in Nat /\ R <= Len(commits) /\ LastCommit(P) = R
  <2>1. R \in Nat /\ R <= Written /\ LastCommit(P) = R /\ Written \in Nat /\ Written <= Len(commits)
    BY <1>1, <1>2, FileFacts
  <2> QED BY <1>2, <2>1
<1> HIDE DEF P, R
<1>5. /\ snap' = img /\ mem' = Replay(img, P) /\ client' = [c \in Clients |-> Idle]
      /\ policy' = Policy0 /\ failed' = FALSE /\ queue' = <<>>
      /\ file' = [frames |-> P, flushed |-> Len(P), synced |-> s]
      /\ rewrite' = NoJob /\ save' = NoSave /\ saveDue' = FALSE
      /\ commits' = [i \in 1 .. R |-> [commits[i] EXCEPT !.seq = 0]]
      /\ undone' = {}
  BY Zenon, <1>4 DEF Restarted, P
<1>6. DOMAIN commits' = 1 .. R /\ Len(commits') = R /\ \A i \in 1 .. R : commits'[i].recs = commits[i].recs
  <2>1. DOMAIN commits' = 1 .. R
    BY <1>5
  <2>2. commits' \in Seq(Commits)
    BY Zenon, LogFacts DEF LogInv, TypeOK
  <2>3. Len(commits') = R
    BY <1>4, <2>1, <2>2
  <2>4. ASSUME NEW i \in 1 .. R PROVE commits'[i].recs = commits[i].recs
    <3>1. commits[i] \in Commits
      BY <1>1, <1>2, <1>4, LogFacts
    <3>2. commits'[i] = [commits[i] EXCEPT !.seq = 0]
      BY Zenon, <1>5
    <3> QED BY Zenon, <3>1, <3>2 DEF Commits
  <2> QED BY Zenon, <2>1, <2>3, <2>4
<1>7. ASSUME NEW j \in 0 .. R, NEW k
      PROVE  Value(commits', j, {}, k) = Value(commits, j, {}, k)
  <2>1. j \in Nat /\ j \in j .. j + 1 /\ j # j + 1 /\ \A i \in 1 .. j : i \in 1 .. R
    BY <1>4
  <2>2. \A i \in 1 .. j : commits'[i].recs[k] = commits[i].recs[k]
    BY Zenon, <1>6, <2>1
  <2> QED BY <2>1, <2>2, ValuePrefix
<1>8. ASSUME NEW k \in Keys
      PROVE  mem'[k] = Value(commits, R, {}, k) /\ (img[k] # 0 => Touched(k))
  <2>1. img[k] # 0 => Touched(k)
    BY Zenon DEF Empty
  <2>2. mem'[k] = Value(commits, R, {}, k)
    BY Zenon, <1>1, <1>5, <2>1, Recovered DEF P, R
  <2> QED BY <2>1, <2>2
<1>9. FileHolds'
  <2>1. ASSUME NEW i \in 1 .. n
        PROVE  LET f == P[i] IN
          \/ f.idx \in DOMAIN commits' /\ f.recs = commits'[f.idx].recs /\ (i = 1 => f.idx = 1)
          \/ i = 1 /\ f.recs \in Images /\ \A k \in Keys : f.recs[k] = Value(commits', f.idx, {}, k)
    <3>1. P[i] = F[i] /\ i \in DOMAIN F /\ i \in 0 .. n /\ i \in 0 .. Len(F)
      BY <1>2, <1>3
    <3>2. F[i].idx \in 0 .. R
      <4>1. F[i].idx = Reach(F, i)
        BY Zenon, <1>1, <3>1, FrameIdx
      <4>2. Reach(F, i) \in Nat /\ Reach(F, i) <= R
        <5>1. i \in 0 .. Len(F) /\ n \in i .. Len(F)
          BY <1>2, <3>1
        <5> QED BY ZenonT(40), <1>2, <5>1, ReachFacts DEF R
      <4> QED BY <1>4, <4>1, <4>2
    <3>3. CASE F[i].idx \in DOMAIN commits /\ F[i].recs = commits[F[i].idx].recs /\ (i = 1 => F[i].idx = 1)
      <4>1. F[i].idx \in 1 .. R
        BY <1>2, <3>2, <3>3
      <4> QED BY ZenonT(40), <1>6, <3>1, <3>3, <4>1
    <3>4. CASE i = 1 /\ F[i].recs \in Images /\ \A k \in Keys : F[i].recs[k] = Value(commits, F[i].idx, {}, k)
      BY Zenon, <1>7, <3>1, <3>2, <3>4
    <3> QED BY Zenon, <1>1, <3>1, <3>3, <3>4 DEF FileHolds
  <2>2. file'.frames = P
    BY <1>5
  <2> QED BY ZenonT(40), <1>3, <2>1, <2>2 DEF FileHolds
<1>10. \A c \in Clients : client'[c].pc = "idle" /\ client'[c].idx = 0 /\ ~Busy(c)'
  BY Zenon, <1>5 DEF Idle, Busy
<1>11. QueueHolds' /\ RewriteHolds' /\ JobsExclusive'
  <2>1. rewrite'.phase = "idle"
    BY Zenon, <1>5 DEF NoJob
  <2>2. queue' = <<>>
    BY Zenon, <1>5
  <2>3. QueueHolds'
    BY <2>2 DEF QueueHolds
  <2>4. RewriteHolds' /\ JobsExclusive'
    BY Zenon, <2>1 DEF RewriteHolds, RewriteActive, JobsExclusive, Running
  <2> QED BY <2>3, <2>4
<1>12. CommitsOwned'
  BY <1>5, <1>10 DEF CommitsOwned
<1>13. MemoryExplained'
  <2>1. ASSUME NEW k \in Keys PROVE mem'[k] = Value(commits', Len(commits'), undone', k)
    <3>1. R \in 0 .. R
      BY <1>4
    <3> QED BY Zenon, <1>5, <1>6, <1>7, <1>8, <3>1
  <2> QED BY Zenon, <1>10, <2>1 DEF MemoryExplained
<1>14. SnapshotsCovered'
  <2>1. Saves' = Saves /\ Policy0' = Policy0
    BY Zenon DEF Saves, Policy0
  <2>2. CASE Saves = {}
    BY Zenon, <1>5, <2>1, <2>2 DEF SnapshotsCovered, NoSave
  <2>3. CASE Saves # {}
    <3>1. file.synced = Len(F) /\ n = Len(F) /\ s = n
      BY <1>1, <1>2, <2>3 DEF ContentInv, SnapshotsCovered
    <3>2. Policy0 = "always"
      BY Zenon, <1>1, <2>3, Following
    <3>3. file'.frames = P /\ file'.synced = n /\ Len(P) = n
      BY Zenon, <1>3, <1>5, <3>1
    <3>4. ASSUME NEW k \in Keys, NEW i \in 1 .. n, F[i].recs[k] # None PROVE Touched(k)'
      <4>1. P[i].recs[k] # None
        BY Zenon, <1>3, <3>4
      <4> QED BY ZenonT(40), <3>3, <4>1 DEF Touched
    <3>5. ASSUME NEW k \in Keys, img[k] # 0 PROVE Touched(k)'
      <4>1. PICK i \in 1 .. file.synced : F[i].recs[k] # None
        BY Zenon, <1>8, <3>5 DEF Touched
      <4> QED BY <3>1, <3>4, <4>1
    <3>6. ASSUME NEW k \in Keys, mem'[k] # 0 PROVE Touched(k)'
      <4>1. CASE img[k] # 0
        BY Zenon, <3>5, <4>1
      <4>2. CASE img[k] = 0
        <5>1. \E i \in 1 .. n : P[i].recs[k] # None
          BY <1>2, <1>3, <1>5, <3>6, <4>2, Replayed
        <5> QED BY Zenon, <1>3, <3>4, <5>1
      <4> QED BY <4>1, <4>2
    <3>7. \A k \in Keys : save'.img[k] = 0
      BY Zenon, <1>5 DEF NoSave, Empty
    <3> QED BY ZenonT(40), <1>5, <1>10, <2>1, <2>3, <3>2, <3>3, <3>5, <3>6, <3>7 DEF SnapshotsCovered
  <2> QED BY <2>2, <2>3
<1> QED BY ZenonT(40), <1>8, <1>9, <1>11, <1>12, <1>13, <1>14 DEF ContentInv, R

\* A crash of the process or of the power, and the restart after it.
LEMMA CrashContent ==
    ASSUME IndexFacts, SnapshotsFollow, IInv, LogInv', conf' = conf, Crash
    PROVE  ContentInv'
<1>1. LogInv /\ ContentInv /\ TypeOK /\ LogInOrder
  BY Zenon DEF IInv, LogInv
<1>2. PICK n \in file.synced .. Len(file.frames) : \E s \in {file.synced, n} :
                 Restarted(snap, SubSeq(file.frames, 1, n), s)
  BY Zenon, <1>1, CrashForms
<1>3. PICK s \in {file.synced, n} : Restarted(snap, SubSeq(file.frames, 1, n), s)
  BY <1>2
<1>4. /\ Saves = {} => snap = Empty
      /\ Saves # {} => \A k \in Keys : snap[k] # 0 => Touched(k)
  BY Zenon, <1>1 DEF ContentInv, SnapshotsCovered
<1> QED BY <1>3, <1>4, RestartContent

\* A graceful stop and restart; a healthy log brings memory back as it was.
LEMMA StopContent ==
    ASSUME IndexFacts, SnapshotsFollow, IInv, LogInv', conf' = conf, Stop
    PROVE  ContentInv' /\ (~failed => mem' = mem)
<1>1. LogInv /\ ContentInv /\ TypeOK /\ LogInOrder
  BY DEF IInv, LogInv
<1>2. PICK n \in file.synced .. Len(file.frames), img \in {snap, mem} :
                \E s \in {file.synced, n} :
                 /\ Restarted(img, SubSeq(file.frames, 1, n), s)
                 /\ Saves = {} => img = snap
                 /\ ~failed => n = Len(file.frames)
  BY <1>1, StopForms
<1>3. PICK s \in {file.synced, n} : Restarted(img, SubSeq(file.frames, 1, n), s)
  BY <1>2
<1>4. /\ Saves = {} => img = Empty
      /\ Saves # {} => \A k \in Keys : img[k] # 0 => Touched(k)
  BY ZenonT(40), <1>1, <1>2 DEF ContentInv, SnapshotsCovered
<1>5. /\ ContentInv'
      /\ \A k \in Keys : mem'[k] = Value(commits, Reach(file.frames, n), {}, k)
  BY Zenon, <1>3, <1>4, RestartContent
<1>6. ASSUME ~failed PROVE mem' = mem
  <2>1. Written = Len(commits) /\ (\A c \in Clients : ~Busy(c))
    BY Zenon, <1>1, <1>6, QueueEmpty DEF Stop
  <2>2. Reach(file.frames, n) = Len(commits)
    BY Zenon, <1>2, <1>6, <2>1 DEF Written
  <2>3. \A k \in Keys : mem'[k] = mem[k]
    BY Zenon, <1>1, <1>5, <1>6, <2>1, <2>2, QuietMemory
  <2>4. mem \in Images /\ mem' \in Images
    BY Zenon, <1>1 DEF LogInv, TypeOK
  <2> QED BY <2>3, <2>4 DEF Images
<1> QED BY <1>5, <1>6
=============================================================================
