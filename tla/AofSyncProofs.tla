--------------------------- MODULE AofSyncProofs ----------------------------
(***************************************************************************)
(* The sync loop and the change of the fsync policy keep the inductive     *)
(* invariant.                                                              *)
(***************************************************************************)
EXTENDS AofFacts, AofSync

\* So does the wake-up of the clients a batch answers (syncLoop).
LEMMA RepliedTyped ==
    ASSUME IndexFacts, TypeOK, NEW batch \in Seq(Entries), NEW err \in BOOLEAN, Replied(batch, err)
    PROVE  /\ client' \in [Clients -> WriteStates]
           /\ rewrite' \in Rewrites
           /\ enq' \in {enq, None}
<1> DEFINE owners == {batch[i].done : i \in DOMAIN batch} \ {None}
<1>1. client' \in [Clients -> WriteStates]
  <2>1. client' = [c \in Clients |-> IF c \in owners
                     THEN [client[c] EXCEPT !.pc = "finish", !.err = err] ELSE client[c]]
    BY Zenon DEF Replied
  <2>2. ASSUME NEW c \in Clients
        PROVE  client[c] \in WriteStates /\ [client[c] EXCEPT !.pc = "finish", !.err = err] \in WriteStates
    <3>1. client[c] \in WriteStates
      BY Typed
    <3> QED BY Zenon, <3>1 DEF WriteStates
  <2> HIDE DEF owners
  <2> QED BY Zenon, <2>1, <2>2
<1>2. rewrite' \in Rewrites
  <2> DEFINE j == CHOOSE i \in DOMAIN batch : batch[i].done = enq
  <2>1. rewrite' = IF enq \in owners /\ ~err THEN Buffered(rewrite, batch[j].frame) ELSE rewrite
    BY Zenon DEF Replied
  <2>2. rewrite \in Rewrites
    BY Zenon DEF TypeOK
  <2>3. enq \in owners => batch[j].frame \in Frames
    <3>1. enq \in owners => \E i \in DOMAIN batch : batch[i].done = enq
      OBVIOUS
    <3>2. enq \in owners => j \in DOMAIN batch
      BY <3>1
    <3> HIDE DEF j, owners
    <3>3. enq \in owners => batch[j] \in Entries
      BY <3>2
    <3> QED BY Zenon, <3>3 DEF Entries
  <2> HIDE DEF j, owners
  <2> QED BY Zenon, <2>1, <2>2, <2>3, BufferTyped
<1>3. enq' \in {enq, None}
  BY Zenon DEF Replied
<1> QED BY <1>1, <1>2, <1>3

\* The file after more frames, some of them flushed.
LEMMA FileTyped ==
    ASSUME TypeOK, NEW frames \in Seq(Frames), Len(frames) >= Len(file.frames),
           NEW fl \in file.flushed .. Len(frames)
    PROVE  /\ file \in Files /\ file.synced \in Nat /\ file.flushed \in Nat
           /\ Len(file.frames) \in Nat /\ file.frames \in Seq(Frames)
           /\ file.synced <= file.flushed /\ file.flushed <= Len(file.frames)
           /\ fl \in Nat /\ file.synced <= fl /\ fl <= Len(frames) /\ fl >= 0
<1>1. file \in Files /\ file.synced <= file.flushed /\ file.flushed <= Len(file.frames)
  BY Zenon DEF TypeOK
<1>2. file.synced \in Nat /\ file.flushed \in Nat /\ file.frames \in Seq(Frames)
  BY Zenon, <1>1 DEF Files
<1> QED BY <1>1, <1>2

\* The batch taken from the queue and what is left of it.
LEMMA QueueParts ==
    ASSUME TypeOK, NEW n \in 1 .. Len(queue)
    PROVE  /\ SubSeq(queue, 1, n) \in Seq(Entries) /\ Len(SubSeq(queue, 1, n)) = n
           /\ DOMAIN SubSeq(queue, 1, n) = 1 .. n
           /\ \A i \in 1 .. n : SubSeq(queue, 1, n)[i] = queue[i]
           /\ SubSeq(queue, n + 1, Len(queue)) \in Seq(Entries)
           /\ Len(SubSeq(queue, n + 1, Len(queue))) = Len(queue) - n
           /\ \A i \in 1 .. Len(queue) - n : SubSeq(queue, n + 1, Len(queue))[i] = queue[n + i]
           /\ \A i \in 1 .. Len(queue) : queue[i] \in Entries
<1>1. queue \in Seq(Entries) /\ Len(queue) \in Nat /\ n \in Nat /\ 1 <= n /\ n <= Len(queue)
  BY DEF TypeOK
<1>2. \A i \in 1 .. Len(queue) : queue[i] \in Entries
  BY <1>1
<1>3. /\ SubSeq(queue, 1, n) \in Seq(Entries) /\ Len(SubSeq(queue, 1, n)) = n
      /\ \A i \in 1 .. n : SubSeq(queue, 1, n)[i] = queue[i]
  <2>1. \A i \in 1 .. n : queue[i] \in Entries
    BY <1>1, <1>2
  <2> QED BY <1>1, <2>1, SubSeqProperties
<1>4. /\ SubSeq(queue, n + 1, Len(queue)) \in Seq(Entries)
      /\ Len(SubSeq(queue, n + 1, Len(queue))) = Len(queue) - n
      /\ \A i \in 1 .. Len(queue) - n : SubSeq(queue, n + 1, Len(queue))[i] = queue[n + i]
  <2>1. \A i \in n + 1 .. Len(queue) : queue[i] \in Entries
    BY <1>1, <1>2
  <2> QED BY <1>1, <2>1, SubSeqProperties
<1> QED BY <1>2, <1>3, <1>4

\* The frames of a batch, and the file with some of them.
LEMMA BatchParts ==
    ASSUME TypeOK, NEW n \in 1 .. Len(queue), NEW w \in 0 .. n
    PROVE  LET frames == [i \in 1 .. n |-> SubSeq(queue, 1, n)[i].frame]
               all == file.frames \o SubSeq(frames, 1, w)
           IN  /\ all \in Seq(Frames) /\ Len(all) = Len(file.frames) + w
               /\ \A i \in 1 .. Len(file.frames) : all[i] = file.frames[i]
               /\ \A i \in 1 .. w : all[Len(file.frames) + i] = queue[i].frame
               /\ w = n => all = file.frames \o frames
<1> DEFINE frames == [i \in 1 .. n |-> SubSeq(queue, 1, n)[i].frame]
<1>0. /\ file.frames \in Seq(Frames) /\ Len(file.frames) \in Nat
      /\ n \in Nat /\ w \in Nat /\ \A i \in 1 .. w : i \in 1 .. n
  <2>1. file.frames \in Seq(Frames) /\ Len(queue) \in Nat
    BY DEF TypeOK, Files
  <2> QED BY <2>1
<1>1. \A i \in 1 .. n : frames[i] = queue[i].frame /\ frames[i] \in Frames
  <2>1. \A i \in 1 .. n : SubSeq(queue, 1, n)[i] = queue[i] /\ queue[i] \in Entries
    BY QueueParts
  <2> QED BY Zenon, <2>1 DEF Entries
<1>2. frames \in Seq(Frames) /\ Len(frames) = n
  <2>1. frames \in [1 .. n -> Frames]
    BY <1>1
  <2> HIDE DEF frames
  <2> QED BY <1>0, <2>1
<1> HIDE DEF frames
<1>3. /\ SubSeq(frames, 1, w) \in Seq(Frames) /\ Len(SubSeq(frames, 1, w)) = w
      /\ \A i \in 1 .. w : SubSeq(frames, 1, w)[i] = frames[i]
  <2>1. \A i \in 1 .. w : frames[i] \in Frames
    BY <1>0, <1>1
  <2> QED BY <1>0, <2>1, SubSeqProperties
<1>4. w = n => SubSeq(frames, 1, w) = frames
  BY <1>2, SubSeqFull
<1> DEFINE part == SubSeq(frames, 1, w)
           all == file.frames \o part
<1>5. /\ all \in Seq(Frames) /\ Len(all) = Len(file.frames) + w
      /\ \A i \in 1 .. Len(file.frames) + w : all[i] =
            IF i <= Len(file.frames) THEN file.frames[i] ELSE part[i - Len(file.frames)]
  <2>1. part \in Seq(Frames) /\ Len(part) = w
    BY <1>3
  <2> HIDE DEF part
  <2> QED BY Zenon, <1>0, <2>1, ConcatProperties
<1>6. \A i \in 1 .. Len(file.frames) : all[i] = file.frames[i]
  <2>1. \A i \in 1 .. Len(file.frames) : i \in 1 .. Len(file.frames) + w /\ i <= Len(file.frames)
    BY <1>0
  <2> HIDE DEF all
  <2> QED BY Zenon, <1>5, <2>1
<1>7. \A i \in 1 .. w : all[Len(file.frames) + i] = queue[i].frame
  <2>1. \A i \in 1 .. w : part[i] = queue[i].frame
    <3>1. \A i \in 1 .. w : frames[i] = queue[i].frame
      BY <1>0, <1>1
    <3> QED BY <1>3, <3>1
  <2>2. \A i \in 1 .. w : /\ Len(file.frames) + i \in 1 .. Len(file.frames) + w
                          /\ ~(Len(file.frames) + i <= Len(file.frames))
                          /\ Len(file.frames) + i - Len(file.frames) = i
    BY <1>0
  <2> SUFFICES ASSUME NEW i \in 1 .. w PROVE all[Len(file.frames) + i] = queue[i].frame
    BY Zenon
  <2> DEFINE j == Len(file.frames) + i
  <2>3. j \in 1 .. Len(file.frames) + w /\ ~(j <= Len(file.frames)) /\ j - Len(file.frames) = i
    BY <2>2
  <2> HIDE DEF all, part, j
  <2>4. all[j] = part[j - Len(file.frames)]
    BY <1>5, <2>3
  <2>5. all[j] = queue[i].frame
    BY <2>1, <2>3, <2>4
  <2> QED BY Zenon, <2>5 DEF j
<1>8. w = n => all = file.frames \o frames
  BY <1>4
<1> QED BY Zenon, <1>5, <1>6, <1>7, <1>8 DEF frames

\* A file after a flush or an fsync is a file with the same frames.
LEMMA Flushes ==
    ASSUME TypeOK
    PROVE  /\ Synced \in Files /\ Synced.frames = file.frames
           /\ Synced.flushed = Len(file.frames) /\ Synced.synced = Len(file.frames)
           /\ Len(file.frames) \in Nat
           /\ \A fl \in file.flushed .. Len(file.frames) :
                 LET f == [file EXCEPT !.flushed = fl]
                 IN  /\ f \in Files /\ f.frames = file.frames /\ f.flushed = fl
                     /\ f.synced = file.synced /\ f.synced <= f.flushed /\ f.flushed <= Len(f.frames)
<1>1. file \in Files /\ file.synced <= file.flushed /\ file.flushed <= Len(file.frames)
  BY Zenon DEF TypeOK
<1>2. Len(file.frames) \in Nat /\ file.synced \in Nat /\ file.flushed \in Nat
  BY <1>1 DEF Files
<1>3. /\ Synced \in Files /\ Synced.frames = file.frames
      /\ Synced.flushed = Len(file.frames) /\ Synced.synced = Len(file.frames)
  BY Zenon, <1>1, <1>2 DEF Synced, Files
<1>4. ASSUME NEW fl \in file.flushed .. Len(file.frames)
      PROVE  LET f == [file EXCEPT !.flushed = fl]
             IN  /\ f \in Files /\ f.frames = file.frames /\ f.flushed = fl
                 /\ f.synced = file.synced /\ f.synced <= f.flushed /\ f.flushed <= Len(f.frames)
  <2> DEFINE f == [file EXCEPT !.flushed = fl]
  <2>1. fl \in Nat /\ file.synced <= fl /\ fl <= Len(file.frames)
    BY <1>1, <1>2
  <2>2. f \in Files /\ f.frames = file.frames /\ f.flushed = fl /\ f.synced = file.synced
    BY Zenon, <1>1, <2>1 DEF Files
  <2> HIDE DEF f
  <2>3. f.synced <= f.flushed /\ f.flushed <= Len(f.frames)
    BY <2>1, <2>2
  <2> QED BY Zenon, <2>2, <2>3 DEF f
<1> QED BY <1>2, <1>3, <1>4

\* Every step of the sync loop keeps the state well typed.
LEMMA SyncLoopTyped ==
    ASSUME IndexFacts, TypeOK, conf' = conf, SyncLoop
    PROVE  TypeOK'
<1>1. ASSUME NEW n \in 1 .. Len(queue), DrainBatch(n) PROVE TypeOK'
  <2> DEFINE batch == SubSeq(queue, 1, n)
             frames == [i \in 1 .. n |-> batch[i].frame]
             all == file.frames \o frames
  <2>1. /\ batch \in Seq(Entries) /\ \A i \in 1 .. n : batch[i] \in Entries
        /\ Len(batch) = n /\ SubSeq(queue, n + 1, Len(queue)) \in Seq(Entries)
    BY QueueParts DEF TypeOK
  <2>2. all \in Seq(Frames) /\ Len(all) = Len(file.frames) + n /\ n \in Nat
    <3>1. n \in 0 .. n /\ n \in Nat
      BY DEF TypeOK
    <3> HIDE DEF all
    <3> QED BY Zenon, <3>1, BatchParts DEF all
  <2>3. queue' \in Seq(Entries)
    BY Zenon, <1>1, <2>1 DEF DrainBatch
  <2>4. UNCHANGED <<mem, unavail, policy, orphan, installed, rewriteDue, save, saveDue,
                    snap, config, count, history>>
    BY Zenon, <1>1 DEF DrainBatch
  <2>5. ASSUME NEW err \in BOOLEAN, Replied(batch, err), failed' \in BOOLEAN, seq' \in Seqs,
               file' \in Files, file'.synced <= file'.flushed, file'.flushed <= Len(file'.frames)
        PROVE  TypeOK'
    <3>1. /\ client' \in [Clients -> WriteStates]
          /\ rewrite' \in Rewrites
          /\ enq' \in {enq, None}
      BY Zenon, <2>1, <2>5, RepliedTyped
    <3> QED BY <2>3, <2>4, <2>5, <3>1 DEF TypeOK, history, Policies
  <2>6. CASE failed /\ Replied(batch, TRUE) /\ UNCHANGED <<failed, seq, file>>
    <3>1. TypeOK /\ failed' \in BOOLEAN /\ seq' \in Seqs /\ file' \in Files
          /\ file'.synced <= file'.flushed /\ file'.flushed <= Len(file'.frames)
      BY Zenon, <2>6 DEF TypeOK
    <3> QED BY Zenon, <2>5, <2>6, <3>1
  <2>7. \A i \in 1 .. n : batch[i].seq \in Nat
    BY Zenon, <2>1 DEF Entries
  <2>8. CASE /\ ~failed
             /\ Replied(batch, FALSE)
             /\ failed' = FALSE
             /\ seq' = [seq EXCEPT !.written = batch[n].seq,
                                   !.synced = IF NeedSync(batch) THEN SyncsThrough(batch) ELSE @]
             /\ \E fl \in file.flushed .. Len(all) :
                   /\ NeedSync(batch) => fl = Len(all)
                   /\ file' = [frames |-> all, flushed |-> fl,
                               synced |-> IF NeedSync(batch) THEN fl ELSE file.synced]
    <3>1. PICK fl \in file.flushed .. Len(all) :
             file' = [frames |-> all, flushed |-> fl,
                      synced |-> IF NeedSync(batch) THEN fl ELSE file.synced]
      BY Zenon, <2>8
    <3> HIDE DEF all, batch
    <3>2. /\ file.synced \in Nat /\ file.flushed \in Nat /\ Len(file.frames) \in Nat
          /\ fl \in Nat /\ file.synced <= fl /\ fl <= Len(all)
      <4>1. /\ file.synced \in Nat /\ file.flushed \in Nat /\ Len(file.frames) \in Nat
            /\ file.synced <= file.flushed
        <5>1. file \in Files /\ file.synced <= file.flushed
          BY Zenon DEF TypeOK
        <5> QED BY <5>1 DEF Files
      <4>2. Len(all) \in Nat
        BY <2>2, <4>1
      <4> QED BY <3>1, <4>1, <4>2
    <3>3. file' \in Files /\ file'.synced <= file'.flushed /\ file'.flushed <= Len(file'.frames)
      BY <2>2, <3>1, <3>2 DEF Files
    <3>4. seq' \in Seqs
      <4>1. seq' = [seq EXCEPT !.written = batch[n].seq,
                               !.synced = IF NeedSync(batch) THEN SyncsThrough(batch) ELSE @]
        BY <2>8
      <4>2. seq \in Seqs /\ n \in 1 .. n
        BY <2>2 DEF TypeOK
      <4>3. SyncsThrough(batch) = batch[n].seq /\ batch[n].seq \in Nat
        BY Zenon, <2>1, <2>7, <4>2 DEF SyncsThrough
      <4> QED BY Zenon, <4>1, <4>2, <4>3 DEF Seqs
    <3> QED BY Zenon, <2>5, <2>8, <3>3, <3>4 DEF batch
  <2>9. ASSUME NEW w \in 0 .. n, NEW fl \in file.flushed .. Len(all),
               fl <= Len(file.frames) + w,
               failed' = TRUE,
               Replied(batch, TRUE),
               seq' = [seq EXCEPT !.written = IF w = 0 THEN @ ELSE batch[w].seq],
               file' = [file EXCEPT !.frames = file.frames \o SubSeq(frames, 1, w), !.flushed = fl]
        PROVE  TypeOK'
    <3> DEFINE some == file.frames \o SubSeq(frames, 1, w)
    <3>1. some \in Seq(Frames) /\ Len(some) = Len(file.frames) + w
      BY Zenon, BatchParts
    <3> HIDE DEF some
    <3>2. file' = [file EXCEPT !.frames = some, !.flushed = fl]
      BY Zenon, <2>9 DEF some
    <3>3. /\ file.synced \in Nat /\ file.flushed \in Nat /\ Len(file.frames) \in Nat
          /\ file.synced <= file.flushed /\ file \in Files
      BY DEF TypeOK, Files
    <3>4. fl \in Nat /\ file.flushed <= fl /\ fl <= Len(some)
      BY <2>2, <2>9, <3>1, <3>3
    <3>5. file' \in Files /\ file'.synced = file.synced /\ file'.flushed = fl /\ file'.frames = some
      BY Zenon, <3>1, <3>2, <3>3, <3>4 DEF Files
    <3>6. file'.synced <= file'.flushed /\ file'.flushed <= Len(file'.frames)
      BY <3>1, <3>3, <3>4, <3>5
    <3>7. seq' \in Seqs
      <4>1. seq \in Seqs /\ (w # 0 => w \in 1 .. n)
        BY <2>2 DEF TypeOK
      <4>2. seq' = [seq EXCEPT !.written = IF w = 0 THEN @ ELSE batch[w].seq]
        BY <2>9
      <4> HIDE DEF batch
      <4> QED BY Zenon, <2>7, <4>1, <4>2 DEF Seqs
    <3>8. Replied(batch, TRUE) /\ failed' \in BOOLEAN
      BY Zenon, <2>9
    <3> HIDE DEF batch
    <3> QED BY Zenon, <2>5, <3>5, <3>6, <3>7, <3>8
  <2> QED BY Zenon, <1>1, <2>6, <2>8, <2>9 DEF DrainBatch
<1>2. CASE Tick
  <2>3. CASE /\ file' = Synced
             /\ seq' = [seq EXCEPT !.synced = seq.written]
             /\ UNCHANGED failed
    <3>1. file' \in Files /\ file'.synced <= file'.flushed /\ file'.flushed <= Len(file'.frames)
      BY <2>3, Flushes
    <3>2. seq' \in Seqs
      BY Zenon, <2>3 DEF Seqs, TypeOK
    <3> QED BY <1>2, <2>3, <3>1, <3>2 DEF TypeOK, Tick, jobVars, history, Policies
  <2>4. ASSUME NEW fl \in file.flushed .. Len(file.frames),
               failed' = TRUE, UNCHANGED seq, file' = [file EXCEPT !.flushed = fl]
        PROVE  TypeOK'
    <3>1. file' \in Files /\ file'.synced <= file'.flushed /\ file'.flushed <= Len(file'.frames)
      BY <2>4, Flushes
    <3> QED BY <1>2, <2>4, <3>1 DEF TypeOK, Tick, jobVars, history, Policies
  <2> QED BY Zenon, <1>2, <2>3, <2>4 DEF Tick
<1> QED BY Zenon, <1>1, <1>2 DEF SyncLoop, DrainBatch

\* Both steps of CONFIG SET appendfsync keep the state well typed.
LEMMA AdminTyped ==
    ASSUME TypeOK, conf' = conf, Admin
    PROVE  TypeOK'
<1>1. ASSUME NEW p \in Policies, SetPolicyStart(p) PROVE TypeOK'
  <2>1. count' \in [Bounded -> Nat]
    BY <1>1 DEF SetPolicyStart, Bump, TypeOK, Bounded
  <2> QED BY Zenon, <1>1, <2>1 DEF TypeOK, SetPolicyStart, jobVars, history, Policies
<1>2. CASE SetPolicy
  <2>1. /\ config' = None /\ enq' = None
        /\ UNCHANGED <<mem, client, unavail, queue, orphan, installed, jobVars, count, history>>
    BY Zenon, <1>2 DEF SetPolicy
  <2>2. /\ policy' \in {policy, config} /\ config \in Policies \ {None} /\ failed' \in BOOLEAN
        /\ seq' \in {seq, [seq EXCEPT !.synced = seq.appended]}
        /\ file' \in {file, Synced} \cup {[file EXCEPT !.flushed = fl] : fl \in file.flushed .. Len(file.frames)}
    BY Zenon, <1>2 DEF SetPolicy, TypeOK
  <2>3. seq' \in Seqs
    BY Zenon, <2>2 DEF Seqs, TypeOK
  <2>4. file' \in Files /\ file'.synced <= file'.flushed /\ file'.flushed <= Len(file'.frames)
    <3>1. CASE file' = file
      BY Zenon, <3>1 DEF TypeOK
    <3>2. CASE file' = Synced
      BY <3>2, Flushes
    <3>3. ASSUME NEW fl \in file.flushed .. Len(file.frames), file' = [file EXCEPT !.flushed = fl]
          PROVE  file' \in Files /\ file'.synced <= file'.flushed /\ file'.flushed <= Len(file'.frames)
      BY <3>3, Flushes
    <3> QED BY Zenon, <2>2, <3>1, <3>2, <3>3
  <2>5. policy' \in {"always", "everysec", "no"}
    BY Zenon, <2>2, AofAssumption DEF TypeOK, Policies
  <2> QED BY Zenon, <2>1, <2>2, <2>3, <2>4, <2>5 DEF TypeOK, jobVars, history, Policies
<1> QED BY Zenon, <1>1, <1>2 DEF Admin

\* The clients a batch wakes, and those it does not.
LEMMA RepliedLog ==
    ASSUME IndexFacts, LogInv, NEW n \in 1 .. Len(queue), NEW err \in BOOLEAN,
           Replied(SubSeq(queue, 1, n), err),
           UNCHANGED <<conf, policy, config, commits, undone>>,
           queue' = SubSeq(queue, n + 1, Len(queue)),
           failed => failed', err => failed',
           Reach(file.frames, file.synced) <= Reach(file.frames, file.synced)',
           Reach(file.frames, file.synced) \in Nat, Reach(file.frames, file.synced)' \in Nat,
           ~err => \A i \in 1 .. n : queue[i].done # None =>
                       queue[i].frame.idx <= Reach(file.frames, file.synced)'
    PROVE  /\ WritesSound' /\ LocksHeld'
           /\ ~failed' /\ ~err => RewriteInOrder'
<1> DEFINE owners == {queue[i].done : i \in 1 .. n} \ {None}
           woken(c) == [client[c] EXCEPT !.pc = "finish", !.err = err]
<1>0. n \in Nat /\ Len(queue) \in Nat /\ n <= Len(queue)
  BY LogFacts
<1>1. /\ \A i \in 1 .. n : i \in 1 .. Len(queue) /\ SubSeq(queue, 1, n)[i] = queue[i]
      /\ DOMAIN SubSeq(queue, 1, n) = 1 .. n
      /\ Len(queue') = Len(queue) - n /\ DOMAIN queue' = 1 .. Len(queue) - n
      /\ \A i \in 1 .. Len(queue) - n : queue'[i] = queue[n + i] /\ n + i \in 1 .. Len(queue)
  <2>1. queue' \in Seq(Entries)
    BY Zenon, LogFacts, QueueParts
  <2>2. queue \in Seq(Entries)
    BY Zenon, LogFacts
  <2> QED BY <1>0, <2>1, <2>2, LogFacts, QueueParts
<1>2. owners = {SubSeq(queue, 1, n)[i].done : i \in DOMAIN SubSeq(queue, 1, n)} \ {None}
  BY Zenon, <1>1
<1>3. ASSUME NEW i \in 1 .. Len(queue), queue[i].done # None
      PROVE  /\ queue[i].done \in Clients /\ client[queue[i].done].pc = "done"
             /\ client[queue[i].done].idx = queue[i].frame.idx
  BY <1>3, LogFacts DEF LogInv, WritesSound
<1>4. ASSUME NEW c \in owners
      PROVE  /\ c \in Clients /\ client[c].pc = "done"
             /\ \E i \in 1 .. n : queue[i].done = c /\ client[c].idx = queue[i].frame.idx
  <2>1. PICK i \in 1 .. n : queue[i].done = c
    OBVIOUS
  <2>2. c # None /\ i \in 1 .. Len(queue)
    BY <1>1
  <2> HIDE DEF owners
  <2> QED BY Zenon, <1>3, <2>1, <2>2
<1>5. ASSUME NEW i \in n + 1 .. Len(queue), queue[i].done # None PROVE queue[i].done \notin owners
  <2>0. i \in 1 .. Len(queue) /\ \A j \in 1 .. n : j \in 1 .. Len(queue)
    BY <1>0
  <2>1. ASSUME NEW j \in 1 .. n, queue[j].done = queue[i].done PROVE FALSE
    <3>1. queue[i].frame.idx = queue[j].frame.idx
      BY Zenon, <1>3, <1>5, <2>0, <2>1
    <3>2. /\ queue[i].frame.idx = queue[1].frame.idx + i - 1 /\ queue[j].frame.idx = queue[1].frame.idx + j - 1
          /\ queue[1].frame.idx \in Nat
      BY Zenon, <2>0, QueueOrder
    <3>3. i \in Nat /\ j \in Nat /\ j < i
      BY <1>0
    <3>4. queue[1].frame.idx + i - 1 = queue[1].frame.idx + j - 1
      BY Zenon, <3>1, <3>2
    <3> QED BY <3>2, <3>3, <3>4
  <2> QED BY Zenon, <2>1
<1>6. /\ \A c \in owners : /\ client'[c].pc = "finish" /\ client'[c].err = err /\ client'[c].idx = client[c].idx
                           /\ client'[c].kind = client[c].kind /\ client'[c].keys = client[c].keys
                           /\ client'[c].sync = client[c].sync
      /\ \A c \in Clients \ owners : client'[c] = client[c]
  <2>1. client' = [c \in Clients |-> IF c \in owners THEN woken(c) ELSE client[c]]
    BY Zenon, <1>2 DEF Replied
  <2>2. ASSUME NEW c \in owners
        PROVE  /\ woken(c).pc = "finish" /\ woken(c).err = err /\ woken(c).idx = client[c].idx
               /\ woken(c).kind = client[c].kind /\ woken(c).keys = client[c].keys
               /\ woken(c).sync = client[c].sync
    <3>1. client[c] \in WriteStates
      BY Zenon, <1>4, Typed DEF LogInv
    <3> QED BY Zenon, <3>1 DEF WriteStates
  <2> HIDE DEF owners, woken
  <2> QED BY <1>4, <2>1, <2>2
<1>7. /\ enq' = IF enq \in owners THEN None ELSE enq
      /\ ~(enq \in owners /\ ~err) => rewrite' = rewrite
      /\ enq \in owners /\ ~err =>
            \E i \in 1 .. n : queue[i].done = enq /\ rewrite' = Buffered(rewrite, queue[i].frame)
  <2>1. /\ enq' = IF enq \in owners THEN None ELSE enq
        /\ ~(enq \in owners /\ ~err) => rewrite' = rewrite
    BY Zenon, <1>2 DEF Replied
  <2>2. ASSUME enq \in owners, ~err
        PROVE  \E i \in 1 .. n : queue[i].done = enq /\ rewrite' = Buffered(rewrite, queue[i].frame)
    <3> DEFINE i == CHOOSE i \in 1 .. n : SubSeq(queue, 1, n)[i].done = enq
    <3>1. rewrite' = Buffered(rewrite, SubSeq(queue, 1, n)[i].frame)
      BY Zenon, <1>1, <1>2, <2>2 DEF Replied
    <3>2. \E j \in 1 .. n : SubSeq(queue, 1, n)[j].done = enq
      BY <1>1, <2>2
    <3>3. i \in 1 .. n /\ SubSeq(queue, 1, n)[i].done = enq
      BY Zenon, <3>2
    <3> HIDE DEF i
    <3> QED BY <1>1, <3>1, <3>3
  <2> QED BY <2>1, <2>2
<1> HIDE DEF owners
<1>8. \A d \in Clients : Busy(d)' = Busy(d) /\ client'[d].kind = client[d].kind /\ client'[d].keys = client[d].keys
  BY <1>4, <1>6 DEF Busy
<1>9. rewrite'.phase = rewrite.phase /\ rewrite'.idx = rewrite.idx /\ RewriteActive' = RewriteActive
  <2>1. rewrite \in Rewrites
    BY Zenon, RewriteFacts
  <2>2. rewrite'.phase = rewrite.phase /\ rewrite'.idx = rewrite.idx
    BY Zenon, <1>7, <2>1 DEF Buffered, Rewrites
  <2> QED BY Zenon, <2>2 DEF RewriteActive
<1>10. WritesSound'
  <2>1. ASSUME NEW d \in Clients PROVE WriteSound(d)'
    <3>1. CASE d \in owners
      <4>1. Busy(d) /\ client[d].pc = "done"
        BY Zenon, <1>4, <3>1 DEF Busy
      <4>2. /\ client[d].kind \in WriteKinds /\ client[d].kind \in Kinds /\ client[d].keys # {}
            /\ client[d].kind \in {"batch", "exec"} => client[d].keys = Keys
            /\ client[d].idx \in DOMAIN commits
        BY Zenon, <4>1 DEF LogInv, WritesSound, WriteSound
      <4>3. client[d].idx \in 0 .. Len(commits) /\ client[d].idx > 0
        <5>1. Len(commits) \in Nat /\ DOMAIN commits = 1 .. Len(commits)
          BY LogFacts
        <5> QED BY <4>2, <5>1
      <4>4. ~err => client[d].idx <= Reach(file.frames, file.synced)'
        <5>1. PICK i \in 1 .. n : queue[i].done = d /\ client[d].idx = queue[i].frame.idx
          BY <1>4, <3>1
        <5>2. d # None
          BY AofAssumption
        <5> QED BY <5>1, <5>2
      <4> QED BY Zenon, <1>6, <1>8, <3>1, <4>1, <4>2, <4>3, <4>4 DEF WriteSound, Kinds
    <3>2. CASE d \notin owners
      <4>1. commits' \in Seq(Commits) /\ Len(commits) <= Len(commits')
        BY LogFacts
      <4> QED BY Zenon, <1>6, <3>2, <4>1, StillSound
    <3> QED BY <3>1, <3>2
  <2>2. ASSUME NEW i \in DOMAIN queue', queue'[i].done # None
        PROVE  client'[queue'[i].done].pc = "done" /\ client'[queue'[i].done].idx = queue'[i].frame.idx
    <3>1. queue'[i] = queue[n + i] /\ n + i \in n + 1 .. Len(queue) /\ n + i \in 1 .. Len(queue)
      <4>1. i \in 1 .. Len(queue) - n
        BY Zenon, <1>1
      <4>2. n + i \in n + 1 .. Len(queue)
        BY <1>0, <4>1
      <4> QED BY Zenon, <1>1, <4>1, <4>2
    <3>2. queue'[i].done \in Clients \ owners
      BY Zenon, <1>3, <1>5, <2>2, <3>1
    <3>3. /\ client[queue[n + i].done].pc = "done"
          /\ client[queue[n + i].done].idx = queue[n + i].frame.idx
      BY Zenon, <1>3, <2>2, <3>1
    <3> QED BY ZenonT(40), <1>6, <3>1, <3>2, <3>3
  <2>3. undone \subseteq DOMAIN commits
    BY Zenon DEF LogInv, WritesSound
  <2> QED BY Zenon, <2>1, <2>2, <2>3 DEF WritesSound
<1>11. None \notin Clients \cup {"config", "rewrite"} /\ Clients \cap {"config", "rewrite"} = {}
  BY Zenon, AofAssumption
<1>12. LocksHeld'
  <2>1. \A d, e \in Clients : d # e /\ Busy(d)' /\ Busy(e)' =>
          /\ client'[d].kind = "fast" /\ client'[e].kind = "fast"
          /\ client'[d].keys \cap client'[e].keys = {}
    BY Zenon, <1>8 DEF LogInv, LocksHeld
  <2>2. ASSUME NEW d \in Clients
        PROVE  /\ client'[d].pc = "drain" => enq' = d
               /\ client'[d].pc = "done" /\ RewriteActive => enq' = d
               /\ enq' = d => \/ client'[d].pc = "drain"
                              \/ client'[d].pc = "done" /\ RewriteActive /\ client'[d].idx = Len(commits)
    <3>1. CASE d \in owners
      BY ZenonT(40), <1>6, <1>7, <1>11, <3>1
    <3>2. CASE d \notin owners
      <4>1. client'[d] = client[d] /\ (enq = d <=> enq' = d)
        BY Zenon, <1>6, <1>7, <1>11, <3>2
      <4> QED BY <4>1 DEF LogInv, LocksHeld
    <3> QED BY <3>1, <3>2
  <2>3. /\ config # None \/ rewrite.phase = "begin" => \A d \in Clients : ~Busy(d)
        /\ config # None <=> enq = "config"
        /\ rewrite.phase \in {"begin", "install"} <=> enq = "rewrite"
    BY Zenon DEF LogInv, LocksHeld
  <2>4. (enq' = "config" <=> enq = "config") /\ (enq' = "rewrite" <=> enq = "rewrite")
    BY Zenon, <1>4, <1>7, <1>11
  <2> QED BY Zenon, <1>8, <1>9, <2>1, <2>2, <2>3, <2>4 DEF LocksHeld
<1>13. ASSUME ~failed', ~err PROVE RewriteInOrder'
  <2> SUFFICES ASSUME RewriteActive
               PROVE  /\ \A i \in DOMAIN rewrite'.buffer : rewrite'.buffer[i].idx = rewrite'.idx + i
                      /\ rewrite'.idx + Len(rewrite'.buffer) + Unbuffered' = Len(commits)
    BY Zenon, <1>9 DEF RewriteInOrder
  <2>1. /\ \A i \in DOMAIN rewrite.buffer : rewrite.buffer[i].idx = rewrite.idx + i
        /\ rewrite.idx + Len(rewrite.buffer) + Unbuffered = Len(commits)
    BY Zenon, <1>13 DEF LogInv, RewriteInOrder
  <2>2. rewrite \in Rewrites /\ rewrite.idx \in Nat /\ Len(rewrite.buffer) \in Nat
    BY Zenon, RewriteFacts
  <2>3. CASE enq \in owners
    <3>1. PICK i \in 1 .. n : queue[i].done = enq /\ rewrite' = Buffered(rewrite, queue[i].frame)
      BY <1>7, <1>13, <2>3
    <3>2. enq \in Clients /\ client[enq].pc = "done" /\ client[enq].idx = queue[i].frame.idx
      <4>1. enq \in Clients /\ client[enq].pc = "done"
        BY Zenon, <1>4, <2>3
      <4>2. queue[i].done # None /\ i \in 1 .. Len(queue)
        BY Zenon, <1>1, <1>11, <3>1, <4>1
      <4> QED BY Zenon, <1>3, <3>1, <4>1, <4>2
    <3>3. queue[i].frame.idx = Len(commits)
      BY Zenon, <3>2 DEF LogInv, LocksHeld
    <3>4. Unbuffered = 1
      BY Zenon, <3>2 DEF Unbuffered
    <3>5. Unbuffered' = 0
      <4>1. \A d \in Clients : enq' # d
        BY <1>7, <1>11, <2>3
      <4> QED BY Zenon, <4>1 DEF Unbuffered
    <3>6. queue[i].frame \in Frames
      <4>1. queue[i] \in Entries
        BY <1>1, LogFacts
      <4> QED BY ZenonT(40), <4>1 DEF Entries
    <3>7. queue[i].frame.idx = rewrite.idx + Len(rewrite.buffer) + 1
      BY Zenon, <2>1, <2>2, <3>3, <3>4
    <3>8. /\ Len(rewrite'.buffer) = Len(rewrite.buffer) + 1
          /\ \A j \in DOMAIN rewrite'.buffer : rewrite'.buffer[j].idx = rewrite.idx + j
      BY ZenonT(40), <2>1, <2>2, <3>1, <3>6, <3>7, BufferGrows DEF RewriteActive
    <3>9. /\ rewrite.idx + Len(rewrite.buffer) + 1 = Len(commits)
          /\ rewrite.idx + (Len(rewrite.buffer) + 1) + 0 = rewrite.idx + Len(rewrite.buffer) + 1
      <4>1. rewrite.idx + Len(rewrite.buffer) + 1 = Len(commits)
        BY Zenon, <2>1, <3>4
      <4>2. rewrite.idx \in Nat /\ Len(rewrite.buffer) \in Nat
        BY Zenon, <2>2
      <4>3. rewrite.idx + (Len(rewrite.buffer) + 1) + 0 = rewrite.idx + Len(rewrite.buffer) + 1
        BY <4>2
      <4> QED BY Zenon, <4>1, <4>3
    <3> QED BY Zenon, <1>9, <3>5, <3>8, <3>9
  <2>4. CASE enq \notin owners
    <3>1. rewrite' = rewrite /\ enq' = enq
      BY <1>7, <2>4
    <3>2. Unbuffered' = Unbuffered
      <4>1. \A d \in Clients : enq = d => client'[d] = client[d]
        BY <1>6, <2>4
      <4> QED BY Zenon, <3>1, <4>1 DEF Unbuffered
    <3> QED BY Zenon, <2>1, <3>1, <3>2
  <2> QED BY <2>3, <2>4
<1> QED BY Zenon, <1>10, <1>12, <1>13

\* The file after the first w frames of a batch were written.
LEMMA BatchReach ==
    ASSUME LogInv, ~failed, NEW n \in 1 .. Len(queue), NEW w \in 0 .. n
    PROVE  LET frames == [i \in 1 .. n |-> SubSeq(queue, 1, n)[i].frame]
               all == file.frames \o SubSeq(frames, 1, w)
           IN  /\ all \in Seq(Frames) /\ Len(all) = Len(file.frames) + w
               /\ \A i \in DOMAIN all : all[i].idx = all[1].idx + i - 1
               /\ \A i \in 0 .. Len(file.frames) : Reach(all, i) = Reach(file.frames, i)
               /\ Reach(all, Len(all)) = Written + w
               /\ w = n => all = file.frames \o frames
<1> DEFINE F == file.frames
           frames == [i \in 1 .. n |-> SubSeq(queue, 1, n)[i].frame]
           all == F \o SubSeq(frames, 1, w)
<1>1. /\ all \in Seq(Frames) /\ Len(all) = Len(F) + w
      /\ \A i \in 1 .. Len(F) : all[i] = F[i]
      /\ \A i \in 1 .. w : all[Len(F) + i] = queue[i].frame
      /\ w = n => all = F \o frames
  BY Zenon, BatchParts DEF LogInv
<1>2. /\ F \in Seq(Frames) /\ w \in Nat /\ Len(queue) \in Nat /\ Written \in Nat
      /\ \A i \in 1 .. w : i \in 1 .. Len(queue)
  BY LogFacts, FileFacts
<1> HIDE DEF all
<1>3. \A i \in 1 .. w : queue[i].frame.idx = Written + i
  <2>1. /\ \A i \in DOMAIN queue : queue[i].frame.idx = queue[1].frame.idx + i - 1
        /\ queue # <<>> => queue[1].frame.idx = Written + 1
        /\ queue # <<>>
    BY LogFacts DEF LogInv, LogInOrder
  <2>2. queue[1].frame.idx = Written + 1 /\ \A i \in 1 .. w : i \in DOMAIN queue
    BY <1>2, <2>1, LogFacts
  <2> QED BY <1>2, <2>1, <2>2
<1>4. Continues(F, w, all)
  <2>1. \A i \in DOMAIN F : F[i].idx = F[1].idx + i - 1
    BY Zenon DEF LogInv, LogInOrder
  <2>2. \A i \in 1 .. w : all[Len(F) + i].idx = Reach(F, Len(F)) + i
    BY Zenon, <1>1, <1>3 DEF Written
  <2> QED BY Zenon, <1>1, <2>1, <2>2 DEF Continues
<1>5. /\ \A i \in DOMAIN all : all[i].idx = all[1].idx + i - 1
      /\ \A i \in 0 .. Len(F) : Reach(all, i) = Reach(F, i)
      /\ Reach(all, Len(all)) = Reach(F, Len(F)) + w
  BY Zenon, <1>1, <1>2, <1>4, Extended
<1> QED BY Zenon, <1>1, <1>5 DEF all, Written

\* A batch is written, flushed and synced, or any of these fails
\* (syncLoop).
LEMMA DrainLog ==
    ASSUME IndexFacts, LogInv, TypeOK', conf' = conf, NEW n, DrainBatch(n)
    PROVE  LogInv'
<1> DEFINE F == file.frames
           q == Len(queue)
           batch == SubSeq(queue, 1, n)
           frames == [i \in 1 .. n |-> batch[i].frame]
           all(w) == F \o SubSeq(frames, 1, w)
           R == Reach(file.frames, file.synced)
<1>0. n \in 1 .. q /\ queue' = SubSeq(queue, n + 1, q)
  BY Zenon DEF DrainBatch
<1>1. UNCHANGED <<conf, policy, orphan, config, commits, floor, undone>>
  BY Zenon DEF DrainBatch, history
<1>n. n \in Nat /\ q \in Nat /\ n > 0 /\ n <= q
  <2>1. q \in Nat
    BY Zenon, LogFacts
  <2> QED BY <1>0, <2>1
<1>2. /\ Len(queue') = q - n /\ DOMAIN queue' = 1 .. q - n /\ DOMAIN queue = 1 .. q
      /\ \A i \in 1 .. q - n : queue'[i] = queue[n + i] /\ n + i \in 1 .. q
      /\ \A i \in 1 .. n : batch[i] = queue[i] /\ i \in 1 .. q
      /\ Len(batch) = n /\ DOMAIN batch = 1 .. n
  <2>1. /\ TypeOK /\ queue \in Seq(Entries) /\ queue' \in Seq(Entries)
        /\ batch \in Seq(Entries) /\ Len(batch) = n /\ \A i \in 1 .. n : batch[i] = queue[i]
        /\ Len(queue') = q - n /\ \A i \in 1 .. q - n : queue'[i] = queue[n + i]
    BY Zenon, <1>0, LogFacts, QueueParts
  <2> HIDE DEF batch
  <2> QED BY <1>n, <2>1
<1>q. queue' \in Seq(Entries) /\ Len(queue') = q - n
  BY Zenon, <1>2 DEF TypeOK
<1> HIDE DEF batch, frames, all
<1>3. /\ F \in Seq(Frames) /\ Len(F) \in Nat /\ file.synced \in 0 .. Len(F) /\ R \in Nat /\ R <= Written
      /\ file \in Files
  <2>1. file.synced \in Nat /\ file.synced <= Len(F)
    BY FileFacts DEF LogInv
  <2> QED BY <2>1, FileFacts DEF LogInv, TypeOK
<1>4. /\ \A i \in DOMAIN F : F[i].idx = F[1].idx + i - 1
      /\ \A i \in DOMAIN queue' : queue'[i].frame.idx = queue'[1].frame.idx + i - 1
      /\ ~orphan
  <2>1. /\ \A i \in DOMAIN F : F[i].idx = F[1].idx + i - 1
        /\ \A i \in 1 .. q : queue[i].frame.idx = queue[1].frame.idx + i - 1
        /\ ~orphan
    BY LogFacts DEF LogInv, LogInOrder
  <2>2. queue[1].frame.idx \in Nat
    BY <1>n, LogFacts
  <2>3. ASSUME NEW i \in 1 .. q - n
        PROVE  queue'[i].frame.idx = queue[1].frame.idx + (n + i) - 1
    BY Zenon, <1>2, <2>1
  <2>4. q - n >= 1 => queue'[1].frame.idx = queue[1].frame.idx + (n + 1) - 1
    BY <1>n, <2>3
  <2>5. ASSUME NEW i \in 1 .. q - n PROVE queue'[i].frame.idx = queue'[1].frame.idx + i - 1
    BY <1>n, <2>2, <2>3, <2>4
  <2> QED BY Zenon, <1>2, <2>1, <2>5
<1>5. /\ floor <= R
      /\ \A i \in DOMAIN commits : commits[i].seq \in 1 .. seq.synced => i <= R
      /\ policy = "always" /\ ~failed => \A i \in DOMAIN queue : queue[i].done # None
      /\ \A i, j \in DOMAIN commits : i < j =>
            /\ commits[i].seq <= commits[j].seq
            /\ commits[j].seq > 0 => commits[i].seq < commits[j].seq
      /\ seq.appended = SeqOf(Len(commits))
  BY Zenon DEF LogInv, SyncedReached, SequenceInOrder
<1>6. CASE /\ failed /\ Replied(batch, TRUE)
           /\ UNCHANGED <<failed, seq, file>>
  <2>1. R' = R /\ R \in Nat /\ R' \in Nat /\ R <= R'
    BY <1>3, <1>6 DEF Reach
  <2>2. WritesSound' /\ LocksHeld'
    BY Zenon, <1>0, <1>1, <1>6, <2>1, RepliedLog DEF batch
  <2>3. LogInOrder' /\ RewriteInOrder'
    <3>1. Written' = Written /\ Written <= Len(commits)
      BY Zenon, <1>6, LogFacts DEF Written, Reach
    <3> QED BY Zenon, <1>1, <1>4, <1>6, <3>1 DEF LogInOrder, RewriteInOrder
  <2>4. SequenceInOrder'
    BY Zenon, <1>1, <1>5, <1>6, LogFacts DEF SequenceInOrder, SeqOf
  <2>5. SyncedReached'
    BY Zenon, <1>1, <1>5, <1>6, <2>1 DEF SyncedReached
  <2> QED BY Zenon, <2>2, <2>3, <2>4, <2>5 DEF LogInv
<1>7. ASSUME NEW w \in 0 .. n, NEW fl, ~failed, failed' = TRUE, Replied(batch, TRUE),
             seq' = [seq EXCEPT !.written = IF w = 0 THEN @ ELSE batch[w].seq],
             file' = [file EXCEPT !.frames = all(w), !.flushed = fl]
      PROVE  LogInv'
  <2>1. /\ \A i \in DOMAIN all(w) : all(w)[i].idx = all(w)[1].idx + i - 1
        /\ \A i \in 0 .. Len(F) : Reach(all(w), i) = Reach(F, i)
        /\ Reach(all(w), Len(all(w))) = Written + w
    BY Zenon, <1>0, <1>7, BatchReach DEF all, frames, batch
  <2>2. w \in Nat /\ w \in 0 .. q /\ (w > 0 => w \in 1 .. n)
    BY <1>n, <1>7
  <2>3. /\ Written + w \in 0 .. Len(commits) /\ seq.written = SeqOf(Written)
        /\ w > 0 => queue[w].seq = SeqOf(Written + w)
        /\ SeqOf(Written) <= SeqOf(Written + w) /\ SeqOf(Written + w) <= seq.appended
        /\ SeqOf(Written) \in Nat /\ SeqOf(Written + w) \in Nat
    BY Zenon, <1>7, <2>2, QueueSeqs
  <2>4. file'.frames = all(w) /\ file'.synced = file.synced
    BY Zenon, <1>3, <1>7 DEF Files
  <2>5. R' = R /\ R \in Nat /\ R' \in Nat /\ R <= R'
    BY <1>3, <2>1, <2>4
  <2>6. WritesSound' /\ LocksHeld'
    BY Zenon, <1>0, <1>1, <1>7, <2>5, RepliedLog DEF batch
  <2>7. LogInOrder' /\ RewriteInOrder'
    <3>1. Written' = Written + w /\ Written + w <= Len(commits)
      BY <2>1, <2>3, <2>4, LogFacts DEF Written
    <3> QED BY ZenonT(40), <1>1, <1>4, <1>7, <2>1, <2>4, <3>1 DEF LogInOrder, RewriteInOrder
  <2>8. SequenceInOrder'
    <3>1. /\ seq'.appended = seq.appended /\ seq'.synced = seq.synced
          /\ seq'.written = IF w = 0 THEN seq.written ELSE batch[w].seq
      BY Zenon, <1>7, LogFacts DEF Seqs
    <3>2. seq'.written \in {SeqOf(Written), SeqOf(Written + w)}
      <4>1. w = 0 \/ (w > 0 /\ w # 0)
        BY <2>2
      <4>2. w > 0 => batch[w] = queue[w]
        BY Zenon, <1>2, <2>2
      <4> QED BY Zenon, <2>3, <3>1, <4>1, <4>2
    <3>3. seq.synced <= seq'.written /\ seq'.written <= seq.appended
      BY <2>3, <3>2, LogFacts
    <3> QED BY Zenon, <1>1, <1>5, <1>7, <3>1, <3>3 DEF SequenceInOrder, SeqOf
  <2>9. SyncedReached'
    <3>1. seq'.synced = seq.synced
      BY Zenon, <1>7, LogFacts DEF Seqs
    <3> QED BY Zenon, <1>1, <1>5, <1>7, <2>5, <3>1 DEF SyncedReached
  <2> QED BY Zenon, <2>6, <2>7, <2>8, <2>9 DEF LogInv
<1>8. ASSUME NEW fl, ~failed, failed' = FALSE, Replied(batch, FALSE),
             seq' = [seq EXCEPT !.written = batch[n].seq,
                                !.synced = IF NeedSync(batch) THEN batch[n].seq ELSE @],
             NeedSync(batch) => fl = Len(all(n)),
             file' = [frames |-> all(n), flushed |-> fl,
                      synced |-> IF NeedSync(batch) THEN fl ELSE file.synced]
      PROVE  LogInv'
  <2>0. n \in 0 .. n /\ n \in 0 .. q /\ n > 0
    BY <1>n
  <2>1. /\ \A i \in DOMAIN all(n) : all(n)[i].idx = all(n)[1].idx + i - 1
        /\ \A i \in 0 .. Len(F) : Reach(all(n), i) = Reach(F, i)
        /\ Reach(all(n), Len(all(n))) = Written + n
    BY Zenon, <1>0, <1>8, <2>0, BatchReach DEF all, frames, batch
  <2>2. /\ Written + n \in 0 .. Len(commits) /\ Len(commits) = Written + q
        /\ seq.written = SeqOf(Written)
        /\ queue[n].seq = SeqOf(Written + n)
        /\ SeqOf(Written) <= SeqOf(Written + n) /\ SeqOf(Written + n) <= seq.appended
        /\ SeqOf(Written) \in Nat /\ SeqOf(Written + n) \in Nat
        /\ \A i \in DOMAIN commits : commits[i].seq \in 1 .. SeqOf(Written + n) => i <= Written + n
    BY <1>8, <2>0, QueueSeqs
  <2> DEFINE s == SeqOf(Written + n)
             sync == NeedSync(batch)
  <2>3. file'.frames = all(n) /\ file'.synced = IF sync THEN Len(all(n)) ELSE file.synced
    BY Zenon, <1>8
  <2>4. /\ seq'.appended = seq.appended /\ seq'.written = s
        /\ seq'.synced = IF sync THEN s ELSE seq.synced
    <3>1. batch[n].seq = s
      <4>1. n \in 1 .. n
        BY <1>n
      <4> QED BY Zenon, <1>2, <2>2, <4>1
    <3> HIDE DEF s, sync
    <3> QED BY Zenon, <1>8, <3>1, LogFacts DEF Seqs, sync
  <2>5. R' = IF sync THEN Written + n ELSE R
    <3>1. R' = Reach(all(n), file'.synced)
      BY Zenon, <2>3
    <3> HIDE DEF sync
    <3> QED BY Zenon, <1>3, <2>1, <2>3, <3>1
  <2>6. Written \in Nat /\ R' \in Nat /\ R <= R'
    <3>1. Written \in Nat
      BY Zenon, LogFacts
    <3> QED BY <1>n, <1>3, <2>5, <3>1
  <2>7. Written' = Written + n
    BY Zenon, <2>1, <2>3 DEF Written
  <2>8. \A i \in 1 .. n : queue[i].done # None => queue[i].frame.idx <= R'
    <3>1. ASSUME NEW i \in 1 .. n, queue[i].done # None PROVE queue[i].frame.idx <= R'
      <4>1. sync
        BY Zenon, <1>2, <3>1 DEF NeedSync
      <4>2. i \in 0 .. q /\ i > 0 /\ i \in Nat /\ i <= n
        BY <1>n
      <4>3. queue[i].frame.idx = Written + i
        BY <1>8, <4>2, QueueSeqs
      <4> QED BY <1>n, <2>5, <2>6, <4>1, <4>2, <4>3
    <3> QED BY Zenon, <3>1
  <2>9. WritesSound' /\ LocksHeld' /\ RewriteInOrder'
    BY Zenon, <1>0, <1>1, <1>3, <1>8, <2>6, <2>8, RepliedLog DEF batch
  <2>10. LogInOrder'
    <3>1. Written + n <= Len(commits) /\ Written + n + (q - n) = Len(commits)
      BY <1>n, <2>2, <2>6
    <3>2. queue' # <<>> => queue'[1].frame.idx = Written + n + 1
      <4>1. ASSUME queue' # <<>> PROVE queue'[1].frame.idx = Written + (n + 1)
        <5>1. 1 \in 1 .. q - n /\ n + 1 \in 0 .. q /\ n + 1 > 0
          <6>1. Len(queue') # 0
            BY <1>q, <4>1
          <6> QED BY <1>n, <1>q, <6>1
        <5>2. queue[n + 1].frame.idx = Written + (n + 1)
          BY Zenon, <1>8, <5>1, QueueSeqs
        <5> QED BY Zenon, <1>2, <5>1, <5>2
      <4> QED BY <1>n, <2>6, <4>1
    <3> QED BY ZenonT(40), <1>1, <1>2, <1>4, <2>1, <2>3, <2>7, <3>1, <3>2 DEF LogInOrder
  <2>11. SequenceInOrder'
    <3>1. seq'.synced <= seq'.written /\ seq'.written <= seq'.appended
      BY <2>2, <2>4, LogFacts
    <3>2. SeqOf(Written)' = s
      BY Zenon, <1>1, <2>7 DEF SeqOf
    <3>3. ASSUME NEW i \in DOMAIN queue'
          PROVE  queue'[i].seq > 0 /\ queue'[i].seq = SeqOf(queue[i].frame.idx)'
      <4>1. queue'[i] = queue[n + i] /\ n + i \in DOMAIN queue
        BY Zenon, <1>2
      <4>2. queue[n + i].seq > 0 /\ queue[n + i].seq = SeqOf(queue[n + i].frame.idx)
        BY Zenon, <1>8, <4>1 DEF LogInv, SequenceInOrder
      <4> QED BY Zenon, <1>1, <4>1, <4>2 DEF SeqOf
    <3>4. SeqOf(Len(commits))' = SeqOf(Len(commits))
      BY Zenon, <1>1 DEF SeqOf
    <3> QED BY ZenonT(40), <1>1, <1>5, <2>4, <3>1, <3>2, <3>3, <3>4 DEF SequenceInOrder
  <2>12. SyncedReached'
    <3>1. floor <= R'
      <4>1. floor \in Nat
        BY Zenon DEF LogInv, TypeOK
      <4> QED BY <1>3, <1>5, <2>6, <4>1
    <3>2. ASSUME NEW i \in DOMAIN commits, commits[i].seq \in 1 .. seq'.synced PROVE i <= R'
      <4>1. CASE sync
        <5>1. seq'.synced = s /\ R' = Written + n
          BY Zenon, <2>4, <2>5, <4>1
        <5> QED BY Zenon, <2>2, <3>2, <5>1
      <4>2. CASE ~sync
        <5>1. seq'.synced = seq.synced /\ R' = R
          BY Zenon, <2>4, <2>5, <4>2
        <5> QED BY Zenon, <1>5, <3>2, <5>1
      <4> QED BY Zenon, <4>1, <4>2
    <3>3. policy = "always" => \A i \in DOMAIN queue' : queue'[i].done # None
      <4>1. ASSUME policy = "always", NEW i \in DOMAIN queue' PROVE queue'[i].done # None
        <5>1. queue'[i] = queue[n + i] /\ n + i \in DOMAIN queue
          BY Zenon, <1>2
        <5> QED BY Zenon, <1>5, <1>8, <4>1, <5>1
      <4> QED BY <4>1
    <3>4. ASSUME policy = "always", queue' = <<>> PROVE seq'.synced = seq'.appended
      <4>1. sync
        <5>1. queue[1].done # None /\ 1 \in DOMAIN batch /\ batch[1] = queue[1]
          <6>1. 1 \in 1 .. n
            BY <1>n
          <6> QED BY Zenon, <1>2, <1>5, <1>8, <3>4, <6>1
        <5> QED BY Zenon, <5>1 DEF NeedSync
      <4>2. q = n
        <5>1. Len(queue') = 0
          BY <3>4
        <5> QED BY <1>n, <1>q, <5>1
      <4> QED BY Zenon, <1>5, <2>2, <2>4, <4>1, <4>2
    <3> QED BY ZenonT(40), <1>1, <3>1, <3>2, <3>3, <3>4 DEF SyncedReached
  <2> QED BY Zenon, <2>9, <2>10, <2>11, <2>12 DEF LogInv
<1>9. \/ failed /\ Replied(batch, TRUE) /\ UNCHANGED <<failed, seq, file>>
      \/ \E fl \in file.flushed .. Len(F \o frames) :
          /\ ~failed /\ failed' = FALSE /\ Replied(batch, FALSE)
          /\ seq' = [seq EXCEPT !.written = batch[n].seq,
                                !.synced = IF NeedSync(batch) THEN batch[Len(batch)].seq ELSE @]
          /\ NeedSync(batch) => fl = Len(F \o frames)
          /\ file' = [frames |-> F \o frames, flushed |-> fl,
                      synced |-> IF NeedSync(batch) THEN fl ELSE file.synced]
      \/ \E w \in 0 .. n, fl \in file.flushed .. Len(F \o frames) :
          /\ ~failed /\ failed' = TRUE /\ Replied(batch, TRUE)
          /\ seq' = [seq EXCEPT !.written = IF w = 0 THEN @ ELSE batch[w].seq]
          /\ file' = [file EXCEPT !.frames = all(w), !.flushed = fl]
  BY Zenon DEF DrainBatch, SyncsThrough, all, frames, batch
<1>10. ~failed => F \o frames = all(n)
  <2>1. n \in 0 .. n
    BY <1>n
  <2> QED BY Zenon, <1>0, <2>1, BatchReach DEF all, frames, batch
<1>11. CASE \E fl \in file.flushed .. Len(F \o frames) :
          /\ ~failed /\ failed' = FALSE /\ Replied(batch, FALSE)
          /\ seq' = [seq EXCEPT !.written = batch[n].seq,
                                !.synced = IF NeedSync(batch) THEN batch[Len(batch)].seq ELSE @]
          /\ NeedSync(batch) => fl = Len(F \o frames)
          /\ file' = [frames |-> F \o frames, flushed |-> fl,
                      synced |-> IF NeedSync(batch) THEN fl ELSE file.synced]
  <2> HIDE DEF F
  <2> QED BY Zenon, <1>2, <1>8, <1>10, <1>11
<1>12. CASE \E w \in 0 .. n, fl \in file.flushed .. Len(F \o frames) :
          /\ ~failed /\ failed' = TRUE /\ Replied(batch, TRUE)
          /\ seq' = [seq EXCEPT !.written = IF w = 0 THEN @ ELSE batch[w].seq]
          /\ file' = [file EXCEPT !.frames = all(w), !.flushed = fl]
  <2> HIDE DEF F
  <2> QED BY Zenon, <1>7, <1>12
<1> QED BY Zenon, <1>6, <1>9, <1>11, <1>12

\* The everysec tick flushes and syncs, or fails.
LEMMA TickLog ==
    ASSUME IndexFacts, LogInv, TypeOK', conf' = conf, Tick
    PROVE  LogInv'
<1>1. /\ UNCHANGED <<conf, client, policy, queue, enq, orphan, rewrite, config, commits, floor, undone>>
      /\ policy = "everysec" /\ ~failed
  BY Zenon DEF Tick, TickDue, jobVars, history
<1>2. \/ file' = Synced /\ seq' = [seq EXCEPT !.synced = seq.written]
      \/ seq' = seq /\ \E fl \in file.flushed .. Len(file.frames) : file' = [file EXCEPT !.flushed = fl]
  BY Zenon DEF Tick
<1>3. /\ file'.frames = file.frames
      /\ \/ file'.synced = Len(file.frames) /\ seq'.synced = seq.written
         \/ file'.synced = file.synced /\ seq'.synced = seq.synced
      /\ seq'.appended = seq.appended /\ seq'.written = seq.written
  <2>1. seq \in Seqs
    BY LogFacts
  <2>2. CASE file' = Synced /\ seq' = [seq EXCEPT !.synced = seq.written]
    <3>1. file'.frames = file.frames /\ file'.synced = Len(file.frames)
      BY Zenon, <2>2, Flushes DEF LogInv
    <3>2. seq'.appended = seq.appended /\ seq'.written = seq.written /\ seq'.synced = seq.written
      BY Zenon, <2>1, <2>2 DEF Seqs
    <3> QED BY <3>1, <3>2
  <2>3. CASE seq' = seq /\ \E fl \in file.flushed .. Len(file.frames) : file' = [file EXCEPT !.flushed = fl]
    <3>1. file'.frames = file.frames /\ file'.synced = file.synced
      BY Zenon, <2>3, Flushes DEF LogInv
    <3> QED BY <2>3, <3>1
  <2> QED BY Zenon, <1>2, <2>2, <2>3
<1>4. LocksHeld'
  BY Zenon, <1>1 DEF LogInv, LocksHeld, Busy, RewriteActive
<1>5. RewriteInOrder'
  BY <1>1, CalmRewrite
<1> QED BY Zenon, <1>1, <1>3, <1>4, <1>5, CalmLog

\* A change of the policy waits for the drain and syncs (SetPolicy).
LEMMA PolicyLog ==
    ASSUME IndexFacts, LogInv, TypeOK', conf' = conf, Admin
    PROVE  LogInv'
<1>1. UNCHANGED <<conf, client, queue, orphan, rewrite, commits, floor, undone>>
  BY Zenon DEF Admin, SetPolicy, SetPolicyStart, jobVars, history
<1>2. None \notin Clients \cup {"config", "rewrite"} /\ Clients \cap {"config", "rewrite"} = {}
  BY AofAssumption
<1>3. CASE \E p \in Policies : SetPolicyStart(p)
  <2>1. PICK p \in Policies : SetPolicyStart(p)
    BY <1>3
  <2>2. /\ DurableMuFree /\ enq = None /\ config' = p /\ enq' = "config"
        /\ UNCHANGED <<policy, failed, seq, file>>
    BY Zenon, <2>1 DEF SetPolicyStart
  <2>3. p # None
    <3>1. conf \in Deployments
      BY Zenon DEF LogInv, TypeOK
    <3>2. Policies \subseteq {"always", "everysec", "no"}
      BY Zenon, <3>1, AofAssumption DEF Policies
    <3> QED BY <3>2, AofAssumption
  <2>4. \A c \in Clients : ~Busy(c)
    BY Zenon, <2>2 DEF DurableMuFree, Exclusive, Shared
  <2>5. LocksHeld'
    <3>1. \A c \in Clients : client[c].pc \notin {"drain", "done"}
      BY Zenon, <2>4 DEF Busy
    <3>2. rewrite.phase \notin {"begin", "install"}
      BY Zenon, <1>2, <2>2 DEF LogInv, LocksHeld
    <3> QED BY Zenon, <1>1, <1>2, <2>2, <2>3, <2>4, <3>1, <3>2 DEF LocksHeld, Busy
  <2>6. RewriteInOrder'
    BY Zenon, <1>1, <1>2, <2>2, CalmRewrite
  <2> QED BY Zenon, <1>1, <2>2, <2>5, <2>6, CalmLog
<1>4. CASE SetPolicy
  <2>1. config # None /\ Drained /\ config' = None /\ enq' = None
    BY Zenon, <1>4 DEF SetPolicy
  <2>2. \/ /\ UNCHANGED <<policy, failed, seq, file>>
        \/ /\ ~failed /\ failed' = failed /\ policy' = config /\ config = "always"
           /\ file' = Synced /\ seq' = [seq EXCEPT !.synced = seq.appended]
        \/ /\ ~failed /\ failed' = failed /\ policy' = config /\ config # "always"
           /\ UNCHANGED <<file, seq>>
        \/ /\ failed' = TRUE /\ UNCHANGED <<policy, seq>>
           /\ \E fl \in file.flushed .. Len(file.frames) : file' = [file EXCEPT !.flushed = fl]
    BY Zenon, <1>4 DEF SetPolicy, SwitchSyncs
  <2>3. enq = "config" /\ \A c \in Clients : ~Busy(c)
    BY Zenon, <2>1 DEF LogInv, LocksHeld
  <2>4. LocksHeld'
    <3>1. \A c \in Clients : client[c].pc \notin {"drain", "done"}
      BY Zenon, <2>3 DEF Busy
    <3>2. rewrite.phase \notin {"begin", "install"}
      BY Zenon, <2>3 DEF LogInv, LocksHeld
    <3> QED BY Zenon, <1>1, <1>2, <2>1, <2>3, <3>1, <3>2 DEF LocksHeld, Busy
  <2>5. failed => failed'
    BY Zenon, <2>2
  <2>6. RewriteInOrder'
    BY Zenon, <1>1, <1>2, <2>1, <2>3, <2>5, CalmRewrite
  <2>7. CASE UNCHANGED <<policy, failed, seq, file>>
    BY Zenon, <1>1, <2>3, <2>4, <2>6, <2>7, CalmLog
  <2>8. CASE /\ ~failed /\ failed' = failed /\ policy' = config /\ config = "always"
             /\ file' = Synced /\ seq' = [seq EXCEPT !.synced = seq.appended]
    <3>1. queue = <<>> /\ Written = Len(commits)
      BY <2>1, <2>8, QueueEmpty
    <3>2. seq.written = seq.appended
      BY Zenon, <2>8, <3>1 DEF LogInv, SequenceInOrder
    <3>3. file'.frames = file.frames /\ file'.synced = Len(file.frames)
      BY Zenon, <2>8, Flushes DEF LogInv
    <3>4. seq'.appended = seq.appended /\ seq'.written = seq.written /\ seq'.synced = seq.appended
      BY Zenon, <2>8, LogFacts DEF Seqs
    <3> QED BY Zenon, <1>1, <2>3, <2>4, <2>6, <2>8, <3>1, <3>2, <3>3, <3>4, CalmLog
  <2>9. CASE /\ ~failed /\ failed' = failed /\ policy' = config /\ config # "always"
             /\ UNCHANGED <<file, seq>>
    BY Zenon, <1>1, <2>3, <2>4, <2>6, <2>9, CalmLog
  <2>10. CASE /\ failed' = TRUE /\ UNCHANGED <<policy, seq>>
              /\ \E fl \in file.flushed .. Len(file.frames) : file' = [file EXCEPT !.flushed = fl]
    <3>1. file'.frames = file.frames /\ file'.synced = file.synced
      BY Zenon, <2>10, Flushes DEF LogInv
    <3> QED BY Zenon, <1>1, <2>3, <2>4, <2>6, <2>10, <3>1, CalmLog
  <2> QED BY Zenon, <2>2, <2>7, <2>8, <2>9, <2>10
<1> QED BY Zenon, <1>3, <1>4 DEF Admin

\* A batch that wakes its clients leaves commits and memory as they were.
LEMMA RepliedContent ==
    ASSUME IndexFacts, LogInv, ContentInv, NEW n \in 1 .. Len(queue), NEW err \in BOOLEAN,
           Replied(SubSeq(queue, 1, n), err), UNCHANGED <<mem, commits, undone>>,
           failed => failed', err => failed'
    PROVE  /\ CommitsOwned' /\ MemoryExplained' /\ Kept /\ RewriteHolds'
           /\ rewrite'.phase = rewrite.phase
           /\ \A d \in Clients :
                 /\ Busy(d)' = Busy(d) /\ client'[d].kind = client[d].kind
                 /\ client'[d].sync = client[d].sync
                 /\ client'[d].pc = client[d].pc \/ client[d].pc = "done"
<1> DEFINE owners == {queue[i].done : i \in 1 .. n} \ {None}
           woken(c) == [client[c] EXCEPT !.pc = "finish", !.err = err]
<1>1. /\ n \in Nat /\ Len(queue) \in Nat /\ n <= Len(queue)
      /\ \A i \in 1 .. n : i \in 1 .. Len(queue) /\ SubSeq(queue, 1, n)[i] = queue[i]
      /\ DOMAIN SubSeq(queue, 1, n) = 1 .. n /\ DOMAIN queue = 1 .. Len(queue)
  <2>1. n \in Nat /\ Len(queue) \in Nat /\ n <= Len(queue)
    BY LogFacts
  <2> QED BY <2>1, LogFacts, QueueParts
<1>2. owners = {SubSeq(queue, 1, n)[i].done : i \in DOMAIN SubSeq(queue, 1, n)} \ {None}
  BY Zenon, <1>1
<1>3. ASSUME NEW i \in 1 .. n, queue[i].done # None
      PROVE  /\ queue[i].done \in Clients /\ client[queue[i].done].pc = "done"
             /\ client[queue[i].done].idx = queue[i].frame.idx
  BY ZenonT(40), <1>1, <1>3, LogFacts DEF LogInv, WritesSound, WriteSound
<1>4. ASSUME NEW c \in owners PROVE c \in Clients /\ client[c].pc = "done"
  BY Zenon, <1>3
<1>5. /\ \A c \in owners : /\ client'[c].pc = "finish" /\ client'[c].idx = client[c].idx
                           /\ client'[c].kind = client[c].kind /\ client'[c].keys = client[c].keys
                           /\ client'[c].w = client[c].w /\ client'[c].left = client[c].left
                           /\ client'[c].before = client[c].before /\ client'[c].sync = client[c].sync
      /\ \A c \in Clients \ owners : client'[c] = client[c]
  <2>1. client' = [c \in Clients |-> IF c \in owners THEN woken(c) ELSE client[c]]
    BY Zenon, <1>2 DEF Replied
  <2>2. ASSUME NEW c \in owners
        PROVE  /\ woken(c).pc = "finish" /\ woken(c).idx = client[c].idx
               /\ woken(c).kind = client[c].kind /\ woken(c).keys = client[c].keys
               /\ woken(c).w = client[c].w /\ woken(c).left = client[c].left
               /\ woken(c).before = client[c].before /\ woken(c).sync = client[c].sync
    <3>1. client[c] \in WriteStates
      BY Zenon, <1>4, Typed DEF LogInv
    <3> QED BY Zenon, <3>1 DEF WriteStates
  <2> HIDE DEF owners, woken
  <2> QED BY <1>4, <2>1, <2>2
<1>6. \/ rewrite' = rewrite
      \/ ~err /\ enq \in owners /\ \E i \in 1 .. n : queue[i].done = enq /\ rewrite' = Buffered(rewrite, queue[i].frame)
  <2>1. ~(enq \in owners /\ ~err) => rewrite' = rewrite
    BY Zenon, <1>2 DEF Replied
  <2>2. ASSUME enq \in owners, ~err
        PROVE  \E i \in 1 .. n : queue[i].done = enq /\ rewrite' = Buffered(rewrite, queue[i].frame)
    <3> DEFINE i == CHOOSE i \in 1 .. n : SubSeq(queue, 1, n)[i].done = enq
    <3>1. rewrite' = Buffered(rewrite, SubSeq(queue, 1, n)[i].frame)
      BY Zenon, <1>1, <1>2, <2>2 DEF Replied
    <3>2. \E j \in 1 .. n : SubSeq(queue, 1, n)[j].done = enq
      BY <1>1, <2>2
    <3>3. i \in 1 .. n /\ SubSeq(queue, 1, n)[i].done = enq
      BY Zenon, <3>2
    <3> HIDE DEF i
    <3> QED BY <1>1, <3>1, <3>3
  <2> QED BY <2>1, <2>2
<1> HIDE DEF owners
<1>7. \A d \in Clients :
         /\ client'[d].keys = client[d].keys /\ client'[d].kind = client[d].kind
         /\ client'[d].w = client[d].w /\ client'[d].idx = client[d].idx
         /\ client'[d].left = client[d].left /\ client'[d].before = client[d].before
         /\ client'[d].sync = client[d].sync
         /\ client'[d].pc = client[d].pc \/ (client[d].pc = "done" /\ client'[d].pc = "finish")
  BY <1>4, <1>5
<1>8. \A d \in Clients :
         /\ Busy(d)' = Busy(d)
         /\ client[d].left # {} /\ Busy(d) => client'[d].pc = client[d].pc
  <2>1. \A d \in Clients : client[d].left # {} /\ Busy(d) => client[d].pc = "apply"
    BY Zenon DEF ContentInv, MemoryExplained
  <2> QED BY ZenonT(40), <1>7, <2>1 DEF Busy
<1>9. CommitsOwned' /\ MemoryExplained' /\ Kept
  BY Zenon, <1>7, <1>8, StillContent
<1>10. rewrite \in Rewrites /\ rewrite.idx \in Nat /\ Len(rewrite.buffer) \in Nat
  BY Zenon, RewriteFacts
<1>11. RewriteHolds'
  <2>1. RewriteHolds
    BY Zenon DEF ContentInv
  <2>2. CASE rewrite' = rewrite
    BY Zenon, <1>9, <2>1, <2>2, RewriteKept
  <2>3. CASE rewrite' # rewrite
    <3>1. PICK i \in 1 .. n : queue[i].done = enq /\ rewrite' = Buffered(rewrite, queue[i].frame)
      BY <1>6, <2>3
    <3>2. enq \in Clients /\ client[enq].pc = "done" /\ queue[i].done # None
      BY Zenon, <1>4, <1>6, <2>3, <3>1, AofAssumption
    <3> DEFINE f == queue[i].frame
    <3>3. f \in Frames /\ f.recs = commits[f.idx].recs /\ f.idx = client[enq].idx
      BY ZenonT(40), <1>1, <1>3, <3>1, <3>2, LogFacts DEF Entries, ContentInv, QueueHolds
    <3>4. ASSUME RewriteActive, ~failed' PROVE f.idx = rewrite.idx + Len(rewrite.buffer) + 1
      <4>1. client[enq].idx = Len(commits)
        BY Zenon, <3>2 DEF LogInv, LocksHeld
      <4>2. Unbuffered = 1
        BY Zenon, <3>2 DEF Unbuffered
      <4>3. rewrite.idx + Len(rewrite.buffer) + 1 = Len(commits)
        BY Zenon, <3>4, <4>2 DEF LogInv, RewriteInOrder
      <4> QED BY <3>3, <4>1, <4>3
    <3>5. commits' = commits
      OBVIOUS
    <3> QED BY ZenonT(40), <1>9, <2>1, <3>1, <3>3, <3>4, <3>5, RewriteKept
  <2> QED BY <2>2, <2>3
<1>12. rewrite'.phase = rewrite.phase
  BY Zenon, <1>6, <1>10 DEF Buffered, Rewrites
<1> QED BY Zenon, <1>7, <1>8, <1>9, <1>11, <1>12

\* A key the synced frames record stays recorded as the file grows.
LEMMA TouchedStays ==
    ASSUME LogInv, file'.synced \in Nat, file.synced <= file'.synced,
           \A i \in 1 .. Len(file.frames) : file'.frames[i] = file.frames[i],
           NEW k, Touched(k)
    PROVE  Touched(k)'
<1>1. file.synced \in Nat /\ Len(file.frames) \in Nat /\ file.synced <= Len(file.frames)
  BY FileFacts DEF LogInv
<1>2. PICK i \in 1 .. file.synced : file.frames[i].recs[k] # None
  BY Zenon DEF Touched
<1>3. i \in 1 .. file'.synced /\ i \in 1 .. Len(file.frames)
  BY <1>1
<1>4. file'.frames[i].recs[k] # None
  BY <1>2, <1>3
<1> QED BY Zenon, <1>3, <1>4 DEF Touched

\* A batch is written, flushed and synced, or any of these fails
\* (syncLoop).
LEMMA DrainContent ==
    ASSUME IndexFacts, SnapshotsFollow, IInv, LogInv', conf' = conf, NEW n, DrainBatch(n)
    PROVE  ContentInv'
<1> DEFINE F == file.frames
           q == Len(queue)
           batch == SubSeq(queue, 1, n)
           frames == [i \in 1 .. n |-> batch[i].frame]
           all(w) == F \o SubSeq(frames, 1, w)
<1>1. /\ LogInv /\ ContentInv /\ TypeOK
      /\ n \in 1 .. q /\ queue' = SubSeq(queue, n + 1, q)
      /\ UNCHANGED <<mem, policy, save, saveDue, snap, commits, undone>>
  BY Zenon DEF DrainBatch, history, IInv, LogInv
<1>2. /\ n \in Nat /\ q \in Nat /\ n <= q /\ DOMAIN queue' = 1 .. q - n /\ DOMAIN queue = 1 .. q
      /\ \A i \in 1 .. q - n : queue'[i] = queue[n + i] /\ n + i \in 1 .. q
      /\ \A i \in 1 .. n : batch[i] = queue[i] /\ i \in 1 .. q
      /\ DOMAIN batch = 1 .. n /\ Len(batch) = n
  <2>1. n \in Nat /\ q \in Nat /\ n <= q
    BY <1>1, LogFacts
  <2>2. queue' \in Seq(Entries)
    BY Zenon, <1>1, QueueParts
  <2> QED BY <1>1, <2>1, <2>2, QueueParts, LogFacts
<1>3. /\ F \in Seq(Frames) /\ Len(F) \in Nat /\ file \in Files
      /\ file.synced \in Nat /\ file.synced <= Len(F)
  <2>1. TypeOK /\ LogInOrder
    BY Zenon, <1>1 DEF LogInv
  <2>2. /\ F \in Seq(Frames) /\ Len(F) \in Nat /\ file.synced \in Nat /\ file.flushed \in Nat
        /\ file.synced <= file.flushed /\ file.flushed <= Len(F)
    BY Zenon, <2>1, FileFacts
  <2> QED BY <2>1, <2>2 DEF TypeOK
<1>4. QueueHolds'
  BY <1>1, <1>2 DEF ContentInv, QueueHolds
<1>5. \/ failed /\ failed' = failed /\ file' = file /\ Replied(batch, TRUE)
      \/ /\ ~failed /\ failed' = FALSE /\ Replied(batch, FALSE)
         /\ \E fl : /\ NeedSync(batch) => fl = Len(F \o frames)
                    /\ file' = [frames |-> F \o frames, flushed |-> fl,
                                synced |-> IF NeedSync(batch) THEN fl ELSE file.synced]
      \/ /\ ~failed /\ failed' = TRUE /\ Replied(batch, TRUE) /\ WritesFail
         /\ \E w \in 0 .. n : \E fl : file' = [file EXCEPT !.frames = all(w), !.flushed = fl]
  BY Zenon DEF DrainBatch
<1>6. \E w \in 0 .. n :
         /\ Len(file'.frames) = Len(F) + w /\ (w > 0 => ~failed)
         /\ \A i \in 1 .. Len(F) : file'.frames[i] = F[i]
         /\ \A i \in 1 .. w : file'.frames[Len(F) + i] = queue[i].frame
  <2>1. ASSUME NEW w \in 0 .. n, file'.frames = all(w), ~failed
        PROVE  /\ Len(file'.frames) = Len(F) + w /\ (w > 0 => ~failed)
               /\ \A i \in 1 .. Len(F) : file'.frames[i] = F[i]
               /\ \A i \in 1 .. w : file'.frames[Len(F) + i] = queue[i].frame
    <3>1. n \in 1 .. Len(queue)
      BY <1>1
    <3>2. /\ Len(all(w)) = Len(F) + w
          /\ \A i \in 1 .. Len(F) : all(w)[i] = F[i]
          /\ \A i \in 1 .. w : all(w)[Len(F) + i] = queue[i].frame
      BY Zenon, <1>1, <3>1, BatchParts
    <3> HIDE DEF all, F
    <3> QED BY <2>1, <3>2
  <2>2. CASE file' = file
    <3>1. 0 \in 0 .. n /\ Len(file'.frames) = Len(F) + 0 /\ ~(0 > 0) /\ \A i \in 1 .. 0 : FALSE
      BY <1>2, <1>3, <2>2
    <3> QED BY Zenon, <2>2, <3>1
  <2>3. CASE ~failed /\ file'.frames = F \o frames
    <3>1. n \in 0 .. n
      BY <1>2
    <3>2. all(n) = F \o frames
      BY Zenon, <1>1, <3>1, BatchParts
    <3> HIDE DEF all, F, frames
    <3>3. file'.frames = all(n)
      BY Zenon, <2>3, <3>2
    <3> QED BY Zenon, <2>1, <2>3, <3>1, <3>3
  <2>4. CASE ~failed /\ \E w \in 0 .. n : \E fl : file' = [file EXCEPT !.frames = all(w), !.flushed = fl]
    <3> HIDE DEF all
    <3>1. PICK w \in 0 .. n : \E fl : file' = [file EXCEPT !.frames = all(w), !.flushed = fl]
      BY Zenon, <2>4
    <3>2. file'.frames = all(w)
      BY Zenon, <1>3, <3>1 DEF Files
    <3> QED BY <2>1, <2>4, <3>2
  <2>5. (\E fl : file' = [frames |-> F \o frames, flushed |-> fl,
                                synced |-> IF NeedSync(batch) THEN fl ELSE file.synced])
          => file'.frames = F \o frames
    <3> HIDE DEF F, frames, batch
    <3> QED OBVIOUS
  <2> HIDE DEF all, F, frames, batch
  <2> QED BY ZenonT(40), <1>5, <2>2, <2>3, <2>4, <2>5
<1>7. /\ CommitsOwned' /\ MemoryExplained' /\ Kept /\ RewriteHolds'
      /\ rewrite'.phase = rewrite.phase
      /\ \A d \in Clients :
            /\ Busy(d)' = Busy(d) /\ client'[d].kind = client[d].kind
            /\ client'[d].sync = client[d].sync
            /\ client'[d].pc = client[d].pc \/ client[d].pc = "done"
  <2>1. \E err \in BOOLEAN : Replied(batch, err) /\ (failed => failed') /\ (err => failed')
    <3> HIDE DEF batch, frames, all, F
    <3>1. \/ Replied(batch, TRUE) /\ failed'
          \/ Replied(batch, FALSE) /\ ~failed
      BY Zenon, <1>5
    <3> QED BY Zenon, <3>1
  <2> HIDE DEF batch
  <2> QED BY Zenon, <1>1, <2>1, RepliedContent DEF batch
<1>8. FileHolds'
  <2>1. PICK w \in 0 .. n :
         /\ Len(file'.frames) = Len(F) + w /\ (w > 0 => ~failed)
         /\ \A i \in 1 .. Len(F) : file'.frames[i] = F[i]
         /\ \A i \in 1 .. w : file'.frames[Len(F) + i] = queue[i].frame
    BY Zenon, <1>6
  <2>2. w \in Nat
    BY <1>2
  <2>3. ASSUME NEW i \in 1 .. w
        PROVE  LET f == file'.frames[Len(F) + i]
               IN  /\ f.idx \in DOMAIN commits' /\ f.recs = commits'[f.idx].recs
                   /\ f.idx = Written + i
    <3>1. ~failed /\ i \in 1 .. q /\ i \in 0 .. q /\ i > 0
      BY <1>2, <2>1
    <3>2. queue[i].frame.idx = Written + i
      BY Zenon, <1>1, <3>1, QueueSeqs
    <3>3. queue[i].frame.idx \in DOMAIN commits /\ queue[i].frame.recs = commits[queue[i].frame.idx].recs
      BY Zenon, <1>1, <1>2, <3>1 DEF ContentInv, QueueHolds
    <3> QED BY Zenon, <1>1, <2>1, <3>2, <3>3
  <2>4. FileHolds
    BY Zenon, <1>1 DEF ContentInv
  <2> HIDE DEF F
  <2> QED BY ZenonT(40), <1>1, <1>7, <2>1, <2>2, <2>3, <2>4, FileGrows DEF F
<1>9. SnapshotsCovered'
  <2>1. Saves' = Saves
    BY Zenon DEF Saves
  <2>2. CASE Saves = {}
    BY Zenon, <1>1, <2>1, <2>2 DEF ContentInv, SnapshotsCovered
  <2>3. CASE Saves # {}
    <3>1. /\ policy = "always" /\ ~failed /\ file.synced = Len(F)
          /\ \A d \in Clients : Busy(d) =>
                client[d].kind \in {"fast", "set"} /\ (client[d].pc = "finish" => client[d].sync)
          /\ \A k \in Keys : mem[k] # 0 \/ snap[k] # 0 \/ save.img[k] # 0 => Touched(k)
      BY Zenon, <1>1, <2>3 DEF ContentInv, SnapshotsCovered
    <3>2. ~WritesFail
      BY <1>1, <2>3, Following
    <3>3. NeedSync(batch)
      <4>1. 1 \in 1 .. n /\ 1 \in DOMAIN queue
        BY <1>1, <1>2
      <4>2. queue[1].done # None
        BY Zenon, <1>1, <3>1, <4>1 DEF LogInv, SyncedReached
      <4> QED BY Zenon, <1>2, <4>1, <4>2 DEF NeedSync
    <3>4. failed' = FALSE /\ file'.synced = Len(file'.frames)
      <4> HIDE DEF F, frames, batch, all
      <4> DEFINE new == F \o frames
      <4>1. failed' = FALSE /\ \E fl : /\ NeedSync(batch) => fl = Len(new)
                /\ file' = [frames |-> new, flushed |-> fl,
                            synced |-> IF NeedSync(batch) THEN fl ELSE file.synced]
        BY Zenon, <1>5, <3>1, <3>2
      <4> HIDE DEF new
      <4> QED BY <3>3, <4>1
    <3>5. ASSUME NEW d \in Clients, Busy(d)'
          PROVE  client'[d].kind \in {"fast", "set"} /\ (client'[d].pc = "finish" => client'[d].sync)
      <4>1. client[d].pc = "done" => client[d].sync
        BY Zenon, <1>1 DEF LogInv, WritesSound, WriteSound
      <4> QED BY ZenonT(40), <1>7, <3>1, <3>5, <4>1
    <3>6. ASSUME NEW k \in Keys, mem'[k] # 0 \/ snap'[k] # 0 \/ save'.img[k] # 0 PROVE Touched(k)'
      <4>1. Touched(k)
        BY Zenon, <1>1, <3>1, <3>6
      <4>2. PICK w \in 0 .. n : /\ Len(file'.frames) = Len(F) + w
                                /\ \A i \in 1 .. Len(F) : file'.frames[i] = F[i]
        BY <1>6
      <4>3. file'.synced \in Nat /\ file.synced <= file'.synced
        <5>1. w \in Nat /\ Len(F) \in Nat
          BY <1>2, <1>3
        <5>2. file.synced = Len(F) /\ file'.synced = Len(F) + w
          BY Zenon, <3>1, <3>4, <4>2
        <5> QED BY <5>1, <5>2
      <4> QED BY ZenonT(40), <1>1, <4>1, <4>2, <4>3, TouchedStays
    <3> QED BY Zenon, <1>1, <2>1, <2>3, <3>1, <3>4, <3>5, <3>6 DEF SnapshotsCovered
  <2> QED BY <2>2, <2>3
<1>10. JobsExclusive'
  BY Zenon, <1>1, <1>7 DEF ContentInv, JobsExclusive, Running
<1> QED BY Zenon, <1>4, <1>7, <1>8, <1>9, <1>10 DEF ContentInv

\* The everysec tick moves no frame.
LEMMA TickContent ==
    ASSUME IndexFacts, IInv, LogInv', conf' = conf, Tick
    PROVE  ContentInv'
<1>1. /\ UNCHANGED <<mem, client, policy, queue, rewrite, save, saveDue, snap, commits, undone>>
      /\ policy = "everysec" /\ (failed => failed') /\ LogInv /\ ContentInv
  BY Zenon DEF Tick, TickDue, jobVars, history, IInv
<1>2. file'.frames = file.frames
  <2>1. TypeOK
    BY Zenon, <1>1 DEF LogInv
  <2> QED BY Zenon, <2>1, Flushes DEF Tick
<1>3. FileHolds' /\ QueueHolds' /\ RewriteHolds' /\ CommitsOwned' /\ MemoryExplained'
  BY <1>1, <1>2, CalmContent
<1>4. SnapshotsCovered'
  <2>1. Saves = {} /\ Saves' = Saves
    BY Zenon, <1>1 DEF ContentInv, SnapshotsCovered, Saves
  <2> QED BY Zenon, <1>1, <2>1 DEF ContentInv, SnapshotsCovered
<1>5. JobsExclusive'
  BY Zenon, <1>1 DEF ContentInv, JobsExclusive, Running
<1> QED BY Zenon, <1>3, <1>4, <1>5 DEF ContentInv

\* Neither step of CONFIG SET appendfsync moves a frame.
LEMMA PolicyContent ==
    ASSUME IndexFacts, SnapshotsFollow, IInv, LogInv', conf' = conf, Admin
    PROVE  ContentInv'
<1>1. /\ UNCHANGED <<mem, client, queue, rewrite, save, saveDue, snap, commits, undone>>
      /\ (failed => failed') /\ LogInv /\ ContentInv /\ TypeOK
  BY DEF Admin, SetPolicy, SetPolicyStart, jobVars, history, IInv, LogInv
<1>2. file'.frames = file.frames
  <2>1. CASE SetPolicy
    BY Zenon, <1>1, <2>1, Flushes DEF SetPolicy
  <2>2. CASE ~SetPolicy
    BY Zenon, <2>2 DEF Admin, SetPolicyStart
  <2> QED BY <2>1, <2>2
<1>3. FileHolds' /\ QueueHolds' /\ RewriteHolds' /\ CommitsOwned' /\ MemoryExplained'
  BY Zenon, <1>1, <1>2, CalmContent
<1>4. SnapshotsCovered'
  <2>1. Saves # {} => UNCHANGED <<policy, failed, file>>
    <3>1. ASSUME Saves # {}, SetPolicy PROVE UNCHANGED <<policy, failed, file>>
      <4>1. policy = "always" /\ ~failed
        BY Zenon, <1>1, <3>1 DEF ContentInv, SnapshotsCovered
      <4>2. config = "always"
        BY Zenon, <1>1, <3>1, Following DEF TypeOK, SetPolicy
      <4> QED BY Zenon, <3>1, <4>1, <4>2 DEF SetPolicy
    <3>2. ASSUME ~SetPolicy PROVE UNCHANGED <<policy, failed, file>>
      BY Zenon, <3>2 DEF Admin, SetPolicyStart
    <3> QED BY <3>1, <3>2
  <2>2. Saves' = Saves
    BY Zenon DEF Saves
  <2>3. CASE Saves = {}
    BY Zenon, <1>1, <2>2, <2>3 DEF ContentInv, SnapshotsCovered
  <2>4. CASE Saves # {}
    <3>1. \A d \in Clients : Busy(d)' => Busy(d) /\ client'[d] = client[d]
      BY Zenon, <1>1 DEF Busy
    <3>2. \A d \in Clients : Busy(d)' =>
             client'[d].kind \in {"fast", "set"} /\ (client'[d].pc = "finish" => client'[d].sync)
      BY Zenon, <1>1, <2>4, <3>1 DEF ContentInv, SnapshotsCovered
    <3> QED BY Zenon, <1>1, <2>1, <2>4, <3>2, WriterSnapshots
  <2> QED BY <2>3, <2>4
<1>5. JobsExclusive'
  BY Zenon, <1>1 DEF ContentInv, JobsExclusive, Running
<1> QED BY Zenon, <1>3, <1>4, <1>5 DEF ContentInv
=============================================================================
