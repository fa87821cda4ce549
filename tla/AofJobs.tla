------------------------------ MODULE AofJobs -------------------------------
(***************************************************************************)
(* The background rewrite and save jobs (slowlog_persistence_commands.go,  *)
(* BeginRewrite and FinishRewrite of log.go); crash, graceful stop and     *)
(* recovery (cmd/snugkv/main.go).                                          *)
(***************************************************************************)
EXTENDS AofState

\* executeBGRewriteAOF queues the rewrite behind a save.
RewriteAtOnce == FALSE
RewriteWaits == Running.save

\* executeBGRewriteAOF, under durableMu: scheduled while a save runs.
BGRewriteAOF ==
    /\ DurableMuFree /\ ~Running.rewrite /\ Left("rewrite")
    /\ Bump("rewrite")
    /\ IF RewriteWaits
         THEN rewriteDue' = TRUE /\ UNCHANGED <<rewrite, enq>>
         ELSE /\ enq = None
              /\ rewriteDue' = FALSE
              /\ rewrite' = [NoJob EXCEPT !.phase = "begin"] /\ enq' = "rewrite"
    /\ UNCHANGED <<mem, client, unavail, policy, failed, seq, queue, file, orphan,
                   installed, save, saveDue, snap, config, history>>

\* BeginRewrite after its drain, and the Export of the base image.
BeginRewrite ==
    /\ rewrite.phase = "begin" /\ Drained
    /\ enq' = None
    /\ rewrite' = IF failed THEN NoJob
                  ELSE [phase |-> "temp", img |-> mem, buffer |-> <<>>, idx |-> Len(commits)]
    /\ UNCHANGED <<mem, client, unavail, policy, failed, seq, queue, file, orphan,
                   installed, rewriteDue, save, saveDue, snap, config, count, history>>

\* The end of the job starts a scheduled save, whose Export comes later.
RewriteForgets ==
    /\ rewrite' = NoJob
    /\ UNCHANGED <<save, saveDue>>
RewriteEnds ==
    /\ rewrite' = NoJob
    /\ saveDue' = FALSE
    /\ save' = IF saveDue THEN [NoSave EXCEPT !.phase = "export"] ELSE save

\* FinishRewrite: the temporary file is complete, or could not be written.
FinishRewrite ==
    /\ rewrite.phase = "temp" /\ enq = None
    /\ \/ /\ enq' = "rewrite"
          /\ rewrite' = [rewrite EXCEPT !.phase = "install"]
          /\ UNCHANGED <<save, saveDue>>
       \/ RewriteEnds /\ enq' = None
    /\ UNCHANGED <<mem, client, unavail, policy, failed, seq, queue, file, orphan,
                   installed, rewriteDue, snap, config, count, history>>

\* The file a rewrite installs: the base image and the frames appended since.
NewFile == <<[recs |-> rewrite.img, idx |-> rewrite.idx]>> \o rewrite.buffer

\* FinishRewrite after its drain: abandoned before the rename; or renamed and
\* the log switched to the new file; or renamed and the directory sync failed,
\* which keeps l.file on the old, now unlinked file.
Install ==
    /\ rewrite.phase = "install" /\ Drained
    /\ enq' = None
    /\ RewriteEnds
    /\ \/ UNCHANGED <<seq, file, orphan, installed>>
       \/ /\ ~failed
          /\ file' = [frames |-> NewFile, flushed |-> Len(NewFile), synced |-> Len(NewFile)]
          /\ orphan' = FALSE /\ installed' = <<>>
          /\ seq' = [seq EXCEPT !.written = seq.appended, !.synced = seq.appended]
       \/ /\ ~failed /\ DirFails
          /\ orphan' = TRUE /\ installed' = NewFile
          /\ UNCHANGED <<seq, file>>
    /\ UNCHANGED <<mem, client, unavail, policy, failed, queue, rewriteDue, snap, config,
                   count, history>>

\* BGSAVE, under durableMu, captures its records at once; while a rewrite runs
\* BGSAVE SCHEDULE is queued.
BGSave ==
    /\ "bgsave" \in Saves
    /\ DurableMuFree /\ ~Running.save /\ Left("save")
    /\ Bump("save")
    /\ IF Running.rewrite
         THEN saveDue' = TRUE /\ UNCHANGED save
         ELSE save' = [phase |-> "write", img |-> mem] /\ UNCHANGED saveDue
    /\ UNCHANGED <<mem, client, unavail, logVars, rewrite, rewriteDue, snap, config, history>>

\* TriggerPeriodicSnapshot does not take durableMu.
PeriodicSave ==
    /\ "periodic" \in Saves
    /\ ~Running.save /\ ~Running.rewrite /\ Left("save")
    /\ Bump("save")
    /\ save' = [NoSave EXCEPT !.phase = "export"]
    /\ UNCHANGED <<mem, client, unavail, logVars, rewrite, rewriteDue, saveDue, snap, config, history>>

\* Export(nil) holds every shard, which "fast" holds until it has published.
ExportAll ==
    /\ save.phase = "export" /\ ~Shared
    /\ save' = [phase |-> "write", img |-> mem]
    /\ UNCHANGED <<mem, client, unavail, logVars, rewrite, rewriteDue, saveDue, snap,
                   config, count, history>>

\* snapshotRecords: temporary file, fsync, rename, directory sync; or an error
\* that leaves the old snapshot.
SnapshotRecords ==
    /\ save.phase = "write"
    /\ snap' \in {snap, save.img}
    /\ save' = [NoSave EXCEPT !.phase = "handoff"]
    /\ UNCHANGED <<mem, client, unavail, logVars, rewrite, rewriteDue, saveDue, config,
                   count, history>>

\* runBackgroundSaveRecords' end, under durableMu: the queued rewrite starts.
SaveHandoff ==
    /\ save.phase = "handoff" /\ DurableMuFree /\ enq = None
    /\ save' = NoSave
    /\ rewriteDue' = FALSE
    /\ IF rewriteDue
         THEN rewrite' = [NoJob EXCEPT !.phase = "begin"] /\ enq' = "rewrite"
         ELSE UNCHANGED <<rewrite, enq>>
    /\ UNCHANGED <<mem, client, unavail, policy, failed, seq, queue, file, orphan,
                   installed, saveDue, snap, config, count, history>>

Jobs == \/ BGRewriteAOF \/ BeginRewrite \/ FinishRewrite \/ Install
        \/ BGSave \/ PeriodicSave \/ ExportAll \/ SnapshotRecords \/ SaveHandoff

-----------------------------------------------------------------------------
(* Crash, graceful stop, recovery.                                         *)

Prefixes(lo) == {SubSeq(file.frames, 1, n) : n \in lo .. file.flushed}

\* What may be at the AOF path after the process dies, and after the machine
\* does.  A rename whose directory sync failed may or may not survive the latter.
ProcessCrash == IF orphan THEN {installed} ELSE Prefixes(file.flushed)
PowerCrash == Prefixes(file.synced) \cup (IF orphan THEN {installed} ELSE {})
CrashFiles == ProcessCrash \cup PowerCrash

\* Start-up: the snapshot is restored, the AOF replayed over it, and a new log
\* opened on the file at the path.
Restarted(img, frames, synced) ==
    LET kept == LastCommit(frames) IN
    /\ snap' = img
    /\ mem' = Replay(img, frames)
    /\ client' = [c \in Clients |-> Idle]
    /\ unavail' = FALSE
    /\ policy' = Policy0 /\ failed' = FALSE
    /\ seq' = [appended |-> 0, written |-> 0, synced |-> 0]
    /\ queue' = <<>> /\ enq' = None
    /\ file' = [frames |-> frames, flushed |-> Len(frames), synced |-> synced]
    /\ orphan' = FALSE /\ installed' = <<>>
    /\ rewrite' = NoJob /\ rewriteDue' = FALSE
    /\ save' = NoSave /\ saveDue' = FALSE
    /\ config' = None
    /\ commits' = [i \in 1 .. kept |-> [commits[i] EXCEPT !.seq = 0]]
    /\ undone' = {}
    /\ UNCHANGED floor

Crash ==
    /\ Left("crash")
    /\ Bump("crash")
    /\ \/ \E frames \in ProcessCrash : 
                Restarted(snap, frames, IF orphan THEN Len(frames) ELSE file.synced)
       \/ \E frames \in PowerCrash : Restarted(snap, frames, Len(frames))

\* What Close leaves of the AOF.
CloseUnflushed == IF orphan THEN {installed} ELSE Prefixes(file.flushed)
Closed == IF orphan THEN {installed}
          ELSE IF failed THEN Prefixes(file.flushed) ELSE {file.frames}

\* SIGTERM: handlers and jobs have ended; Close drains, flushes and syncs; the
\* snapshot is written; the next start recovers from both.
Stop ==
    /\ Left("stop")
    /\ \A c \in Clients : ~Busy(c)
    /\ config = None /\ ~Running.rewrite /\ ~Running.save /\ Drained
    /\ Bump("stop")
    /\ \E frames \in Closed, img \in IF "stop" \in Saves THEN {snap, mem} ELSE {snap} :
          Restarted(img, frames, IF failed /\ ~orphan THEN file.synced ELSE Len(frames))
=============================================================================
