------------------------------ MODULE AofSync -------------------------------
(***************************************************************************)
(* The sync loop of persistence.Log, its queue and its ticker, and the     *)
(* change of the fsync policy (internal/persistence/log.go).               *)
(***************************************************************************)
EXTENDS AofState

\* Waking the clients of a batch: <-done.  With a rewrite active the client
\* holds enqueueMu, buffers its frame and releases it.
RepliedOnSuccess(batch, err) ==
    /\ client' = [c \in Clients |-> IF ~err /\ c \in {batch[i].done : i \in DOMAIN batch}
                     THEN [client[c] EXCEPT !.pc = "finish"] ELSE client[c]]
    /\ UNCHANGED <<enq, rewrite>>
Replied(batch, err) ==
    LET owners == {batch[i].done : i \in DOMAIN batch} \ {None} IN
    /\ client' = [c \in Clients |-> IF c \in owners
                     THEN [client[c] EXCEPT !.pc = "finish", !.err = err] ELSE client[c]]
    /\ enq' = IF enq \in owners THEN None ELSE enq
    /\ rewrite' = IF enq \in owners /\ ~err
                  THEN Buffered(rewrite, batch[CHOOSE i \in DOMAIN batch : batch[i].done = enq].frame)
                  ELSE rewrite

\* needSync, and the sequence number a sync makes durable: writtenSeq.
NeverSync(batch) == FALSE
NeedSync(batch) == \E i \in DOMAIN batch : batch[i].done # None
SyncsAppended(batch) == seq.appended
SyncsThrough(batch) == batch[Len(batch)].seq

\* syncLoop's drain: one batch of at least one frame is written, and synced when
\* one of its frames asks for it.  Without a sync the bufio writer may still
\* have passed some frames on.  After a failure a batch is dropped.
DrainBatch(n) ==
    LET batch == SubSeq(queue, 1, n)
        frames == [i \in 1 .. n |-> batch[i].frame]
        needSync == NeedSync(batch)
        all == file.frames \o frames
    IN
    /\ n \in 1 .. Len(queue)
    /\ queue' = SubSeq(queue, n + 1, Len(queue))
    /\ \/ /\ failed
          /\ Replied(batch, TRUE)
          /\ UNCHANGED <<failed, seq, file>>
       \/ /\ ~failed
          /\ Replied(batch, FALSE)
          /\ failed' = FALSE
          /\ seq' = [seq EXCEPT !.written = batch[n].seq,
                                !.synced = IF needSync THEN SyncsThrough(batch) ELSE @]
          /\ \E fl \in file.flushed .. Len(all) :
                /\ needSync => fl = Len(all)
                /\ file' = [frames |-> all, flushed |-> fl,
                            synced |-> IF needSync THEN fl ELSE file.synced]
       \/ \E w \in 0 .. n, fl \in file.flushed .. Len(all) :  \* frame w + 1, or the sync, fails
          /\ ~failed /\ WritesFail
          /\ w = n => needSync
          /\ fl <= Len(file.frames) + w
          /\ failed' = TRUE
          /\ Replied(batch, TRUE)
          /\ seq' = [seq EXCEPT !.written = IF w = 0 THEN @ ELSE batch[w].seq]
          /\ file' = [file EXCEPT !.frames = file.frames \o SubSeq(frames, 1, w), !.flushed = fl]
    /\ UNCHANGED <<mem, unavail, policy, orphan, installed, rewriteDue, save, saveDue,
                   snap, config, count, history>>

\* The ticker of syncLoop under "everysec" (a tick with nothing to sync
\* changes nothing).
FlushDue == policy = "everysec" /\ ~failed /\ file.flushed < Len(file.frames)
TickDue == policy = "everysec" /\ ~failed /\ file.synced < Len(file.frames)
Tick ==
    /\ TickDue
    /\ \/ /\ file' = Synced
          /\ seq' = [seq EXCEPT !.synced = seq.written]
          /\ UNCHANGED failed
       \/ /\ WritesFail
          /\ failed' = TRUE
          /\ \E fl \in file.flushed .. Len(file.frames) : file' = [file EXCEPT !.flushed = fl]
          /\ UNCHANGED seq
    /\ UNCHANGED <<mem, client, unavail, policy, queue, enq, orphan, installed, jobVars,
                   config, count, history>>

-----------------------------------------------------------------------------
(* CONFIG SET appendfsync.                                                 *)

\* The policies whose publication is preceded by a sync.
SwitchForgets(p) == FALSE
SwitchSyncs(p) == p = "always"

\* SetPolicy takes enqueueMu and drains ...
SetPolicyStart(p) ==
    /\ p \in Policies
    /\ DurableMuFree /\ enq = None /\ Left("config")
    /\ config' = p /\ enq' = "config"
    /\ Bump("config")
    /\ UNCHANGED <<mem, client, unavail, policy, failed, seq, queue, file, orphan,
                   installed, jobVars, history>>

\* ... and switching to "always" syncs before the new policy is published.
SetPolicy ==
    /\ config # None /\ Drained
    /\ config' = None /\ enq' = None
    /\ \/ /\ failed \/ config = policy
          /\ UNCHANGED <<policy, failed, seq, file>>
       \/ /\ ~failed /\ config # policy
          /\ policy' = config
          /\ IF SwitchSyncs(config)
               THEN file' = Synced /\ seq' = [seq EXCEPT !.synced = seq.appended]
               ELSE UNCHANGED <<file, seq>>
          /\ UNCHANGED failed
       \/ /\ ~failed /\ WritesFail /\ config = "always" /\ config # policy
          /\ failed' = TRUE
          /\ \E fl \in file.flushed .. Len(file.frames) : file' = [file EXCEPT !.flushed = fl]
          /\ UNCHANGED <<policy, seq>>
    /\ UNCHANGED <<mem, client, unavail, queue, orphan, installed, jobVars, count, history>>

-----------------------------------------------------------------------------
SyncLoop == Tick \/ \E n \in 1 .. QueueCap : DrainBatch(n)
Admin == SetPolicy \/ \E p \in Policies : SetPolicyStart(p)
=============================================================================
