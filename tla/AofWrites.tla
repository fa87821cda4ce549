----------------------------- MODULE AofWrites ------------------------------
(***************************************************************************)
(* The write paths that append to the AOF (durability.go, transactions.go, *)
(* SetPlainCommitted) and the append itself (appendEncoded of              *)
(* internal/persistence/log.go): what a client's write does to memory, and *)
(* how its records become a frame.                                         *)
(***************************************************************************)
EXTENDS AofState

\* SetPlainCommitted holds the shard of its key from the append to the publish.
ShardUnlocked(k) == TRUE
ShardFree(k) == \A d \in Clients : Busy(d) => k \notin client[d].keys

\* executeAuthorizedConcurrentAOFSet: RLock and the shard lock, no look at
\* durabilityFailed.
StartFast(c, k) ==
    /\ "fast" \in Kinds
    /\ ~Busy(c) /\ ~Exclusive /\ Left("w")
    /\ ShardFree(k)
    /\ Bump("w")
    /\ client' = [client EXCEPT ![c] =
          [Idle EXCEPT !.pc = "append", !.kind = "fast", !.keys = {k}, !.w = count.w + 1]]
    /\ UNCHANGED <<mem, unavail, logVars, jobVars, config, history>>

\* The paths under durableMu: a locked SET appends first, a batch of SETs and
\* EXEC change memory first.  "exec" is also the generic path of a command such
\* as MSET: execute, append the records of its keys as one frame.
StartLocked(c, kind, ks) ==
    /\ kind \in Kinds \ {"fast"}
    /\ ~Busy(c) /\ DurableMuFree /\ ~unavail /\ Left("w")
    /\ Bump("w")
    /\ client' = [client EXCEPT ![c] =
          [Idle EXCEPT !.pc = IF kind = "set" THEN "append" ELSE "apply",
                       !.kind = kind, !.keys = ks, !.w = count.w + 1,
                       !.left = IF kind = "set" THEN {} ELSE ks, !.before = mem]]
    /\ UNCHANGED <<mem, unavail, logVars, jobVars, config, history>>

\* One command of the EXEC or one SetPlain of the batch.
ApplyOne(c) ==
    /\ client[c].pc = "apply"
    /\ \E k \in client[c].left :
          LET left == client[c].left \ {k} IN
          /\ mem' = [mem EXCEPT ![k] = client[c].w]
          /\ client' = [client EXCEPT ![c].left = left,
                                      ![c].pc = IF left = {} THEN "append" ELSE "apply"]
    /\ UNCHANGED <<unavail, logVars, jobVars, config, count, history>>

\* A command of MULTI ATOMIC fails: restoreBefore, nothing is appended.
AbortAtomic(c) ==
    /\ client[c].pc = "apply" /\ client[c].kind = "exec"
    /\ mem' = client[c].before
    /\ client' = [client EXCEPT ![c] = Idle]
    /\ UNCHANGED <<unavail, logVars, jobVars, config, count, history>>

\* The append has returned.  On success memory changes now on the paths that
\* append first; on failure it is restored on the others, and every path but
\* "fast" marks durability unavailable.
FinishWrite(c) ==
    LET cl == client[c] IN
    /\ cl.pc = "finish"
    /\ mem' = IF ~cl.err THEN Overlay(mem, Records(c))
              ELSE IF cl.kind \in {"fast", "set"} THEN mem ELSE cl.before
    /\ unavail' = (unavail \/ (cl.err /\ cl.kind # "fast"))
    /\ floor' = IF cl.sync /\ ~cl.err THEN Max({floor, cl.idx}) ELSE floor
    /\ undone' = IF cl.err /\ cl.idx > 0 THEN undone \cup {cl.idx} ELSE undone
    /\ client' = [client EXCEPT ![c] = Idle]
    /\ UNCHANGED <<logVars, jobVars, config, count, commits>>

-----------------------------------------------------------------------------
(* persistence.Log: appendEncoded.                                         *)

\* appendEncoded, first critical section: refused once the log has failed;
\* "everysec" queues the frame and returns; "always" queues it and waits, with
\* enqueueMu if a rewrite is active; "no" keeps enqueueMu and drains the queue.
AppendEncoded(c) ==
    LET cl == client[c]
        pc == IF failed \/ policy = "everysec" THEN "finish"
              ELSE IF policy = "always" THEN "done" ELSE "drain"
        queued == ~failed /\ policy # "no"
    IN
    /\ cl.pc = "append" /\ enq = None
    /\ queued => Len(queue) < QueueCap
    /\ client' = [client EXCEPT ![c].pc = pc, ![c].err = failed,
                     ![c].sync = queued /\ policy = "always",
                     ![c].idx = IF queued THEN Len(commits) + 1 ELSE 0]
    /\ IF queued
         THEN /\ Committed(c)
              /\ seq' = [seq EXCEPT !.appended = @ + Weight(c)]
              /\ queue' = Append(queue, [frame |-> Frame(c), seq |-> seq.appended + Weight(c),
                                         done |-> IF policy = "always" THEN c ELSE None])
         ELSE UNCHANGED <<commits, seq, queue>>
    /\ enq' = IF pc = "drain" \/ (pc = "done" /\ RewriteActive) THEN c ELSE None
    /\ rewrite' = IF queued /\ policy = "everysec" THEN Buffered(rewrite, Frame(c)) ELSE rewrite
    /\ UNCHANGED <<mem, unavail, policy, failed, file, orphan, installed,
                   rewriteDue, save, saveDue, snap, config, count, floor, undone>>

\* appendEncoded under "no", after the drain: write and flush.  A failed write
\* leaves a torn frame; a failed flush leaves the frame in the file or not.
AppendDirect(c) ==
    LET n == Len(file.frames) + 1 IN
    /\ client[c].pc = "drain" /\ enq = c /\ Drained
    /\ enq' = None
    /\ \/ /\ failed
          /\ client' = [client EXCEPT ![c].pc = "finish", ![c].err = TRUE]
          /\ UNCHANGED <<failed, seq, file, rewrite, commits>>
       \/ /\ ~failed /\ WritesFail                           \* writeAll fails
          /\ failed' = TRUE
          /\ client' = [client EXCEPT ![c].pc = "finish", ![c].err = TRUE]
          /\ UNCHANGED <<seq, file, rewrite, commits>>
       \/ \E ok \in {TRUE, ~WritesFail}, fl \in file.flushed .. n :
          /\ ~failed
          /\ ok => fl = n
          /\ failed' = ~ok
          /\ file' = [file EXCEPT !.frames = Append(@, Frame(c)), !.flushed = fl]
          /\ seq' = [seq EXCEPT !.appended = @ + Weight(c), !.written = seq.appended + Weight(c)]
          /\ Committed(c)
          /\ rewrite' = IF ok THEN Buffered(rewrite, Frame(c)) ELSE rewrite
          /\ client' = [client EXCEPT ![c].pc = "finish", ![c].err = ~ok,
                                      ![c].idx = Len(commits) + 1]
    /\ UNCHANGED <<mem, unavail, policy, queue, orphan, installed, rewriteDue, save,
                   saveDue, snap, config, count, floor, undone>>

-----------------------------------------------------------------------------
Writers ==
    \E c \in Clients :
       \/ \E k \in Keys : StartFast(c, k)
       \/ \E k \in Keys : StartLocked(c, "set", {k})
       \/ \E kind \in {"batch", "exec"} : StartLocked(c, kind, Keys)
       \/ ApplyOne(c) \/ AbortAtomic(c) \/ AppendEncoded(c) \/ AppendDirect(c) \/ FinishWrite(c)

\* The steps of a write that has begun.
Write(c) == ApplyOne(c) \/ AppendEncoded(c) \/ AppendDirect(c) \/ FinishWrite(c)
=============================================================================
