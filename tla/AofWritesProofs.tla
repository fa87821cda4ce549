-------------------------- MODULE AofWritesProofs ---------------------------
(***************************************************************************)
(* Every step of a write keeps the types and the order of the log: one     *)
(* half of the inductive invariant.                                        *)
(***************************************************************************)
EXTENDS AofFacts, AofWrites

\* The larger of two numbers.
LEMMA MaxOfTwo ==
    ASSUME NEW x \in Nat, NEW y \in Nat
    PROVE  Max({x, y}) = IF x >= y THEN x ELSE y
<1> DEFINE m == IF x >= y THEN x ELSE y
<1>1. m \in {x, y} /\ \A z \in {x, y} : m >= z
  OBVIOUS
<1>2. \A z \in {x, y} : (\A u \in {x, y} : z >= u) => z = m
  OBVIOUS
<1> HIDE DEF m
<1>3. Max({x, y}) = m
  BY Zenon, <1>1, <1>2 DEF Max
<1> QED BY Zenon, <1>3 DEF m

\* An update of one client keeps the clients typed.
LEMMA ClientsTyped ==
    ASSUME TypeOK, NEW c \in Clients, NEW cl \in WriteStates
    PROVE  [client EXCEPT ![c] = cl] \in [Clients -> WriteStates]
BY Zenon DEF TypeOK

\* Every step of a write keeps the state well typed.
LEMMA WriterTyped ==
    ASSUME IndexFacts, TypeOK, conf' = conf, Writers
    PROVE  TypeOK'
<1>1. PICK c \in Clients :
         \/ \E k \in Keys : StartFast(c, k)
         \/ \E k \in Keys : StartLocked(c, "set", {k})
         \/ \E kind \in {"batch", "exec"} : StartLocked(c, kind, Keys)
         \/ ApplyOne(c) \/ AbortAtomic(c) \/ AppendEncoded(c) \/ AppendDirect(c) \/ FinishWrite(c)
  BY Zenon DEF Writers
<1> DEFINE cl == client[c]
<1>2. cl \in WriteStates /\ Frame(c) \in Frames /\ Records(c) \in Recs /\ Weight(c) \in Nat
  <2>1. Weight(c) \in Nat
    BY Zenon, Typed DEF Weight, WriteStates, IndexFacts
  <2> QED BY <2>1, Typed
<1>3. /\ count.w + 1 \in Nat /\ mem \in Images
      /\ \A what \in Bounded : [count EXCEPT ![what] = @ + 1] \in [Bounded -> Nat]
  <2>1. count \in [Bounded -> Nat] /\ mem \in Images
    BY Zenon DEF TypeOK
  <2>2. "w" \in Bounded
    BY Zenon DEF Bounded
  <2> QED BY <2>1, <2>2
<1> DEFINE n == Len(commits) + 1
           commit == [recs |-> Records(c), seq |-> seq.appended + Weight(c)]
<1>c. /\ seq \in Seqs /\ commits \in Seq(Commits) /\ n \in Nat
      /\ commit \in Commits /\ Append(commits, commit) \in Seq(Commits)
  <2>1. seq \in Seqs /\ commits \in Seq(Commits)
    BY Zenon DEF TypeOK
  <2>2. commit \in Commits
    BY <1>2, <2>1 DEF Seqs, Commits
  <2> HIDE DEF commit
  <2> QED BY <2>1, <2>2
<1> HIDE DEF n, commit
<1>4. ASSUME NEW k \in Keys, StartFast(c, k) PROVE TypeOK'
  <2>1. [Idle EXCEPT !.pc = "append", !.kind = "fast", !.keys = {k}, !.w = count.w + 1]
           \in WriteStates
    BY Zenon, <1>3, Constructed DEF WriteStates, WriteKinds
  <2>2. client' \in [Clients -> WriteStates]
    BY Zenon, <1>4, <2>1, ClientsTyped DEF StartFast
  <2>3. count' \in [Bounded -> Nat]
    BY Zenon, <1>3, <1>4 DEF StartFast, Bump, Bounded
  <2> QED BY ZenonT(40), <1>3, <1>4, <2>2, <2>3 DEF TypeOK, StartFast, logVars, jobVars, history, Policies
<1>5. ASSUME NEW kind \in {"set", "batch", "exec"}, NEW ks \in SUBSET Keys,
             StartLocked(c, kind, ks)
      PROVE  TypeOK'
  <2>1. [Idle EXCEPT !.pc = IF kind = "set" THEN "append" ELSE "apply",
                     !.kind = kind, !.keys = ks, !.w = count.w + 1,
                     !.left = IF kind = "set" THEN {} ELSE ks, !.before = mem] \in WriteStates
    BY Zenon, <1>3, Constructed DEF WriteStates, WriteKinds
  <2>2. client' \in [Clients -> WriteStates]
    BY Zenon, <1>5, <2>1, ClientsTyped DEF StartLocked
  <2>3. count' \in [Bounded -> Nat]
    BY Zenon, <1>3, <1>5 DEF StartLocked, Bump, Bounded
  <2> QED BY ZenonT(40), <1>5, <2>2, <2>3 DEF TypeOK, StartLocked, logVars, jobVars, history, Policies
<1>6. CASE ApplyOne(c)
  <2>1. PICK k \in cl.left :
          LET left == cl.left \ {k} IN
          /\ mem' = [mem EXCEPT ![k] = cl.w]
          /\ client' = [client EXCEPT ![c].left = left,
                                      ![c].pc = IF left = {} THEN "append" ELSE "apply"]
    BY Zenon, <1>6 DEF ApplyOne
  <2>2. mem' \in Images
    BY Zenon, <1>2, <2>1 DEF TypeOK, Images, WriteStates
  <2>3. client' \in [Clients -> WriteStates]
    BY Zenon, <1>2, <2>1 DEF TypeOK, WriteStates
  <2> QED BY <1>6, <2>2, <2>3 DEF TypeOK, ApplyOne, logVars, jobVars, history, Policies
<1>7. CASE AbortAtomic(c)
  <2>1. mem' \in Images /\ client' \in [Clients -> WriteStates]
    BY ZenonT(40), <1>2, <1>7, ClientsTyped, Constructed DEF AbortAtomic, WriteStates
  <2> QED BY <1>7, <2>1 DEF TypeOK, AbortAtomic, logVars, jobVars, history, Policies
<1>8. CASE AppendEncoded(c)
  <2> DEFINE queued == ~failed /\ policy # "no"
             pc == IF failed \/ policy = "everysec" THEN "finish"
                   ELSE IF policy = "always" THEN "done" ELSE "drain"
             idx == IF queued THEN n ELSE 0
             sync == queued /\ policy = "always"
             done == IF policy = "always" THEN c ELSE None
             entry == [frame |-> Frame(c), seq |-> seq.appended + Weight(c), done |-> done]
  <2>1. client' \in [Clients -> WriteStates]
    <3>1. client' = [client EXCEPT ![c] = [cl EXCEPT !.pc = pc, !.err = failed, !.sync = sync,
                                                     !.idx = idx]]
      <4>1. client' = [client EXCEPT ![c].pc = pc, ![c].err = failed,
                     ![c].sync = sync, ![c].idx = idx]
        BY Zenon, <1>8 DEF AppendEncoded, n
      <4> HIDE DEF pc, sync, idx
      <4> QED BY Zenon, <4>1
    <3>2. /\ pc \in {"finish", "done", "drain"} /\ idx \in Nat
          /\ sync \in BOOLEAN /\ failed \in BOOLEAN
      BY Zenon, <1>c DEF TypeOK
    <3> HIDE DEF pc, idx, sync
    <3>3. [cl EXCEPT !.pc = pc, !.err = failed, !.sync = sync, !.idx = idx] \in WriteStates
      BY Zenon, <1>2, <3>2 DEF WriteStates
    <3> QED BY <3>1, <3>3, ClientsTyped
  <2>2. /\ commits' \in Seq(Commits) /\ queue' \in Seq(Entries)
        /\ seq' \in Seqs
    <3>1. entry \in Entries
      BY <1>2, <1>c DEF Seqs, Entries
    <3>2. /\ commits' = IF queued THEN Append(commits, commit) ELSE commits
          /\ queue' = IF queued THEN Append(queue, entry) ELSE queue
          /\ seq' = IF queued THEN [seq EXCEPT !.appended = @ + Weight(c)] ELSE seq
      BY Zenon, <1>8 DEF AppendEncoded, Committed, commit
    <3>3. queue \in Seq(Entries)
      BY Zenon DEF TypeOK
    <3> HIDE DEF entry, queued
    <3>4. Append(queue, entry) \in Seq(Entries) /\ [seq EXCEPT !.appended = @ + Weight(c)] \in Seqs
      BY <1>2, <1>c, <3>1, <3>3 DEF Seqs
    <3> QED BY Zenon, <1>c, <3>2, <3>3, <3>4
  <2>3. rewrite' \in Rewrites
    <3>1. rewrite' \in {rewrite, Buffered(rewrite, Frame(c))}
      BY Zenon, <1>8 DEF AppendEncoded
    <3> QED BY Zenon, <1>2, <3>1, BufferTyped DEF TypeOK
  <2>4. enq' \in Clients \cup {None}
    BY Zenon, <1>8 DEF AppendEncoded
  <2> QED BY Zenon, <1>8, <2>1, <2>2, <2>3, <2>4 DEF TypeOK, AppendEncoded, Policies
<1>9. CASE AppendDirect(c)
  <2>1. /\ enq' = None
        /\ UNCHANGED <<mem, unavail, policy, queue, orphan, installed, rewriteDue, save,
                       saveDue, snap, config, count, floor, undone>>
    BY Zenon, <1>9 DEF AppendDirect
  <2>2. CASE /\ failed' \in BOOLEAN
             /\ client' = [client EXCEPT ![c] = [cl EXCEPT !.pc = "finish", !.err = TRUE]]
             /\ UNCHANGED <<seq, file, rewrite, commits>>
    <3>1. [cl EXCEPT !.pc = "finish", !.err = TRUE] \in WriteStates
      BY Zenon, <1>2 DEF WriteStates
    <3> QED BY Zenon, <2>1, <2>2, <3>1, ClientsTyped DEF TypeOK, Policies
  <2>3. ASSUME NEW ok \in BOOLEAN, NEW fl \in file.flushed .. Len(file.frames) + 1,
               failed' = ~ok,
               file' = [file EXCEPT !.frames = Append(@, Frame(c)), !.flushed = fl],
               seq' = [seq EXCEPT !.appended = @ + Weight(c), !.written = seq.appended + Weight(c)],
               commits' = Append(commits, commit),
               rewrite' \in {rewrite, Buffered(rewrite, Frame(c))},
               client' = [client EXCEPT ![c] = [cl EXCEPT !.pc = "finish", !.err = ~ok,
                                                          !.idx = n]]
        PROVE  TypeOK'
    <3>1. [cl EXCEPT !.pc = "finish", !.err = ~ok, !.idx = n] \in WriteStates
      <4> DEFINE err == ~ok
      <4>1. err \in BOOLEAN
        OBVIOUS
      <4> HIDE DEF err
      <4>2. [cl EXCEPT !.pc = "finish", !.err = err, !.idx = n] \in WriteStates
        BY Zenon, <1>2, <1>c, <4>1 DEF WriteStates
      <4> QED BY Zenon, <4>2 DEF err
    <3>2. /\ file' \in Files
          /\ file'.synced <= file'.flushed /\ file'.flushed <= Len(file'.frames)
      <4>1. /\ file \in Files
            /\ file.synced <= file.flushed /\ file.flushed <= Len(file.frames)
        BY Zenon DEF TypeOK
      <4> DEFINE frames == Append(file.frames, Frame(c))
      <4>2. frames \in Seq(Frames) /\ Len(frames) = Len(file.frames) + 1
        BY <1>2, <4>1, AppendProperties DEF Files
      <4>4. file' = [file EXCEPT !.frames = frames, !.flushed = fl]
        BY <2>3
      <4>5. fl \in Nat
        BY <4>1 DEF Files
      <4> HIDE DEF frames
      <4>6. file' \in Files /\ file'.frames = frames /\ file'.flushed = fl /\ file'.synced = file.synced
        BY Zenon, <4>1, <4>2, <4>4, <4>5 DEF Files
      <4>7. file.synced \in Nat /\ file.flushed \in Nat
        BY Zenon, <4>1 DEF Files
      <4> QED BY <4>1, <4>2, <4>5, <4>6, <4>7
    <3>3. commits' \in Seq(Commits) /\ seq' \in Seqs
      <4>1. commits' \in Seq(Commits)
        BY <1>c, <2>3
      <4>2. seq' = [seq EXCEPT !.appended = @ + Weight(c), !.written = seq.appended + Weight(c)]
        BY <2>3
      <4> DEFINE w == seq.appended + Weight(c)
      <4>3. w \in Nat
        BY <1>2, <1>c DEF Seqs
      <4>4. seq' = [seq EXCEPT !.appended = w, !.written = w]
        BY <4>2
      <4> HIDE DEF w
      <4> QED BY Zenon, <1>c, <4>1, <4>3, <4>4 DEF Seqs
    <3>4. rewrite' \in Rewrites
      BY Zenon, <1>2, <2>3, BufferTyped DEF TypeOK
    <3> QED BY Zenon, <2>1, <2>3, <3>1, <3>2, <3>3, <3>4, ClientsTyped DEF TypeOK, Policies
  <2>4. \/ /\ failed' \in BOOLEAN
           /\ client' = [client EXCEPT ![c] = [cl EXCEPT !.pc = "finish", !.err = TRUE]]
           /\ UNCHANGED <<seq, file, rewrite, commits>>
        \/ \E ok \in BOOLEAN, fl \in file.flushed .. Len(file.frames) + 1 :
             /\ failed' = ~ok
             /\ file' = [file EXCEPT !.frames = Append(@, Frame(c)), !.flushed = fl]
             /\ seq' = [seq EXCEPT !.appended = @ + Weight(c), !.written = seq.appended + Weight(c)]
             /\ commits' = Append(commits, commit)
             /\ rewrite' \in {rewrite, Buffered(rewrite, Frame(c))}
             /\ client' = [client EXCEPT ![c] = [cl EXCEPT !.pc = "finish", !.err = ~ok,
                                                        !.idx = n]]
    BY ZenonT(40), <1>9 DEF AppendDirect, Committed, TypeOK, n, commit
  <2> QED BY Zenon, <2>2, <2>3, <2>4
<1>10. CASE FinishWrite(c)
  <2>1. mem' \in Images
    BY Zenon, <1>2, <1>3, <1>10 DEF FinishWrite, Overlay, Images, Recs, WriteStates
  <2>2. client' \in [Clients -> WriteStates]
    BY Zenon, <1>10, ClientsTyped, Constructed DEF FinishWrite
  <2>3. floor' \in Nat /\ undone' \subseteq Nat
    <3>1. Max({floor, cl.idx}) \in Nat
      <4>1. floor \in Nat /\ cl.idx \in Nat
        BY Zenon, <1>2 DEF TypeOK, WriteStates
      <4> HIDE DEF cl
      <4> QED BY <4>1, MaxOfTwo
    <3> QED BY Zenon, <1>2, <1>10, <3>1 DEF TypeOK, FinishWrite, WriteStates
  <2>4. unavail' \in BOOLEAN
    BY Zenon, <1>10 DEF FinishWrite
  <2> QED BY <1>10, <2>1, <2>2, <2>3, <2>4 DEF TypeOK, FinishWrite, logVars, jobVars, Policies
<1> QED BY Zenon, <1>1, <1>4, <1>5, <1>6, <1>7, <1>8, <1>9, <1>10

\* What a write may change before its append and after it: its own state only.
LEMMA WriterOnly ==
    ASSUME LogInv, TypeOK',
           UNCHANGED <<conf, policy, failed, seq, queue, enq, file, orphan, rewrite, config, commits>>,
           NEW c \in Clients, NEW cl, client' = [client EXCEPT ![c] = cl],
           client[c].pc \notin {"drain", "done"},
           cl.pc \in {"idle", "apply", "append"}, cl.idx = 0, ~cl.err, ~cl.sync,
           cl.pc # "idle" =>
               /\ cl.kind \in WriteKinds /\ cl.kind \in Kinds /\ cl.keys # {}
               /\ cl.kind \in {"batch", "exec"} => cl.keys = Keys
               /\ config = None /\ rewrite.phase # "begin"
               /\ \A d \in Clients \ {c} : Busy(d) =>
                     /\ cl.kind = "fast" /\ client[d].kind = "fast"
                     /\ cl.keys \cap client[d].keys = {},
           floor' <= Reach(file.frames, file.synced), undone' \subseteq DOMAIN commits
    PROVE  LogInv'
<1>1. client \in [Clients -> WriteStates]
  BY Zenon DEF LogInv, TypeOK
<1>2. client'[c] = cl /\ \A d \in Clients \ {c} : client'[d] = client[d]
  BY <1>1
<1>3. LogInOrder'
  BY Zenon DEF LogInv, LogInOrder, Written, Reach
<1>4. SequenceInOrder'
  BY Zenon DEF LogInv, SequenceInOrder, Written, Reach, SeqOf
<1>5. SyncedReached'
  BY Zenon DEF LogInv, SyncedReached, Reach
<1>6. \A d \in Clients \ {c} : Busy(d)' = Busy(d)
  BY Zenon, <1>2 DEF Busy
<1>7. Busy(c)' = (cl.pc # "idle")
  BY Zenon, <1>2 DEF Busy
<1>8. WritesSound'
  <2>1. ASSUME NEW d \in Clients PROVE WriteSound(d)'
    <3>1. CASE d = c
      BY Zenon, <1>2, <1>7, <3>1 DEF WriteSound, Kinds
    <3>2. CASE d # c
      <4>1. /\ commits' \in Seq(Commits) /\ Len(commits) <= Len(commits')
            /\ Reach(file.frames, file.synced)' = Reach(file.frames, file.synced)
            /\ Reach(file.frames, file.synced) \in Nat
        BY LogFacts, FileFacts DEF Reach
      <4> QED BY <1>2, <3>2, <4>1, StillSound
    <3> QED BY <3>1, <3>2
  <2>2. ASSUME NEW i \in DOMAIN queue, queue[i].done # None
        PROVE  client'[queue[i].done].pc = "done" /\ client'[queue[i].done].idx = queue[i].frame.idx
    <3>1. queue[i].done \in Clients
      BY <2>2, LogFacts
    <3>2. client[queue[i].done].pc = "done" /\ client[queue[i].done].idx = queue[i].frame.idx
      BY Zenon, <2>2 DEF LogInv, WritesSound
    <3> QED BY Zenon, <1>2, <3>1, <3>2
  <2> QED BY Zenon, <2>1, <2>2 DEF WritesSound
<1>9. LocksHeld'
  <2>1. ASSUME NEW d \in Clients, NEW e \in Clients, d # e, Busy(d)', Busy(e)'
        PROVE  /\ client'[d].kind = "fast" /\ client'[e].kind = "fast"
               /\ client'[d].keys \cap client'[e].keys = {}
    <3>1. CASE d # c /\ e # c
      BY ZenonT(40), <1>2, <1>6, <2>1, <3>1 DEF LogInv, LocksHeld
    <3>2. CASE d = c \/ e = c
      BY Zenon, <1>2, <1>6, <1>7, <2>1, <3>2
    <3> QED BY Zenon, <3>1, <3>2
  <2>2. config # None \/ rewrite.phase = "begin" => \A d \in Clients : ~Busy(d)'
    BY Zenon, <1>6, <1>7 DEF LogInv, LocksHeld
  <2>3. /\ config # None <=> enq = "config"
        /\ rewrite.phase \in {"begin", "install"} <=> enq = "rewrite"
        /\ \A d \in Clients :
              /\ client'[d].pc = "drain" => enq = d
              /\ client'[d].pc = "done" /\ RewriteActive => enq = d
              /\ enq = d => \/ client'[d].pc = "drain"
                            \/ client'[d].pc = "done" /\ RewriteActive /\ client'[d].idx = Len(commits)
    BY Zenon, <1>2 DEF LogInv, LocksHeld
  <2> QED BY Zenon, <2>1, <2>2, <2>3 DEF LocksHeld, RewriteActive
<1>10. RewriteInOrder'
  <2>1. Unbuffered' = Unbuffered
    BY <1>2 DEF Unbuffered
  <2> QED BY Zenon, <2>1 DEF LogInv, RewriteInOrder, RewriteActive
<1> QED BY Zenon, <1>3, <1>4, <1>5, <1>8, <1>9, <1>10 DEF LogInv

\* A write that starts leaves the log in order.
LEMMA StartLog ==
    ASSUME LogInv, TypeOK', conf' = conf, NEW c \in Clients,
           NEW kind \in WriteKinds, NEW ks \in SUBSET Keys, ks # {},
           kind \in {"batch", "exec"} => ks = Keys,
           \/ kind = "fast" /\ \E k \in Keys : ks = {k} /\ StartFast(c, k)
           \/ StartLocked(c, kind, ks)
    PROVE  LogInv'
<1> DEFINE cl == client'[c]
<1>1. /\ UNCHANGED <<policy, failed, seq, queue, enq, file, orphan, rewrite, config, commits, floor, undone>>
      /\ client[c].pc = "idle" /\ ~Exclusive /\ kind \in Kinds
      /\ kind # "fast" => ~Shared
      /\ kind = "fast" => \A d \in Clients : Busy(d) => ks \cap client[d].keys = {}
  BY Zenon DEF StartFast, StartLocked, logVars, jobVars, history, ShardFree, DurableMuFree, Busy
<1>2. /\ client' = [client EXCEPT ![c] = cl] /\ cl.kind = kind /\ cl.keys = ks
      /\ cl.pc \in {"apply", "append"} /\ cl.idx = 0 /\ ~cl.err /\ ~cl.sync
  <2>1. client \in [Clients -> WriteStates]
    BY Zenon DEF LogInv, TypeOK
  <2>2. CASE \E k \in Keys : ks = {k} /\ kind = "fast" /\ StartFast(c, k)
    <3>1. PICK k \in Keys : ks = {k} /\ kind = "fast" /\ StartFast(c, k)
      BY <2>2
    <3>2. client' = [client EXCEPT ![c] =
            [Idle EXCEPT !.pc = "append", !.kind = "fast", !.keys = {k}, !.w = count.w + 1]]
      BY Zenon, <3>1 DEF StartFast
    <3> QED BY Zenon, <2>1, <3>1, <3>2 DEF Idle
  <2>3. CASE StartLocked(c, kind, ks)
    <3>1. client' = [client EXCEPT ![c] =
            [Idle EXCEPT !.pc = IF kind = "set" THEN "append" ELSE "apply",
                       !.kind = kind, !.keys = ks, !.w = count.w + 1,
                       !.left = IF kind = "set" THEN {} ELSE ks, !.before = mem]]
      BY Zenon, <2>3 DEF StartLocked
    <3> QED BY Zenon, <2>1, <3>1 DEF Idle
  <2> QED BY <2>2, <2>3
<1>3. \A d \in Clients \ {c} : Busy(d) =>
         kind = "fast" /\ client[d].kind = "fast" /\ ks \cap client[d].keys = {}
  BY Zenon, <1>1 DEF Exclusive, Shared
<1>4. config = None /\ rewrite.phase # "begin"
  BY Zenon, <1>1 DEF Exclusive
<1>5. floor' <= Reach(file.frames, file.synced) /\ undone' \subseteq DOMAIN commits
  BY Zenon, <1>1 DEF LogInv, SyncedReached, WritesSound
<1> HIDE DEF cl
<1> QED BY Zenon, <1>1, <1>2, <1>3, <1>4, <1>5, WriterOnly

\* So do its changes to memory, its abort and its answer.
LEMMA MoveLog ==
    ASSUME LogInv, TypeOK', conf' = conf, NEW c \in Clients,
           ApplyOne(c) \/ AbortAtomic(c) \/ FinishWrite(c)
    PROVE  LogInv'
<1> DEFINE cl == client'[c]
<1>0. client \in [Clients -> WriteStates]
  BY Zenon DEF LogInv, TypeOK
<1>1. /\ UNCHANGED <<policy, failed, seq, queue, enq, file, orphan, rewrite, config, commits>>
      /\ client[c].pc \in {"apply", "finish"} /\ client' = [client EXCEPT ![c] = cl]
  BY Zenon, <1>0 DEF ApplyOne, AbortAtomic, FinishWrite, logVars, jobVars, history
<1>2. CASE cl = Idle /\ floor' <= Reach(file.frames, file.synced) /\ undone' \subseteq DOMAIN commits
  <2>1. Idle.pc = "idle" /\ Idle.idx = 0 /\ ~Idle.err /\ ~Idle.sync
    BY Zenon DEF Idle
  <2> HIDE DEF cl
  <2> QED BY Zenon, <1>1, <1>2, <2>1, WriterOnly
<1>3. CASE ApplyOne(c)
  <2>1. PICK k \in client[c].left :
          LET left == client[c].left \ {k} IN
          client' = [client EXCEPT ![c].left = left,
                                   ![c].pc = IF left = {} THEN "append" ELSE "apply"]
    BY Zenon, <1>3 DEF ApplyOne
  <2>2. /\ cl.kind = client[c].kind /\ cl.keys = client[c].keys /\ cl.idx = client[c].idx
        /\ cl.err = client[c].err /\ cl.sync = client[c].sync /\ cl.pc \in {"apply", "append"}
    <3>1. client[c] \in WriteStates
      BY <1>0
    <3> QED BY Zenon, <1>0, <2>1, <3>1 DEF WriteStates
  <2>3. client[c].pc = "apply" /\ Busy(c) /\ floor' = floor /\ undone' = undone
    BY Zenon, <1>3 DEF ApplyOne, Busy, history
  <2>4. /\ client[c].idx = 0 /\ ~client[c].err /\ ~client[c].sync
        /\ client[c].kind \in WriteKinds /\ client[c].kind \in Kinds /\ client[c].keys # {}
        /\ client[c].kind \in {"batch", "exec"} => client[c].keys = Keys
    BY Zenon, <2>3 DEF LogInv, WritesSound, WriteSound
  <2>5. /\ config = None /\ rewrite.phase # "begin"
        /\ \A d \in Clients \ {c} : Busy(d) =>
                     /\ client[c].kind = "fast" /\ client[d].kind = "fast"
                     /\ client[c].keys \cap client[d].keys = {}
    BY Zenon, <2>3 DEF LogInv, LocksHeld
  <2>6. floor' <= Reach(file.frames, file.synced) /\ undone' \subseteq DOMAIN commits
    BY Zenon, <2>3 DEF LogInv, SyncedReached, WritesSound
  <2> HIDE DEF cl
  <2> QED BY Zenon, <1>1, <2>2, <2>3, <2>4, <2>5, <2>6, WriterOnly
<1>4. CASE AbortAtomic(c)
  <2>1. cl = Idle /\ floor' = floor /\ undone' = undone
    BY Zenon, <1>0, <1>4 DEF AbortAtomic, history
  <2>2. floor' <= Reach(file.frames, file.synced) /\ undone' \subseteq DOMAIN commits
    BY Zenon, <2>1 DEF LogInv, SyncedReached, WritesSound
  <2> QED BY <1>2, <2>1, <2>2
<1>5. CASE FinishWrite(c)
  <2>1. cl = Idle /\ client[c].pc = "finish"
    BY Zenon, <1>0, <1>5 DEF FinishWrite
  <2>2. /\ client[c].idx \in 0 .. Len(commits)
        /\ client[c].sync /\ ~client[c].err => client[c].idx <= Reach(file.frames, file.synced)
        /\ undone \subseteq DOMAIN commits /\ floor <= Reach(file.frames, file.synced)
    BY Zenon, <2>1 DEF LogInv, WritesSound, WriteSound, SyncedReached
  <2>3. commits \in Seq(Commits) /\ floor \in Nat
    BY Zenon DEF LogInv, TypeOK
  <2>4. floor' <= Reach(file.frames, file.synced)
    <3>1. floor' = IF client[c].sync /\ ~client[c].err THEN Max({floor, client[c].idx}) ELSE floor
      BY Zenon, <1>5 DEF FinishWrite
    <3>2. client[c].idx \in Nat
      BY <2>2, <2>3
    <3>3. Max({floor, client[c].idx}) = IF floor >= client[c].idx THEN floor ELSE client[c].idx
      BY Zenon, <2>3, <3>2, MaxOfTwo
    <3> QED BY <2>2, <3>1, <3>3
  <2>5. undone' \subseteq DOMAIN commits
    <3>1. undone' \subseteq undone \cup ({client[c].idx} \ {0})
      BY <1>5, <2>2, <2>3 DEF FinishWrite
    <3>2. client[c].idx \in {0} \cup DOMAIN commits
      BY <2>2, <2>3
    <3> QED BY Zenon, <2>2, <3>1, <3>2
  <2> QED BY Zenon, <1>2, <2>1, <2>4, <2>5
<1> QED BY <1>3, <1>4, <1>5

\* AppendEncoded without a new commit: refused, or left to the drain.
LEMMA RefusedLog ==
    ASSUME IndexFacts, LogInv, TypeOK', conf' = conf, NEW c \in Clients, AppendEncoded(c),
           failed \/ policy = "no"
    PROVE  LogInv'
<1> DEFINE cl == client[c]
<1>1. /\ UNCHANGED <<conf, policy, failed, seq, queue, file, orphan, rewrite, config, commits, floor, undone>>
      /\ cl.pc = "append" /\ enq = None
      /\ enq' = IF failed THEN None ELSE c
  <2>1. failed \in BOOLEAN /\ policy \in {"always", "everysec", "no"}
    BY Zenon DEF LogInv, TypeOK
  <2> QED BY Zenon, <2>1 DEF AppendEncoded
<1>2. /\ client'[c].pc = (IF failed THEN "finish" ELSE "drain")
      /\ client'[c].err = failed /\ ~client'[c].sync /\ client'[c].idx = 0
      /\ client'[c].kind = cl.kind /\ client'[c].keys = cl.keys
      /\ \A d \in Clients \ {c} : client'[d] = client[d]
  <2>1. client' = [client EXCEPT ![c].pc = (IF failed THEN "finish" ELSE "drain"), ![c].err = failed,
                     ![c].sync = FALSE, ![c].idx = 0]
    BY Zenon DEF AppendEncoded
  <2>2. client \in [Clients -> WriteStates] /\ client[c] \in WriteStates
    BY Zenon, LogFacts, Typed DEF LogInv
  <2> QED BY Zenon, <2>1, <2>2 DEF WriteStates
<1>3. LogInOrder' /\ SequenceInOrder' /\ SyncedReached'
  <2>1. LogInOrder'
    BY Zenon, <1>1 DEF LogInv, LogInOrder, Written, Reach
  <2>2. SequenceInOrder'
    BY Zenon, <1>1 DEF LogInv, SequenceInOrder, Written, Reach, SeqOf
  <2>3. SyncedReached'
    BY Zenon, <1>1 DEF LogInv, SyncedReached, Reach
  <2> QED BY Zenon, <2>1, <2>2, <2>3
<1>4. \A d \in Clients : Busy(d)' = Busy(d) /\ client'[d].kind = client[d].kind /\ client'[d].keys = client[d].keys
  BY Zenon, <1>1, <1>2 DEF Busy
<1>5. WritesSound'
  <2>1. ASSUME NEW d \in Clients PROVE WriteSound(d)'
    <3>1. CASE d = c
      <4>1. Busy(c) /\ Len(commits') \in Nat
        BY Zenon, <1>1, LogFacts DEF Busy
      <4>2. /\ cl.kind \in WriteKinds /\ cl.kind \in Kinds /\ cl.keys # {}
            /\ cl.kind \in {"batch", "exec"} => cl.keys = Keys
        BY Zenon, <4>1 DEF LogInv, WritesSound, WriteSound
      <4>3. 0 \in 0 .. Len(commits') /\ (~failed => policy = "no") /\ failed \in BOOLEAN
        BY <4>1 DEF LogInv, TypeOK
      <4> QED BY Zenon, <1>1, <1>2, <3>1, <4>2, <4>3 DEF WriteSound, Kinds
    <3>2. CASE d # c
      <4>1. /\ commits' \in Seq(Commits) /\ Len(commits) <= Len(commits')
            /\ Reach(file.frames, file.synced)' = Reach(file.frames, file.synced)
            /\ Reach(file.frames, file.synced) \in Nat
        BY <1>1, LogFacts, FileFacts DEF Reach
      <4> QED BY <1>1, <1>2, <3>2, <4>1, StillSound
    <3> QED BY <3>1, <3>2
  <2>2. ASSUME NEW i \in DOMAIN queue, queue[i].done # None
        PROVE  client'[queue[i].done].pc = "done" /\ client'[queue[i].done].idx = queue[i].frame.idx
    <3>1. queue[i].done \in Clients
      BY <2>2, LogFacts
    <3>2. client[queue[i].done].pc = "done" /\ client[queue[i].done].idx = queue[i].frame.idx
      BY Zenon, <2>2 DEF LogInv, WritesSound
    <3> QED BY Zenon, <1>1, <1>2, <3>1, <3>2
  <2>3. undone \subseteq DOMAIN commits
    BY Zenon DEF LogInv, WritesSound
  <2> QED BY Zenon, <1>1, <2>1, <2>2, <2>3 DEF WritesSound
<1>6. /\ enq = None /\ config = None /\ rewrite.phase \notin {"begin", "install"}
      /\ \A d \in Clients : client[d].pc # "drain" /\ ~(client[d].pc = "done" /\ RewriteActive)
      /\ enq' \notin {"config", "rewrite"}
  <2>1. None \notin Clients \cup {"config", "rewrite"} /\ c \notin {"config", "rewrite"}
    BY AofAssumption
  <2> QED BY Zenon, <1>1, <2>1 DEF LogInv, LocksHeld
<1>7. LocksHeld'
  <2>1. \A d, e \in Clients : d # e /\ Busy(d)' /\ Busy(e)' =>
          /\ client'[d].kind = "fast" /\ client'[e].kind = "fast"
          /\ client'[d].keys \cap client'[e].keys = {}
    BY <1>4 DEF LogInv, LocksHeld
  <2>2. RewriteActive' = RewriteActive
    BY Zenon, <1>1 DEF RewriteActive
  <2>3. ASSUME NEW d \in Clients
        PROVE  /\ client'[d].pc = "drain" => enq' = d
               /\ client'[d].pc = "done" /\ RewriteActive => enq' = d
               /\ enq' = d => client'[d].pc = "drain"
    <3>1. d # None
      BY AofAssumption
    <3> QED BY Zenon, <1>1, <1>2, <1>6, <3>1
  <2> QED BY Zenon, <1>1, <1>6, <2>1, <2>2, <2>3 DEF LocksHeld
<1>8. RewriteInOrder'
  <2>1. Unbuffered' = 0 /\ Unbuffered = 0
    <3>1. ASSUME NEW d \in Clients PROVE ~(enq' = d /\ client'[d].pc = "done") /\ enq # d
      <4>1. d # None
        BY AofAssumption
      <4> QED BY Zenon, <1>1, <1>2, <4>1
    <3> QED BY Zenon, <3>1 DEF Unbuffered
  <2> QED BY Zenon, <1>1, <2>1 DEF LogInv, RewriteInOrder, RewriteActive
<1> QED BY Zenon, <1>3, <1>5, <1>7, <1>8 DEF LogInv

\* AppendEncoded with a new commit, queued for the sync loop.
LEMMA QueuedLog ==
    ASSUME IndexFacts, LogInv, TypeOK', conf' = conf, NEW c \in Clients, AppendEncoded(c),
           ~failed, policy # "no"
    PROVE  LogInv'
<1> DEFINE cl == client[c]
           N == Len(commits)
           q == Len(queue)
           always == policy = "always"
           m == seq.appended + Weight(c)
           entry == [frame |-> Frame(c), seq |-> m, done |-> IF always THEN c ELSE None]
<1>1. /\ UNCHANGED <<conf, policy, failed, file, orphan, config, floor, undone>>
      /\ cl.pc = "append" /\ enq = None
      /\ enq' = IF always /\ RewriteActive THEN c ELSE None
      /\ rewrite' = IF always THEN rewrite ELSE Buffered(rewrite, Frame(c))
      /\ Committed(c) /\ queue' = Append(queue, entry)
      /\ seq' = [seq EXCEPT !.appended = m]
      /\ policy \in {"always", "everysec"}
  <2>1. policy \in {"always", "everysec", "no"}
    BY Zenon DEF LogInv, TypeOK
  <2> QED BY Zenon, <2>1 DEF AppendEncoded
<1>2. /\ client'[c].pc = (IF always THEN "done" ELSE "finish")
      /\ ~client'[c].err /\ client'[c].sync = always /\ client'[c].idx = N + 1
      /\ client'[c].kind = cl.kind /\ client'[c].keys = cl.keys
      /\ \A d \in Clients \ {c} : client'[d] = client[d]
  <2> DEFINE sync == ~failed /\ policy # "no" /\ policy = "always"
             pc == IF always THEN "done" ELSE "finish"
  <2>1. client' = [client EXCEPT ![c].pc = pc, ![c].err = failed, ![c].sync = sync, ![c].idx = N + 1]
    BY Zenon, <1>1 DEF AppendEncoded
  <2>2. client \in [Clients -> WriteStates] /\ client[c] \in WriteStates
    BY Zenon, LogFacts, Typed DEF LogInv
  <2>3. sync = always
    OBVIOUS
  <2> HIDE DEF sync, pc, always
  <2>4. /\ client'[c].pc = pc /\ client'[c].err = failed /\ client'[c].sync = sync /\ client'[c].idx = N + 1
        /\ client'[c].kind = cl.kind /\ client'[c].keys = cl.keys
        /\ \A d \in Clients \ {c} : client'[d] = client[d]
    BY Zenon, <2>1, <2>2 DEF WriteStates
  <2> QED BY Zenon, <2>3, <2>4 DEF pc
<1>3. Busy(c)
  BY Zenon, <1>1 DEF Busy
<1>4. /\ Len(commits') = N + 1 /\ DOMAIN commits' = 1 .. N + 1 /\ N \in Nat
      /\ m \in Nat /\ m > seq.appended
      /\ \A i, j \in DOMAIN commits' : i < j =>
            /\ commits'[i].seq <= commits'[j].seq
            /\ commits'[j].seq > 0 => commits'[i].seq < commits'[j].seq
      /\ \A n \in 0 .. N : SeqOf(n)' = SeqOf(n)
      /\ SeqOf(Len(commits))' = m
      /\ \A i \in DOMAIN commits' : commits'[i].seq \in 1 .. seq.synced => i \in 1 .. N
  BY <1>1, <1>3, AppendCommit
<1>5. /\ entry \in Entries /\ entry.frame.idx = N + 1 /\ entry.seq = m
      /\ entry.done = (IF always THEN c ELSE None)
  <2>1. Frame(c) \in Frames /\ Frame(c).idx = N + 1
    BY Zenon, Typed DEF LogInv, Frame
  <2> QED BY Zenon, <1>4, <2>1 DEF Entries
<1> HIDE DEF entry, m, always
<1>6. /\ Len(queue') = q + 1 /\ DOMAIN queue' = 1 .. q + 1 /\ q \in Nat
      /\ \A i \in 1 .. q : queue'[i] = queue[i]
      /\ queue'[q + 1] = entry
  BY <1>1, <1>5, LogFacts, AppendProperties
<1>7. /\ Written' = Written /\ Written \in Nat /\ Written + q = N
      /\ \A i \in 1 .. q : queue[i].frame.idx = Written + i
  <2>1. /\ Written + q = N /\ (q > 0 => queue[1].frame.idx = Written + 1)
        /\ \A i \in 1 .. q : queue[i].frame.idx = queue[1].frame.idx + i - 1
    BY LogFacts DEF LogInv, LogInOrder
  <2>2. Written' = Written
    BY Zenon, <1>1 DEF Written, Reach
  <2>3. Written \in Nat
    BY Zenon, LogFacts
  <2>4. ASSUME NEW i \in 1 .. q PROVE queue[i].frame.idx = Written + i
    <3>1. q \in Nat /\ i \in Nat /\ q > 0
      BY <1>6
    <3>2. queue[i].frame.idx = (Written + 1) + i - 1
      BY Zenon, <2>1, <3>1
    <3> QED BY <2>3, <3>1, <3>2
  <2> QED BY Zenon, <2>1, <2>2, <2>3, <2>4
<1>8. \A i \in 1 .. q + 1 : queue'[i].frame.idx = Written + i
  <2>1. queue'[q + 1].frame.idx = Written + (q + 1)
    <3>1. queue'[q + 1].frame.idx = N + 1
      BY Zenon, <1>5, <1>6
    <3>2. q \in Nat /\ Written \in Nat /\ Written + q = N
      BY Zenon, <1>6, <1>7
    <3>3. N + 1 = Written + (q + 1)
      BY <3>2
    <3> QED BY Zenon, <3>1, <3>3
  <2>2. \A i \in 1 .. q : queue'[i].frame.idx = Written + i
    BY Zenon, <1>6, <1>7
  <2>3. \A i \in 1 .. q + 1 : i \in 1 .. q \/ i = q + 1
    BY <1>6
  <2> QED BY Zenon, <2>1, <2>2, <2>3
<1>9. LogInOrder'
  <2>1. queue' # <<>> /\ queue'[1].frame.idx = Written + 1
    BY <1>6, <1>8
  <2>2. /\ \A i \in DOMAIN file.frames : file.frames[i].idx = file.frames[1].idx + i - 1
        /\ ~orphan
    BY Zenon DEF LogInv, LogInOrder
  <2>3. \A i \in DOMAIN queue' : queue'[i].frame.idx = queue'[1].frame.idx + i - 1
    BY <1>6, <1>7, <1>8, <2>1
  <2>4. Written <= N + 1 /\ Written + Len(queue') = N + 1
    BY <1>4, <1>6, <1>7
  <2> QED BY Zenon, <1>1, <1>4, <1>7, <2>1, <2>2, <2>3, <2>4 DEF LogInOrder
<1>10. SequenceInOrder'
  <2>1. seq'.appended = m /\ seq'.written = seq.written /\ seq'.synced = seq.synced
    BY Zenon, <1>1, LogFacts DEF Seqs
  <2>2. seq.synced <= seq.written /\ seq.written <= m
    BY <1>4, LogFacts
  <2>3. seq'.written = SeqOf(Written)'
    <3>1. seq.written = SeqOf(Written) /\ Written \in 0 .. N
      BY <1>6, <1>7 DEF LogInv, SequenceInOrder
    <3>2. SeqOf(Written)' = SeqOf(Written)
      BY Zenon, <1>4, <1>7, <3>1 DEF SeqOf
    <3> QED BY Zenon, <2>1, <3>1, <3>2
  <2>4. ASSUME NEW i \in 1 .. q + 1
        PROVE  queue'[i].seq > 0 /\ queue'[i].seq = SeqOf(queue[i].frame.idx)'
    <3>1. CASE i \in 1 .. q
      <4>1. queue[i].seq > 0 /\ queue[i].seq = SeqOf(queue[i].frame.idx)
        <5>1. i \in DOMAIN queue
          BY <1>6, <3>1, LogFacts
        <5> QED BY Zenon, <5>1 DEF LogInv, SequenceInOrder
      <4>2. queue[i].frame.idx \in 1 .. N
        <5>1. q \in Nat /\ Written \in Nat /\ Written + q = N /\ queue[i].frame.idx = Written + i
          BY Zenon, <1>6, <1>7, <3>1
        <5> QED BY <3>1, <5>1
      <4>3. queue'[i] = queue[i]
        BY <1>6, <3>1
      <4>4. SeqOf(queue[i].frame.idx)' = SeqOf(queue[i].frame.idx)
        BY <1>4, <4>2, <4>3 DEF SeqOf
      <4> QED BY Zenon, <4>1, <4>3, <4>4
    <3>2. CASE i = q + 1
      <4>1. queue'[i].seq = m /\ queue'[i].frame.idx = N + 1
        BY <1>5, <1>6, <3>2
      <4>2. SeqOf(queue[i].frame.idx)' = m
        BY Zenon, <1>4, <4>1 DEF SeqOf
      <4> QED BY <1>4, <4>1, <4>2, LogFacts
    <3> QED BY <1>6, <3>1, <3>2
  <2> QED BY Zenon, <1>4, <1>6, <2>1, <2>2, <2>3, <2>4 DEF SequenceInOrder
<1>11. SyncedReached'
  <2>1. seq'.synced = seq.synced
    BY Zenon, <1>1, LogFacts DEF Seqs
  <2>2. floor <= Reach(file.frames, file.synced)
    BY Zenon DEF LogInv, SyncedReached
  <2>3. \A i \in DOMAIN commits' :
          commits'[i].seq \in 1 .. seq.synced => i <= Reach(file.frames, file.synced)
    <3>1. ASSUME NEW i \in DOMAIN commits', commits'[i].seq \in 1 .. seq.synced
          PROVE  i <= Reach(file.frames, file.synced)
      <4>1. i \in 1 .. N
        BY <1>4, <3>1
      <4>2. commits'[i].seq = commits[i].seq
        <5>1. SeqOf(i)' = SeqOf(i)
          BY <1>4, <4>1
        <5> QED BY <4>1, <5>1 DEF SeqOf
      <4> QED BY <3>1, <4>1, <4>2, LogFacts DEF LogInv, SyncedReached
    <3> QED BY Zenon, <3>1
  <2>4. always => \A i \in DOMAIN queue' : queue'[i].done # None
    <3>1. always => \A i \in 1 .. q : queue[i].done # None
      BY LogFacts DEF LogInv, SyncedReached, always
    <3>2. c # None
      BY AofAssumption
    <3> QED BY <1>5, <1>6, <3>1, <3>2
  <2>5. queue' # <<>>
    BY <1>6
  <2> QED BY Zenon, <1>1, <2>1, <2>2, <2>3, <2>4, <2>5 DEF SyncedReached, Reach, always
<1>12. \A d \in Clients : Busy(d)' = Busy(d) /\ client'[d].kind = client[d].kind /\ client'[d].keys = client[d].keys
  BY Zenon, <1>1, <1>2 DEF Busy
<1>13. WritesSound'
  <2>1. ASSUME NEW d \in Clients PROVE WriteSound(d)'
    <3>1. CASE d = c
      <4>1. /\ cl.kind \in WriteKinds /\ cl.kind \in Kinds /\ cl.keys # {}
            /\ cl.kind \in {"batch", "exec"} => cl.keys = Keys
        BY Zenon, <1>3 DEF LogInv, WritesSound, WriteSound
      <4>2. N + 1 \in 0 .. N + 1 /\ N + 1 > 0 /\ N + 1 \in 1 .. N + 1
        BY <1>4
      <4>3. always \in BOOLEAN
        BY Zenon DEF always
      <4> HIDE DEF N
      <4> QED BY ZenonT(40), <1>1, <1>2, <1>4, <3>1, <4>1, <4>2, <4>3 DEF WriteSound, Kinds
    <3>2. CASE d # c
      <4>1. /\ commits' \in Seq(Commits) /\ Len(commits) <= Len(commits')
            /\ Reach(file.frames, file.synced)' = Reach(file.frames, file.synced)
            /\ Reach(file.frames, file.synced) \in Nat
        <5>1. commits' \in Seq(Commits) /\ N \in Nat /\ Reach(file.frames, file.synced) \in Nat
          BY Zenon, LogFacts, FileFacts DEF TypeOK
        <5>2. Reach(file.frames, file.synced)' = Reach(file.frames, file.synced)
          BY Zenon, <1>1 DEF Reach
        <5>3. Len(commits) <= Len(commits')
          BY <1>4, <5>1
        <5> QED BY Zenon, <5>1, <5>2, <5>3
      <4>2. /\ client'[d] = client[d] /\ policy' = policy /\ failed' = failed
            /\ Reach(file.frames, file.synced) <= Reach(file.frames, file.synced)'
            /\ Reach(file.frames, file.synced)' \in Nat
        BY <1>1, <1>2, <3>2, <4>1
      <4> QED BY Zenon, <4>1, <4>2, StillSound
    <3> QED BY Zenon, <3>1, <3>2
  <2>2. ASSUME NEW i \in DOMAIN queue', queue'[i].done # None
        PROVE  client'[queue'[i].done].pc = "done" /\ client'[queue'[i].done].idx = queue'[i].frame.idx
    <3>1. CASE i \in 1 .. q
      <4>1. queue[i].done \in Clients /\ queue'[i] = queue[i] /\ i \in DOMAIN queue
        BY <1>6, <2>2, <3>1, LogFacts
      <4>2. client[queue[i].done].pc = "done" /\ client[queue[i].done].idx = queue[i].frame.idx
        BY Zenon, <2>2, <4>1 DEF LogInv, WritesSound
      <4>3. queue[i].done # c
        BY Zenon, <1>1, <4>2
      <4> QED BY Zenon, <1>2, <4>1, <4>2, <4>3
    <3>2. CASE i = q + 1
      <4>1. queue'[i].done = c /\ always /\ queue'[i].frame.idx = N + 1
        BY Zenon, <1>5, <1>6, <2>2, <3>2
      <4> QED BY <1>2, <4>1
    <3> QED BY <1>6, <3>1, <3>2
  <2>3. undone \subseteq DOMAIN commits'
    <3>1. undone \subseteq DOMAIN commits
      BY Zenon DEF LogInv, WritesSound
    <3> QED BY <1>4, <3>1, LogFacts
  <2> QED BY Zenon, <1>1, <2>1, <2>2, <2>3 DEF WritesSound
<1>14. /\ config = None /\ rewrite.phase \notin {"begin", "install"}
       /\ \A d \in Clients : client[d].pc # "drain" /\ ~(client[d].pc = "done" /\ RewriteActive)
       /\ enq' \notin {"config", "rewrite"}
  <2>1. None \notin Clients \cup {"config", "rewrite"} /\ c \notin {"config", "rewrite"}
    BY AofAssumption
  <2> QED BY Zenon, <1>1, <2>1 DEF LogInv, LocksHeld
<1>15. rewrite'.phase = rewrite.phase /\ rewrite'.idx = rewrite.idx /\ RewriteActive' = RewriteActive
  <2>1. rewrite \in Rewrites
    BY Zenon DEF LogInv, TypeOK
  <2> QED BY Zenon, <1>1, <2>1 DEF Buffered, Rewrites, RewriteActive
<1>16. LocksHeld'
  <2>1. \A d, e \in Clients : d # e /\ Busy(d)' /\ Busy(e)' =>
          /\ client'[d].kind = "fast" /\ client'[e].kind = "fast"
          /\ client'[d].keys \cap client'[e].keys = {}
    BY <1>12 DEF LogInv, LocksHeld
  <2>2. ASSUME NEW d \in Clients
        PROVE  /\ client'[d].pc = "drain" => enq' = d
               /\ client'[d].pc = "done" /\ RewriteActive => enq' = d
               /\ enq' = d => client'[d].pc = "done" /\ RewriteActive /\ client'[d].idx = Len(commits')
    <3>1. d # None
      BY Zenon, AofAssumption
    <3> QED BY Zenon, <1>1, <1>2, <1>4, <1>14, <3>1
  <2> QED BY ZenonT(40), <1>1, <1>14, <1>15, <2>1, <2>2 DEF LocksHeld
<1>17. RewriteInOrder'
  <2> SUFFICES ASSUME RewriteActive
               PROVE  /\ \A i \in DOMAIN rewrite'.buffer : rewrite'.buffer[i].idx = rewrite.idx + i
                      /\ rewrite.idx + Len(rewrite'.buffer) + Unbuffered' = N + 1
    BY Zenon, <1>4, <1>15 DEF RewriteInOrder
  <2> DEFINE B == rewrite.buffer
  <2>1. B \in Seq(Frames) /\ rewrite.idx \in Nat /\ rewrite \in Rewrites
    BY Zenon DEF LogInv, TypeOK, Rewrites
  <2>2. Unbuffered = 0
    <3>1. \A d \in Clients : enq # d
      BY Zenon, <1>1, AofAssumption
    <3> QED BY Zenon, <3>1 DEF Unbuffered
  <2>3. /\ \A i \in 1 .. Len(B) : B[i].idx = rewrite.idx + i
        /\ rewrite.idx + Len(B) = N /\ Len(B) \in Nat
    <3>1. Len(B) \in Nat /\ DOMAIN B = 1 .. Len(B)
      BY <2>1
    <3>2. /\ \A i \in DOMAIN B : B[i].idx = rewrite.idx + i
          /\ rewrite.idx + Len(B) + Unbuffered = N
      BY Zenon DEF LogInv, RewriteInOrder
    <3> QED BY <2>1, <2>2, <3>1, <3>2
  <2>4. CASE always
    <3>1. Unbuffered' = 1
      BY Zenon, <1>1, <1>2, <2>4 DEF Unbuffered
    <3>2. rewrite'.buffer = B /\ DOMAIN B = 1 .. Len(B)
      BY <1>1, <2>1, <2>4
    <3> QED BY Zenon, <2>1, <2>3, <3>1, <3>2
  <2>5. CASE ~always
    <3>1. Unbuffered' = 0
      <4>1. \A d \in Clients : enq' # d
        BY <1>1, <2>5, AofAssumption
      <4> QED BY Zenon, <4>1 DEF Unbuffered
    <3>2. rewrite'.buffer = Append(B, Frame(c))
      BY Zenon, <1>1, <2>1, <2>5 DEF Buffered, RewriteActive, Rewrites
    <3>3. Frame(c) \in Frames /\ Frame(c).idx = N + 1
      BY Zenon, Typed DEF LogInv, Frame
    <3>4. /\ Len(rewrite'.buffer) = Len(B) + 1 /\ DOMAIN rewrite'.buffer = 1 .. Len(B) + 1
          /\ \A i \in 1 .. Len(B) : rewrite'.buffer[i] = B[i]
          /\ rewrite'.buffer[Len(B) + 1] = Frame(c)
      BY <2>1, <3>2, <3>3, AppendProperties
    <3> HIDE DEF B
    <3>5. \A i \in 1 .. Len(B) : rewrite'.buffer[i].idx = rewrite.idx + i
      BY Zenon, <2>3, <3>4
    <3>6. rewrite'.buffer[Len(B) + 1].idx = rewrite.idx + (Len(B) + 1)
      BY <1>4, <2>1, <2>3, <3>3, <3>4
    <3>7. \A i \in 1 .. Len(B) + 1 : i \in 1 .. Len(B) \/ i = Len(B) + 1
      BY <2>3
    <3>8. rewrite.idx + Len(rewrite'.buffer) + 0 = N + 1
      BY <1>4, <2>1, <2>3, <3>4
    <3> QED BY Zenon, <3>1, <3>4, <3>5, <3>6, <3>7, <3>8
  <2> QED BY Zenon, <2>4, <2>5
<1> QED BY Zenon, <1>9, <1>10, <1>11, <1>13, <1>16, <1>17 DEF LogInv

\* A client's write under "no" ends: it alone changes, and enqueueMu is free.
LEMMA DirectEnds ==
    ASSUME LogInv, UNCHANGED <<conf, policy, config, undone, queue>>,
           NEW c \in Clients, client[c].pc = "drain", enq = c, enq' = None,
           client'[c].pc = "finish", ~client'[c].sync,
           client'[c].kind = client[c].kind, client'[c].keys = client[c].keys,
           \A d \in Clients \ {c} : client'[d] = client[d],
           client'[c].idx \in 0 .. Len(commits'), ~client'[c].err => client'[c].idx > 0,
           client'[c].err => failed', failed => failed',
           TypeOK', Len(commits') >= Len(commits),
           Reach(file.frames, file.synced)' = Reach(file.frames, file.synced),
           rewrite'.phase = rewrite.phase
    PROVE  WritesSound' /\ LocksHeld' /\ Unbuffered = 0 /\ Unbuffered' = 0
<1>1. /\ \A d \in Clients : Busy(d)' = Busy(d) /\ client'[d].kind = client[d].kind /\ client'[d].keys = client[d].keys
      /\ Busy(c)
  BY Zenon DEF Busy
<1>2. WritesSound'
  <2>0. Len(commits) \in Nat /\ Len(commits') \in Nat /\ commits' \in Seq(Commits)
    BY LogFacts DEF TypeOK
  <2>1. ASSUME NEW d \in Clients PROVE WriteSound(d)'
    <3>1. CASE d = c
      <4>1. /\ client[c].kind \in WriteKinds /\ client[c].kind \in Kinds /\ client[c].keys # {}
            /\ client[c].kind \in {"batch", "exec"} => client[c].keys = Keys
        BY Zenon, <1>1 DEF LogInv, WritesSound, WriteSound
      <4> QED BY Zenon, <3>1, <4>1 DEF WriteSound, Kinds
    <3>2. CASE d # c
      <4>1. Len(commits) <= Len(commits')
        BY Zenon, <2>0
      <4>2. /\ Reach(file.frames, file.synced) \in Nat
            /\ Reach(file.frames, file.synced) <= Reach(file.frames, file.synced)'
        BY LogFacts, FileFacts
      <4> QED BY Zenon, <2>0, <3>2, <4>1, <4>2, StillSound
    <3> QED BY Zenon, <3>1, <3>2
  <2>2. ASSUME NEW i \in DOMAIN queue, queue[i].done # None
        PROVE  client'[queue[i].done].pc = "done" /\ client'[queue[i].done].idx = queue[i].frame.idx
    <3>1. queue[i].done \in Clients
      BY <2>2, LogFacts
    <3>2. client[queue[i].done].pc = "done" /\ client[queue[i].done].idx = queue[i].frame.idx
      BY Zenon, <2>2 DEF LogInv, WritesSound
    <3> QED BY Zenon, <3>1, <3>2
  <2>3. undone \subseteq DOMAIN commits'
    <3>1. undone \subseteq DOMAIN commits
      BY Zenon DEF LogInv, WritesSound
    <3> QED BY <2>0, <3>1, LogFacts
  <2> QED BY ZenonT(40), <2>1, <2>2, <2>3 DEF WritesSound
<1>3. /\ config = None /\ rewrite.phase \notin {"begin", "install"}
      /\ \A d \in Clients \ {c} : client[d].pc # "drain" /\ ~(client[d].pc = "done" /\ RewriteActive)
  <2>1. c \notin {"config", "rewrite"}
    BY Zenon, AofAssumption
  <2> QED BY Zenon, <2>1 DEF LogInv, LocksHeld
<1>4. None \notin Clients \cup {"config", "rewrite"}
  BY AofAssumption
<1>5. LocksHeld'
  <2>1. ASSUME NEW d \in Clients, NEW e \in Clients, d # e, Busy(d)', Busy(e)'
        PROVE  /\ client'[d].kind = "fast" /\ client'[e].kind = "fast"
               /\ client'[d].keys \cap client'[e].keys = {}
    <3>1. Busy(d) /\ Busy(e)
      BY Zenon, <1>1, <2>1
    <3>2. client[d].kind = "fast" /\ client[e].kind = "fast" /\ client[d].keys \cap client[e].keys = {}
      BY Zenon, <2>1, <3>1 DEF LogInv, LocksHeld
    <3> QED BY Zenon, <1>1, <3>2
  <2>2. ASSUME NEW d \in Clients
        PROVE  client'[d].pc # "drain" /\ ~(client'[d].pc = "done" /\ RewriteActive') /\ enq' # d
    BY ZenonT(40), <1>3, <1>4 DEF RewriteActive
  <2> QED BY Zenon, <1>3, <1>4, <2>1, <2>2 DEF LocksHeld
<1>6. Unbuffered = 0 /\ Unbuffered' = 0
  BY Zenon, <1>4 DEF Unbuffered
<1> QED BY <1>2, <1>5, <1>6

\* An append under "no" (appendEncoded), whether it succeeds or fails.
LEMMA DirectLog ==
    ASSUME IndexFacts, LogInv, TypeOK', conf' = conf, NEW c \in Clients, AppendDirect(c)
    PROVE  LogInv'
<1> DEFINE cl == client[c]
           F == file.frames
           N == Len(commits)
           m == seq.appended + Weight(c)
<1>1. /\ UNCHANGED <<conf, policy, queue, orphan, config, floor, undone>>
      /\ cl.pc = "drain" /\ enq = c /\ enq' = None /\ Drained
  BY Zenon DEF AppendDirect
<1>2. /\ client \in [Clients -> WriteStates] /\ cl \in WriteStates /\ N \in Nat /\ DOMAIN commits = 1 .. N
      /\ cl.idx = 0 /\ ~cl.err /\ ~cl.sync /\ policy = "no" /\ Busy(c)
      /\ F \in Seq(Frames) /\ Len(F) \in Nat /\ file.synced \in 0 .. Len(F) /\ file \in Files
  <2>1. file.synced \in Nat /\ file.synced <= Len(F)
    BY FileFacts DEF LogInv
  <2>2. /\ client \in [Clients -> WriteStates] /\ N \in Nat /\ F \in Seq(Frames) /\ Len(F) \in Nat
        /\ commits \in Seq(Commits)
    BY Zenon, LogFacts, FileFacts
  <2>3. cl.idx = 0 /\ ~cl.err /\ ~cl.sync /\ policy = "no"
    BY Zenon, <1>1 DEF LogInv, WritesSound, WriteSound
  <2>4. file \in Files /\ Busy(c)
    BY Zenon, <1>1 DEF LogInv, TypeOK, Busy
  <2>5. file.synced \in 0 .. Len(F)
    BY <2>1, <2>2
  <2>6. DOMAIN commits = 1 .. N
    BY <2>2
  <2> QED BY Zenon, <2>2, <2>3, <2>4, <2>5, <2>6
<1>3. CASE /\ client' = [client EXCEPT ![c].pc = "finish", ![c].err = TRUE]
           /\ failed' = TRUE
           /\ UNCHANGED <<seq, file, rewrite, commits>>
  <2>1. /\ client'[c].pc = "finish" /\ ~client'[c].sync /\ client'[c].err /\ client'[c].idx = 0
        /\ client'[c].kind = cl.kind /\ client'[c].keys = cl.keys
        /\ \A d \in Clients \ {c} : client'[d] = client[d]
    BY Zenon, <1>2, <1>3 DEF WriteStates
  <2>2. 0 \in 0 .. Len(commits')
    BY <1>2, <1>3
  <2>3. Reach(file.frames, file.synced)' = Reach(file.frames, file.synced)
    BY Zenon, <1>3 DEF Reach
  <2>4. Len(commits') \in Nat /\ Len(commits') >= Len(commits) /\ DOMAIN commits' = 1 .. Len(commits')
        /\ rewrite'.phase = rewrite.phase
    BY <1>2, <1>3
  <2>5. WritesSound' /\ LocksHeld'
    BY ZenonT(40), <1>1, <1>3, <2>1, <2>2, <2>3, <2>4, DirectEnds
  <2>6. LogInOrder' /\ RewriteInOrder'
    BY Zenon, <1>1, <1>3 DEF LogInv, LogInOrder, Written, Reach, RewriteInOrder
  <2>7. SequenceInOrder'
    BY Zenon, <1>1, <1>3 DEF LogInv, SequenceInOrder, SeqOf
  <2>8. SyncedReached'
    BY Zenon, <1>1, <1>2, <1>3, <2>3 DEF LogInv, SyncedReached
  <2> QED BY Zenon, <2>5, <2>6, <2>7, <2>8 DEF LogInv
<1>4. ASSUME NEW ok \in BOOLEAN, NEW fl, ~failed, failed' = ~ok,
             file' = [file EXCEPT !.frames = Append(F, Frame(c)), !.flushed = fl],
             seq' = [seq EXCEPT !.appended = m, !.written = m],
             Committed(c),
             rewrite' = IF ok THEN Buffered(rewrite, Frame(c)) ELSE rewrite,
             client' = [client EXCEPT ![c].pc = "finish", ![c].err = ~ok, ![c].idx = N + 1]
      PROVE  LogInv'
  <2>1. /\ Len(commits') = N + 1 /\ DOMAIN commits' = 1 .. N + 1
        /\ m \in Nat /\ m > seq.appended
        /\ \A i, j \in DOMAIN commits' : i < j =>
              /\ commits'[i].seq <= commits'[j].seq
              /\ commits'[j].seq > 0 => commits'[i].seq < commits'[j].seq
        /\ \A n \in 0 .. N : SeqOf(n)' = SeqOf(n)
        /\ SeqOf(Len(commits))' = m
        /\ \A i \in DOMAIN commits' : commits'[i].seq \in 1 .. seq.synced => i \in 1 .. N
    BY Zenon, <1>2, <1>4, AppendCommit
  <2>2. queue = <<>> /\ Written = N
    BY <1>1, <1>4, QueueEmpty
  <2>3. Frame(c) \in Frames /\ Frame(c).idx = N + 1
    BY Zenon, Typed DEF LogInv, Frame
  <2>4. file'.frames = Append(F, Frame(c)) /\ file'.synced = file.synced
    BY Zenon, <1>2, <1>4 DEF Files
  <2>5. /\ Append(F, Frame(c)) \in Seq(Frames) /\ Len(Append(F, Frame(c))) = Len(F) + 1
        /\ \A i \in 1 .. Len(F) : Append(F, Frame(c))[i] = F[i]
        /\ Append(F, Frame(c))[Len(F) + 1] = Frame(c)
    BY <1>2, <2>3, AppendProperties
  <2>6. Continues(F, 1, Append(F, Frame(c)))
    <3>1. \A i \in DOMAIN F : F[i].idx = F[1].idx + i - 1
      BY Zenon DEF LogInv, LogInOrder
    <3>2. Append(F, Frame(c))[Len(F) + 1].idx = Reach(F, Len(F)) + 1
      BY Zenon, <2>2, <2>3, <2>5 DEF Written
    <3> QED BY <2>5, <3>1, <3>2 DEF Continues
  <2>7. /\ \A i \in DOMAIN file'.frames : file'.frames[i].idx = file'.frames[1].idx + i - 1
        /\ \A n \in 0 .. Len(F) : Reach(file'.frames, n) = Reach(F, n)
        /\ Written' = N + 1
    <3> DEFINE H == Append(F, Frame(c))
    <3>1. Written' = Reach(H, Len(H)) /\ Reach(F, Len(F)) = N
      BY Zenon, <2>2, <2>4 DEF Written
    <3> HIDE DEF H
    <3>2. /\ \A i \in DOMAIN H : H[i].idx = H[1].idx + i - 1
          /\ \A n \in 0 .. Len(F) : Reach(H, n) = Reach(F, n)
          /\ Reach(H, Len(H)) = Reach(F, Len(F)) + 1
      BY ZenonT(40), <1>2, <2>5, <2>6, Extended DEF H
    <3> QED BY Zenon, <2>4, <3>1, <3>2 DEF H
  <2>8. Reach(file.frames, file.synced)' = Reach(file.frames, file.synced)
    BY <1>2, <2>4, <2>7
  <2>9. LogInOrder'
    <3>1. ~orphan /\ DOMAIN queue' = {} /\ Len(queue') = 0 /\ queue' = <<>>
      BY <1>1, <2>2 DEF LogInv, LogInOrder
    <3>2. N + 1 <= N + 1 /\ N + 1 + 0 = N + 1
      BY <1>2
    <3> QED BY Zenon, <1>1, <2>1, <2>7, <3>1, <3>2 DEF LogInOrder
  <2>10. SequenceInOrder'
    <3>1. seq'.appended = m /\ seq'.written = m /\ seq'.synced = seq.synced /\ DOMAIN queue' = {}
      BY <1>1, <1>4, <2>2, LogFacts DEF Seqs
    <3>2. seq.synced <= m /\ m <= m
      BY <2>1, LogFacts
    <3>3. SeqOf(Written)' = m
      BY Zenon, <2>1, <2>7 DEF SeqOf
    <3> QED BY Zenon, <2>1, <3>1, <3>2, <3>3 DEF SequenceInOrder
  <2>11. SyncedReached'
    <3>1. seq'.synced = seq.synced
      BY ZenonT(40), <1>4, LogFacts DEF Seqs
    <3>2. ASSUME NEW i \in DOMAIN commits', commits'[i].seq \in 1 .. seq.synced
          PROVE  i <= Reach(file.frames, file.synced)
      <4>1. i \in 1 .. N
        BY Zenon, <2>1, <3>2
      <4>2. SeqOf(i)' = SeqOf(i)
        BY <1>2, <2>1, <4>1
      <4>3. commits'[i].seq = commits[i].seq
        BY <4>1, <4>2 DEF SeqOf
      <4> QED BY Zenon, <1>2, <3>2, <4>1, <4>3 DEF LogInv, SyncedReached
    <3>3. floor <= Reach(file.frames, file.synced)
      BY Zenon DEF LogInv, SyncedReached
    <3> QED BY Zenon, <1>1, <1>2, <2>8, <3>1, <3>2, <3>3 DEF SyncedReached
  <2>12. /\ client'[c].pc = "finish" /\ ~client'[c].sync /\ client'[c].err = ~ok /\ client'[c].idx = N + 1
         /\ client'[c].kind = cl.kind /\ client'[c].keys = cl.keys
         /\ \A d \in Clients \ {c} : client'[d] = client[d]
    <3> DEFINE bad == ~ok
    <3>1. client' = [client EXCEPT ![c].pc = "finish", ![c].err = bad, ![c].idx = N + 1]
      BY <1>4
    <3> HIDE DEF bad
    <3>2. /\ client'[c].pc = "finish" /\ ~client'[c].sync /\ client'[c].err = bad /\ client'[c].idx = N + 1
          /\ client'[c].kind = cl.kind /\ client'[c].keys = cl.keys
          /\ \A d \in Clients \ {c} : client'[d] = client[d]
      BY Zenon, <1>2, <3>1 DEF WriteStates
    <3> QED BY Zenon, <3>2 DEF bad
  <2>13. rewrite'.phase = rewrite.phase /\ rewrite'.idx = rewrite.idx
    <3>1. rewrite \in Rewrites
      BY Zenon DEF LogInv, TypeOK
    <3> QED BY Zenon, <1>4, <3>1 DEF Buffered, Rewrites
  <2>14. WritesSound' /\ LocksHeld' /\ Unbuffered = 0 /\ Unbuffered' = 0
    <3>1. N + 1 \in Nat /\ N + 1 \in 0 .. N + 1 /\ N + 1 > 0 /\ N + 1 >= N
      BY <1>2
    <3>2. client'[c].err => failed'
      BY Zenon, <1>4, <2>12
    <3> QED BY ZenonT(40), <1>1, <1>4, <2>1, <2>8, <2>12, <2>13, <3>1, <3>2, DirectEnds
  <2>15. RewriteInOrder'
    <3> SUFFICES ASSUME RewriteActive, ok
                 PROVE  /\ \A i \in DOMAIN rewrite'.buffer : rewrite'.buffer[i].idx = rewrite'.idx + i
                        /\ rewrite'.idx + Len(rewrite'.buffer) + Unbuffered' = N + 1
      BY Zenon, <1>4, <2>1, <2>13 DEF RewriteInOrder, RewriteActive
    <3>1. /\ \A i \in DOMAIN rewrite.buffer : rewrite.buffer[i].idx = rewrite.idx + i
          /\ rewrite.idx + Len(rewrite.buffer) + 0 = N
      BY ZenonT(40), <1>4, <2>14 DEF LogInv, RewriteInOrder
    <3>2. rewrite \in Rewrites /\ rewrite.idx \in Nat /\ Len(rewrite.buffer) \in Nat
      BY DEF LogInv, TypeOK, Rewrites
    <3>3. N + 1 = rewrite.idx + Len(rewrite.buffer) + 1
      BY <3>1, <3>2
    <3>4. /\ Len(rewrite'.buffer) = Len(rewrite.buffer) + 1
          /\ \A i \in DOMAIN rewrite'.buffer : rewrite'.buffer[i].idx = rewrite.idx + i
      BY <1>4, <2>3, <3>1, <3>2, <3>3, BufferGrows DEF RewriteActive
    <3> QED BY <2>13, <2>14, <3>2, <3>3, <3>4
  <2> QED BY Zenon, <2>9, <2>10, <2>11, <2>14, <2>15 DEF LogInv
<1>5. failed \in BOOLEAN
  BY Zenon DEF LogInv, TypeOK
<1>6. \/ /\ client' = [client EXCEPT ![c].pc = "finish", ![c].err = TRUE]
         /\ failed' = TRUE
         /\ UNCHANGED <<seq, file, rewrite, commits>>
      \/ \E ok \in BOOLEAN, fl \in file.flushed .. Len(F) + 1 :
          /\ ~failed /\ failed' = ~ok
          /\ file' = [file EXCEPT !.frames = Append(F, Frame(c)), !.flushed = fl]
          /\ seq' = [seq EXCEPT !.appended = m, !.written = m]
          /\ Committed(c)
          /\ rewrite' = IF ok THEN Buffered(rewrite, Frame(c)) ELSE rewrite
          /\ client' = [client EXCEPT ![c].pc = "finish", ![c].err = ~ok, ![c].idx = N + 1]
  BY Zenon, <1>5 DEF AppendDirect
<1> QED BY Zenon, <1>3, <1>4, <1>6
=============================================================================
