-------------------------- MODULE AofMemoryProofs ---------------------------
(***************************************************************************)
(* Every step of a write keeps what the frames, the commits and memory     *)
(* hold: the other half of the inductive invariant.                        *)
(***************************************************************************)
EXTENDS AofFacts, AofWrites

\* An append gives the write its commit.
LEMMA NewCommit ==
    ASSUME IndexFacts, LogInv, ContentInv, UNCHANGED <<mem, undone>>, failed => failed',
           NEW c \in Clients, client[c].pc \in {"append", "drain"}, Committed(c),
           client'[c].idx = Len(commits) + 1, Busy(c)',
           client'[c].keys = client[c].keys, client'[c].kind = client[c].kind,
           client'[c].w = client[c].w,
           client'[c].left = client[c].left, client'[c].before = client[c].before,
           \A d \in Clients \ {c} : client'[d] = client[d]
    PROVE  /\ CommitsOwned' /\ MemoryExplained' /\ Kept
           /\ commits'[Len(commits) + 1].recs = Records(c)
           /\ Len(commits') = Len(commits) + 1 /\ DOMAIN commits' = 1 .. Len(commits) + 1
<1> DEFINE N == Len(commits)
<1>1. /\ Busy(c) /\ client[c].idx = 0 /\ client[c].keys # {} /\ client[c].left = {}
      /\ undone \subseteq 1 .. N
  <2>1. Busy(c) /\ client[c].pc # "apply"
    BY Zenon DEF Busy
  <2>2. undone \subseteq DOMAIN commits /\ client[c].idx = 0 /\ client[c].keys # {}
    BY Zenon, <2>1 DEF LogInv, WritesSound, WriteSound
  <2>3. client[c].left = {}
    BY Zenon, <2>1 DEF ContentInv, MemoryExplained
  <2> QED BY <2>1, <2>2, <2>3, LogFacts
<1>2. /\ Len(commits') = N + 1 /\ DOMAIN commits' = 1 .. N + 1 /\ N \in Nat
      /\ commits'[N + 1].recs = Records(c) /\ \A i \in 1 .. N : commits'[i] = commits[i]
  BY <1>1, AppendCommit
<1>3. Kept
  BY <1>2 DEF Kept
<1>4. /\ \A d \in Clients : /\ Busy(d)' = Busy(d) /\ client'[d].keys = client[d].keys
                            /\ client'[d].kind = client[d].kind /\ client'[d].w = client[d].w
                            /\ client'[d].left = client[d].left /\ client'[d].before = client[d].before
                            /\ Records(d)' = Records(d)
  BY Zenon, <1>1 DEF Busy, Records
<1>5. \A k \in Keys : k \notin client[c].keys => commits'[N + 1].recs[k] = None
  BY Zenon, <1>2 DEF Records
<1>6. ASSUME NEW d \in Clients \ {c}
      PROVE  /\ client'[d].idx = client[d].idx /\ client[d].idx \in 0 .. N
             /\ Busy(d) => \A k \in client[d].keys : k \in Keys /\ k \notin client[c].keys
             /\ client[d].idx > 0 => Busy(d)
  <2>1. client[d] \in WriteStates
    BY Zenon, Typed DEF LogInv
  <2>2. client[d].pc \in {"idle", "apply", "append", "drain", "done", "finish"} /\ client[d].keys \subseteq Keys
    BY Zenon, <2>1 DEF WriteStates
  <2>3. client[d].idx \in 0 .. N
    <3>1. CASE client[d].pc \in {"idle", "apply", "append", "drain"}
      BY <1>2, <3>1 DEF LogInv, WritesSound, WriteSound
    <3>2. CASE client[d].pc = "done"
      <4>1. client[d].idx \in DOMAIN commits /\ DOMAIN commits = 1 .. N
        BY <3>2, LogFacts DEF LogInv, WritesSound, WriteSound
      <4> QED BY <1>2, <4>1
    <3>3. CASE client[d].pc = "finish"
      BY Zenon, <3>3 DEF LogInv, WritesSound, WriteSound
    <3> QED BY Zenon, <2>2, <3>1, <3>2, <3>3
  <2>4. client[d].idx > 0 => Busy(d)
    BY DEF LogInv, WritesSound, WriteSound, Busy
  <2>5. Busy(d) => client[c].keys \cap client[d].keys = {}
    BY Zenon, <1>1 DEF LogInv, LocksHeld
  <2> QED BY Zenon, <2>2, <2>3, <2>4, <2>5
<1>7. CommitsOwned'
  <2>1. undone' # {} => failed'
    BY Zenon DEF ContentInv, CommitsOwned
  <2>2. ASSUME NEW d \in Clients, client'[d].idx > 0
        PROVE  /\ commits'[client'[d].idx].recs = Records(d)'
               /\ client'[d].idx \notin undone
               /\ \A j \in client'[d].idx + 1 .. Len(commits') :
                     \A k \in client'[d].keys : commits'[j].recs[k] = None
    <3>1. CASE d = c
      BY <1>1, <1>2, <1>4, <3>1
    <3>2. CASE d # c
      <4>1. client'[d].idx = client[d].idx /\ client[d].idx \in 1 .. N
        BY <1>2, <1>6, <2>2, <3>2
      <4>2. /\ commits[client[d].idx].recs = Records(d) /\ client[d].idx \notin undone
            /\ \A j \in client[d].idx + 1 .. N : \A k \in client[d].keys : commits[j].recs[k] = None
        BY <1>2, <4>1 DEF ContentInv, CommitsOwned
      <4>3. \A k \in client[d].keys : commits'[N + 1].recs[k] = None
        BY Zenon, <1>5, <1>6, <2>2, <3>2, <4>1
      <4>4. ASSUME NEW j \in client[d].idx + 1 .. N + 1, NEW k \in client[d].keys
            PROVE  commits'[j].recs[k] = None
        <5>1. CASE j = N + 1
          BY <4>3, <5>1
        <5>2. CASE j # N + 1
          <6>1. j \in client[d].idx + 1 .. N /\ j \in 1 .. N
            BY <1>2, <4>1, <5>2
          <6> QED BY <1>2, <4>2, <6>1
        <5> QED BY <5>1, <5>2
      <4> QED BY <1>2, <1>4, <4>1, <4>2, <4>4
    <3> QED BY Zenon, <3>1, <3>2
  <2> QED BY Zenon, <2>1, <2>2 DEF CommitsOwned
<1>8. ASSUME NEW k \in Keys, NEW lost, NEW gone,
             \A i \in 1 .. N : i \in lost <=> i \in gone,
             k \notin client[c].keys \/ N + 1 \in gone
      PROVE  Value(commits, N, lost, k) = Value(commits', N + 1, gone, k)
  <2>1. N + 1 \in N .. N + 1
    BY <1>2
  <2>2. \A i \in 1 .. N : commits[i].recs[k] = commits'[i].recs[k]
    BY <1>2
  <2>3. N + 1 \in gone \/ commits'[N + 1].recs[k] = None
    BY <1>5, <1>8
  <2> QED BY <1>2, <1>8, <2>1, <2>2, <2>3, ValuePrefix
<1>9. MemoryExplained'
  <2>1. ASSUME NEW k \in Keys, \A d \in Clients : Busy(d)' => k \notin client'[d].keys
        PROVE  mem[k] = Value(commits', N + 1, undone, k)
    <3>1. mem[k] = Value(commits, N, undone, k)
      BY <1>4, <2>1 DEF ContentInv, MemoryExplained
    <3>2. k \notin client[c].keys
      BY Zenon, <1>1, <1>4, <2>1
    <3>3. Value(commits, N, undone, k) = Value(commits', N + 1, undone, k)
      BY Zenon, <1>8, <3>2
    <3> QED BY Zenon, <3>1, <3>3
  <2>2. ASSUME NEW d \in Clients, Busy(d)'
        PROVE  /\ client'[d].left # {} => client'[d].pc = "apply" /\ client'[d].kind \in {"batch", "exec"}
               /\ \A k \in client'[d].keys :
                    Explained(mem', client'[d], k,
                              Value(commits', Len(commits'), undone' \cup {client'[d].idx}, k))
    <3>1. client'[d].left # {} => client'[d].pc = "apply" /\ client'[d].kind \in {"batch", "exec"}
      <4>1. client[d].left # {} => client[d].pc = "apply" /\ client[d].kind \in {"batch", "exec"}
        BY Zenon, <1>4, <2>2 DEF ContentInv, MemoryExplained
      <4> QED BY <1>1, <1>4, <4>1
    <3>2. ASSUME NEW k \in client'[d].keys
          PROVE  Explained(mem', client'[d], k,
                           Value(commits', Len(commits'), undone' \cup {client'[d].idx}, k))
      <4>1. k \in Keys /\ k \in client[d].keys
        BY Zenon, <1>4, Typed DEF LogInv, WriteStates
      <4>2. Value(commits, N, undone \cup {client[d].idx}, k)
              = Value(commits', N + 1, undone \cup {client'[d].idx}, k)
        <5>1. CASE d = c
          <6>1. \A i \in 1 .. N : i \in undone \cup {0} <=> i \in undone \cup {N + 1}
            BY <1>2
          <6>2. /\ client[d].idx = 0 /\ client'[d].idx = N + 1 /\ k \in Keys
                /\ N + 1 \in undone \cup {N + 1}
            BY Zenon, <1>1, <4>1, <5>1
          <6>3. Value(commits, N, undone \cup {0}, k) = Value(commits', N + 1, undone \cup {N + 1}, k)
            BY Zenon, <1>8, <6>1, <6>2
          <6> QED BY Zenon, <6>2, <6>3
        <5>2. CASE d # c
          <6>1. client'[d].idx = client[d].idx /\ k \notin client[c].keys
            BY Zenon, <1>4, <1>6, <2>2, <4>1, <5>2
          <6> QED BY ZenonT(40), <1>8, <4>1, <6>1
        <5> QED BY <5>1, <5>2
      <4>3. Explained(mem, client[d], k, Value(commits, N, undone \cup {client[d].idx}, k))
        BY Zenon, <1>4, <2>2, <4>1 DEF ContentInv, MemoryExplained
      <4> DEFINE was == Value(commits', N + 1, undone \cup {client'[d].idx}, k)
      <4>4. Explained(mem, client'[d], k, was)
        BY Zenon, <1>4, <4>2, <4>3 DEF Explained
      <4>5. was = Value(commits', Len(commits'), undone' \cup {client'[d].idx}, k)
        BY <1>2
      <4> HIDE DEF was
      <4> QED BY Zenon, <4>4, <4>5
    <3> QED BY Zenon, <3>1, <3>2
  <2>3. mem' = mem /\ undone' = undone /\ Len(commits') = N + 1
    BY <1>2
  <2>4. \A k \in Keys : (\A d \in Clients : Busy(d)' => k \notin client'[d].keys) =>
          mem'[k] = Value(commits', Len(commits'), undone', k)
    BY <2>1, <2>3
  <2> QED BY Zenon, <2>2, <2>4 DEF MemoryExplained
<1> QED BY Zenon, <1>2, <1>3, <1>7, <1>9

\* A commit the synced part of the file reaches left its keys there.
LEMMA TouchedBy ==
    ASSUME LogInv, FileHolds, NEW m \in 1 .. Len(commits), m <= Reach(file.frames, file.synced),
           NEW k \in Keys, commits[m].recs[k] # None
    PROVE  Touched(k)
<1> DEFINE F == file.frames
           i == m - F[1].idx + 1
<1>1. /\ F \in Seq(Frames) /\ Len(F) \in Nat /\ file.synced \in Nat /\ file.synced <= Len(F)
      /\ Len(commits) \in Nat
  <2>1. /\ F \in Seq(Frames) /\ Len(F) \in Nat /\ file.synced \in Nat /\ file.flushed \in Nat
        /\ file.synced <= file.flushed /\ file.flushed <= Len(F) /\ Len(commits) \in Nat
    BY Zenon, LogFacts, FileFacts
  <2> QED BY <2>1
<1>2. file.synced > 0 /\ file.synced \in 1 .. Len(F) /\ 1 \in DOMAIN F
  BY <1>1 DEF Reach
<1>3. m <= F[1].idx + file.synced - 1 /\ F[1].idx \in Nat
  <2>1. F[1] \in Frames
    BY <1>1, <1>2
  <2> QED BY <1>1, <1>2, <2>1 DEF Reach, Frames
<1>4. \A f \in Images : f[k] # None
  BY AofAssumption DEF Images
<1>5. CASE F[1].recs \in Images
  <2>1. 1 \in 1 .. file.synced /\ F[1].recs[k] # None
    BY <1>2, <1>4, <1>5
  <2> QED BY Zenon, <2>1 DEF Touched
<1>6. CASE F[1].recs \notin Images
  <2>1. F[1].idx = 1
    BY Zenon, <1>2, <1>6 DEF FileHolds
  <2>2. m \in 1 .. file.synced /\ m \in DOMAIN F
    BY <1>1, <1>2, <1>3, <2>1
  <2>3. F[m].idx = m
    <3>1. F[m].idx = F[1].idx + m - 1
      BY Zenon, <2>2 DEF LogInv, LogInOrder
    <3>2. m \in Nat /\ 1 + m - 1 = m
      BY <2>2
    <3> QED BY Zenon, <2>1, <3>1, <3>2
  <2>4. F[m].recs = commits[m].recs
    <3>1. CASE m = 1
      BY Zenon, <1>6, <2>2, <2>3, <3>1 DEF FileHolds
    <3>2. CASE m # 1
      BY Zenon, <2>2, <2>3, <3>2 DEF FileHolds
    <3> QED BY <3>1, <3>2
  <2> QED BY Zenon, <2>2, <2>4 DEF Touched
<1> QED BY <1>5, <1>6

\* No commit has the number 0.
LEMMA ValueZero ==
    ASSUME IndexFacts, LogInv, NEW lost, NEW k
    PROVE  Value(commits, Len(commits), lost \cup {0}, k) = Value(commits, Len(commits), lost, k)
<1> DEFINE N == Len(commits)
<1>1. N \in Nat
  BY Zenon, LogFacts
<1>2. \A i \in 1 .. N : i \in lost \cup {0} <=> i \in lost
  BY <1>1
<1> HIDE DEF N
<1>3. Value(commits, N, lost \cup {0}, k) = Value(commits, N, lost, k)
  BY <1>1, <1>2, ValueUndone
<1> QED BY Zenon, <1>3 DEF N

\* A step of one write that leaves the log alone.
LEMMA OneMoves ==
    ASSUME IndexFacts, LogInv, LogInv', MemoryExplained, commits' = commits, undone \subseteq undone',
           NEW c \in Clients, NEW cl, client' = [client EXCEPT ![c] = cl],
           \A k \in Keys : (Busy(c) => k \notin client[c].keys) /\ (cl.pc # "idle" => k \notin cl.keys) =>
              /\ mem'[k] = mem[k]
              /\ \A i \in undone' \ undone : commits[i].recs[k] = None,
           cl.pc # "idle" =>
              /\ cl.left # {} => cl.pc = "apply" /\ cl.kind \in {"batch", "exec"}
              /\ \A k \in cl.keys :
                    Explained(mem', cl, k, Value(commits, Len(commits), undone' \cup {cl.idx}, k)),
           \A k \in Keys : Busy(c) /\ k \in client[c].keys /\ (cl.pc # "idle" => k \notin cl.keys) =>
              mem'[k] = Value(commits, Len(commits), undone', k)
    PROVE  MemoryExplained'
<1> DEFINE N == Len(commits)
<1>1. /\ N \in Nat /\ N \in N .. N + 1 /\ N # N + 1
      /\ client \in [Clients -> WriteStates] /\ undone \subseteq 1 .. N
  <2>1. undone \subseteq DOMAIN commits
    BY Zenon DEF LogInv, WritesSound, WriteSound
  <2> QED BY <2>1, LogFacts
<1>2. /\ client'[c] = cl /\ Busy(c)' = (cl.pc # "idle")
      /\ \A d \in Clients \ {c} : client'[d] = client[d] /\ Busy(d)' = Busy(d)
  BY Zenon, <1>1 DEF Busy
<1>3. ASSUME NEW k \in Keys, NEW extra,
             (Busy(c) => k \notin client[c].keys) /\ (cl.pc # "idle" => k \notin cl.keys)
      PROVE  Value(commits, N, undone \cup extra, k) = Value(commits, N, undone' \cup extra, k)
  <2>1. \A i \in undone' \ undone : commits[i].recs[k] = None
    BY Zenon, <1>3
  <2>2. \A i \in 1 .. N : (i \in undone \cup extra <=> i \in undone' \cup extra) \/ commits[i].recs[k] = None
    BY <2>1
  <2>3. N \in Nat
    BY Zenon, <1>1
  <2> HIDE DEF N
  <2> QED BY <2>2, <2>3, ValueUndone
<1>4. ASSUME NEW k \in Keys, \A d \in Clients : Busy(d)' => k \notin client'[d].keys
      PROVE  mem'[k] = Value(commits', Len(commits'), undone', k)
  <2>1. cl.pc # "idle" => k \notin cl.keys
    BY Zenon, <1>2, <1>4
  <2>2. CASE Busy(c) /\ k \in client[c].keys
    BY <2>1, <2>2
  <2>3. CASE Busy(c) => k \notin client[c].keys
    <3>1. mem'[k] = mem[k]
      BY Zenon, <2>1, <2>3
    <3>2. mem[k] = Value(commits, N, undone, k)
      BY Zenon, <1>2, <1>4, <2>3 DEF MemoryExplained
    <3>3. Value(commits, N, undone \cup {}, k) = Value(commits, N, undone' \cup {}, k)
      BY Zenon, <1>3, <2>1, <2>3
    <3>4. undone \cup {} = undone /\ undone' \cup {} = undone'
      OBVIOUS
    <3> HIDE DEF N
    <3>5. mem'[k] = Value(commits, N, undone', k)
      BY Zenon, <3>1, <3>2, <3>3, <3>4
    <3> QED BY Zenon, <3>5 DEF N
  <2> QED BY <2>2, <2>3
<1>5. ASSUME NEW d \in Clients, Busy(d)'
      PROVE  /\ client'[d].left # {} => client'[d].pc = "apply" /\ client'[d].kind \in {"batch", "exec"}
             /\ \A k \in client'[d].keys :
                  Explained(mem', client'[d], k,
                            Value(commits', Len(commits'), undone' \cup {client'[d].idx}, k))
  <2>1. CASE d = c
    BY Zenon, <1>2, <1>5, <2>1
  <2>2. CASE d # c
    <3>1. client'[d] = client[d] /\ Busy(d) /\ client[d].keys \subseteq Keys
      BY Zenon, <1>1, <1>2, <1>5, <2>2 DEF WriteStates
    <3>2. /\ client[d].left # {} => client[d].pc = "apply" /\ client[d].kind \in {"batch", "exec"}
          /\ \A k \in client[d].keys :
               Explained(mem, client[d], k, Value(commits, N, undone \cup {client[d].idx}, k))
      BY Zenon, <3>1 DEF MemoryExplained
    <3>3. ASSUME NEW k \in client[d].keys
          PROVE  Explained(mem', client[d], k, Value(commits, N, undone' \cup {client[d].idx}, k))
      <4>1. Busy(c) => k \notin client[c].keys
        BY Zenon, <2>2, <3>1 DEF LogInv, LocksHeld
      <4>2. cl.pc # "idle" => k \notin cl.keys
        <5>1. LocksHeld'
          BY Zenon DEF LogInv
        <5>2. cl.pc # "idle" => client'[c].keys \cap client'[d].keys = {}
          BY Zenon, <1>2, <1>5, <2>2, <5>1 DEF LocksHeld
        <5> QED BY Zenon, <1>2, <3>1, <5>2
      <4>3. mem'[k] = mem[k]
        BY <3>1, <4>1, <4>2
      <4> DEFINE was == Value(commits, N, undone \cup {client[d].idx}, k)
      <4>4. was = Value(commits, N, undone' \cup {client[d].idx}, k)
        BY Zenon, <1>3, <3>1, <4>1, <4>2
      <4>5. Explained(mem, client[d], k, was)
        BY Zenon, <3>2
      <4> HIDE DEF was
      <4>6. Explained(mem', client[d], k, was)
        BY Zenon, <4>3, <4>5 DEF Explained
      <4> QED BY <4>4, <4>6
    <3> QED BY Zenon, <3>1, <3>2, <3>3
  <2> QED BY Zenon, <2>1, <2>2
<1> QED BY Zenon, <1>4, <1>5 DEF MemoryExplained

\* A step that leaves file, queue and jobs alone leaves what they hold.
LEMMA LogUntouched ==
    ASSUME ContentInv, UNCHANGED <<failed, queue, file, rewrite, save, commits>>
    PROVE  FileHolds' /\ QueueHolds' /\ RewriteHolds' /\ JobsExclusive'
<1>1. FileHolds'
  BY Zenon DEF ContentInv, FileHolds
<1>2. QueueHolds'
  BY Zenon DEF ContentInv, QueueHolds
<1>3. RewriteHolds'
  BY Zenon DEF ContentInv, RewriteHolds, RewriteActive
<1>4. JobsExclusive'
  BY Zenon DEF ContentInv, JobsExclusive, Running
<1> QED BY Zenon, <1>1, <1>2, <1>3, <1>4

\* A write that starts changes neither memory nor the log.
LEMMA StartContent ==
    ASSUME IndexFacts, SnapshotsFollow, IInv, LogInv', conf' = conf, NEW c \in Clients,
           NEW kind \in WriteKinds, NEW ks \in SUBSET Keys, ks # {},
           \/ kind = "fast" /\ \E k \in Keys : ks = {k} /\ StartFast(c, k)
           \/ kind # "fast" /\ StartLocked(c, kind, ks)
    PROVE  ContentInv'
<1> DEFINE N == Len(commits)
           cl == client'[c]
<1>1. /\ LogInv /\ ContentInv /\ TypeOK /\ N \in Nat
      /\ client \in [Clients -> WriteStates]
  BY Zenon, LogFacts DEF IInv
<1>2. /\ ~Busy(c) /\ kind \in Kinds
      /\ UNCHANGED <<mem, unavail, policy, failed, seq, queue, enq, file, orphan, installed,
                     rewrite, rewriteDue, save, saveDue, snap, config, commits, floor, undone>>
      /\ \A d \in Clients : Busy(d) => client[d].keys \cap ks = {}
  <2>1. CASE kind = "fast"
    <3>1. PICK k \in Keys : ks = {k} /\ StartFast(c, k)
      BY <2>1
    <3> QED BY ZenonT(40), <2>1, <3>1 DEF StartFast, ShardFree, logVars, jobVars, history
  <2>2. CASE kind # "fast"
    <3>1. StartLocked(c, kind, ks)
      BY <2>2
    <3>2. \A d \in Clients : ~Busy(d)
      BY Zenon, <3>1 DEF StartLocked, DurableMuFree, Exclusive, Shared
    <3> QED BY Zenon, <3>1, <3>2 DEF StartLocked, logVars, jobVars, history
  <2> QED BY <2>1, <2>2
<1>3. /\ client' = [client EXCEPT ![c] = cl] /\ \A d \in Clients \ {c} : client'[d] = client[d]
      /\ cl.pc = (IF kind \in {"fast", "set"} THEN "append" ELSE "apply")
      /\ cl.kind = kind /\ cl.keys = ks /\ cl.idx = 0
      /\ kind \in {"batch", "exec"} => cl.left = ks /\ cl.before = mem
      /\ kind \in {"fast", "set"} => cl.left = {}
  <2>1. CASE kind = "fast"
    <3>1. PICK k \in Keys : ks = {k} /\ StartFast(c, k)
      BY <2>1
    <3>2. client' = [client EXCEPT ![c] =
          [Idle EXCEPT !.pc = "append", !.kind = "fast", !.keys = {k}, !.w = count.w + 1]]
      BY Zenon, <3>1 DEF StartFast
    <3> QED BY Zenon, <1>1, <2>1, <3>1, <3>2 DEF Idle
  <2>2. CASE kind # "fast"
    <3>1. client' = [client EXCEPT ![c] =
          [Idle EXCEPT !.pc = IF kind = "set" THEN "append" ELSE "apply",
                       !.kind = kind, !.keys = ks, !.w = count.w + 1,
                       !.left = IF kind = "set" THEN {} ELSE ks, !.before = mem]]
      BY Zenon, <2>2 DEF StartLocked
    <3> QED BY Zenon, <1>1, <2>2, <3>1 DEF Idle, WriteKinds
  <2> QED BY <2>1, <2>2
<1> HIDE DEF cl
<1>4. ASSUME NEW k \in ks
      PROVE  mem[k] = Value(commits, N, undone \cup {0}, k)
  <2>1. mem[k] = Value(commits, N, undone, k)
    BY Zenon, <1>1, <1>2 DEF ContentInv, MemoryExplained
  <2> QED BY <1>1, <2>1, ValueZero
<1>5. MemoryExplained'
  <2>1. /\ undone' = undone /\ mem' = mem
        /\ \A k \in Keys : Busy(c) => k \notin client[c].keys
    BY Zenon, <1>2
  <2>2. kind \in {"batch", "exec"} => cl.pc = "apply"
    BY <1>3
  <2>3. cl.pc # "idle" /\ cl.left # {} => cl.pc = "apply" /\ cl.kind \in {"batch", "exec"}
    BY Zenon, <1>3, <2>2 DEF WriteKinds
  <2>4. ASSUME NEW k \in cl.keys
        PROVE  Explained(mem', cl, k, Value(commits, Len(commits), undone' \cup {cl.idx}, k))
    <3> DEFINE was == Value(commits, Len(commits), undone' \cup {cl.idx}, k)
    <3>1. mem'[k] = was /\ k \in ks
      BY Zenon, <1>3, <1>4, <2>1
    <3> HIDE DEF was
    <3>2. kind \notin {"fast", "set"} => cl.before = mem' /\ k \in cl.left
      BY Zenon, <1>3, <2>1, <3>1 DEF WriteKinds
    <3>3. Explained(mem', cl, k, was)
      BY Zenon, <1>3, <3>1, <3>2 DEF Explained
    <3> QED BY Zenon, <3>3 DEF was
  <2>5. MemoryExplained /\ LogInv /\ commits' = commits /\ undone \subseteq undone'
        /\ undone' \ undone = {} /\ ~Busy(c)
    BY Zenon, <1>1, <1>2 DEF ContentInv
  <2> QED BY Zenon, <1>3, <2>1, <2>3, <2>4, <2>5, OneMoves
<1>6. CommitsOwned'
  <2>1. \A d \in Clients : client'[d].idx > 0 => client'[d] = client[d]
    BY <1>3
  <2>2. \A d \in Clients : client'[d].idx > 0 => Records(d)' = Records(d)
    BY Zenon, <2>1 DEF Records
  <2> QED BY <1>1, <1>2, <2>1, <2>2 DEF ContentInv, CommitsOwned
<1>7. SnapshotsCovered'
  <2>1. Saves' = Saves /\ (Saves # {} => kind \in {"fast", "set"})
    BY Zenon, <1>1, <1>2, Following DEF Saves
  <2>2. CASE Saves = {}
    BY Zenon, <1>1, <1>2, <2>1, <2>2 DEF ContentInv, SnapshotsCovered
  <2>3. CASE Saves # {}
    <3>1. /\ policy = "always" /\ ~failed /\ file.synced = Len(file.frames)
          /\ \A d \in Clients : Busy(d) =>
                client[d].kind \in {"fast", "set"} /\ (client[d].pc = "finish" => client[d].sync)
          /\ \A k \in Keys : mem[k] # 0 \/ snap[k] # 0 \/ save.img[k] # 0 => Touched(k)
      BY Zenon, <1>1, <2>3 DEF ContentInv, SnapshotsCovered
    <3>2. \A d \in Clients : Busy(d)' =>
                client'[d].kind \in {"fast", "set"} /\ (client'[d].pc = "finish" => client'[d].sync)
      BY Zenon, <1>3, <2>1, <2>3, <3>1 DEF Busy, cl
    <3>3. \A k \in Keys : mem'[k] # 0 \/ snap'[k] # 0 \/ save'.img[k] # 0 => Touched(k)'
      BY Zenon, <1>2, <3>1 DEF Touched
    <3> QED BY Zenon, <1>2, <2>1, <2>3, <3>1, <3>2, <3>3 DEF SnapshotsCovered
  <2> QED BY <2>2, <2>3
<1> QED BY Zenon, <1>1, <1>2, <1>5, <1>6, <1>7, LogUntouched DEF ContentInv

\* A batch or transaction changes memory key by key, or undoes it before its
\* append.
LEMMA ApplyContent ==
    ASSUME IndexFacts, IInv, LogInv', conf' = conf, NEW c \in Clients, ApplyOne(c) \/ AbortAtomic(c)
    PROVE  ContentInv'
<1> DEFINE N == Len(commits)
           cl == client'[c]
<1>1. /\ LogInv /\ ContentInv /\ TypeOK /\ N \in Nat
      /\ client \in [Clients -> WriteStates] /\ mem \in Images
  BY Zenon, LogFacts DEF IInv, TypeOK
<1>2. /\ client[c].pc = "apply" /\ Busy(c) /\ client[c].idx = 0
      /\ UNCHANGED <<policy, failed, queue, file, rewrite, save, saveDue, snap, commits, undone>>
      /\ client[c].keys \subseteq Keys
  <2>1. client[c].pc = "apply" /\ UNCHANGED <<policy, failed, queue, file, rewrite, save, saveDue, snap, commits, undone>>
    BY Zenon DEF ApplyOne, AbortAtomic, logVars, jobVars, history
  <2> QED BY Zenon, <1>1, <2>1 DEF LogInv, WritesSound, WriteSound, Busy, WriteStates
<1>3. client[c].kind \in {"batch", "exec"} /\ client[c].keys = Keys
  <2>1. client[c].kind \in {"batch", "exec"}
    BY Zenon, <1>1, <1>2 DEF ApplyOne, AbortAtomic, ContentInv, MemoryExplained
  <2> QED BY Zenon, <1>1, <1>2, <2>1 DEF LogInv, WritesSound, WriteSound
<1>4. /\ \A d \in Clients \ {c} : client'[d] = client[d]
      /\ client' = [client EXCEPT ![c] = cl] /\ cl.idx = 0
  <2>1. CASE ApplyOne(c)
    <3>1. \E left, pc : client' = [client EXCEPT ![c].left = left, ![c].pc = pc]
      BY Zenon, <2>1 DEF ApplyOne
    <3> QED BY Zenon, <1>1, <1>2, <3>1 DEF WriteStates
  <2>2. CASE AbortAtomic(c)
    <3>1. client' = [client EXCEPT ![c] = Idle]
      BY Zenon, <2>2 DEF AbortAtomic
    <3> QED BY Zenon, <1>1, <3>1 DEF Idle
  <2> QED BY <2>1, <2>2
<1>5. \A k \in Keys : Explained(mem, client[c], k, Value(commits, N, undone \cup {0}, k))
  BY Zenon, <1>1, <1>2, <1>3 DEF ContentInv, MemoryExplained
<1>6. MemoryExplained'
  <2>1. MemoryExplained /\ LogInv /\ commits' = commits /\ undone \subseteq undone'
        /\ undone' \ undone = {} /\ undone' = undone
    BY Zenon, <1>1, <1>2 DEF ContentInv
  <2>2. \A k \in Keys : k \in client[c].keys
    BY Zenon, <1>3
  <2>3. CASE ApplyOne(c)
    <3>1. PICK k \in client[c].left :
             /\ mem' = [mem EXCEPT ![k] = client[c].w]
             /\ client' = [client EXCEPT ![c].left = client[c].left \ {k},
                             ![c].pc = IF client[c].left \ {k} = {} THEN "append" ELSE "apply"]
      BY Zenon, <2>3 DEF ApplyOne
    <3>2. /\ cl.left = client[c].left \ {k} /\ cl.kind = client[c].kind /\ cl.keys = Keys
          /\ cl.w = client[c].w /\ cl.before = client[c].before
          /\ cl.pc = IF client[c].left \ {k} = {} THEN "append" ELSE "apply"
      BY <1>1, <1>3, <3>1 DEF WriteStates
    <3> HIDE DEF cl
    <3>3. /\ cl.left # {} => cl.pc = "apply" /\ cl.kind \in {"batch", "exec"}
          /\ cl.pc # "idle"
      BY Zenon, <1>3, <3>2
    <3>4. ASSUME NEW j \in cl.keys
          PROVE  Explained(mem', cl, j, Value(commits, Len(commits), undone' \cup {cl.idx}, j))
      <4> DEFINE was == Value(commits, N, undone \cup {0}, j)
      <4>1. Explained(mem, client[c], j, was)
        BY Zenon, <1>5, <3>2
      <4>2. was = Value(commits, Len(commits), undone' \cup {cl.idx}, j)
        BY <1>4, <2>1
      <4> HIDE DEF was
      <4>3. client[c].before[j] = was /\ mem[j] = IF j \in client[c].left THEN was ELSE client[c].w
        BY Zenon, <1>3, <4>1 DEF Explained
      <4>4. mem'[j] = IF j \in cl.left THEN was ELSE cl.w
        BY Zenon, <1>1, <3>1, <3>2, <4>3 DEF Images
      <4>5. Explained(mem', cl, j, was)
        BY Zenon, <1>3, <3>2, <4>3, <4>4 DEF Explained
      <4> QED BY <4>2, <4>5
    <3> QED BY Zenon, <1>2, <1>4, <2>1, <2>2, <3>2, <3>3, <3>4, OneMoves
  <2>4. CASE AbortAtomic(c)
    <3>1. mem' = client[c].before /\ cl = Idle
      BY Zenon, <1>1, <2>4 DEF AbortAtomic
    <3>2. cl.pc = "idle"
      BY <3>1 DEF Idle
    <3> HIDE DEF cl
    <3>3. ASSUME NEW k \in Keys
          PROVE  mem'[k] = Value(commits, Len(commits), undone', k)
      <4>1. client[c].before[k] = Value(commits, N, undone \cup {0}, k)
        BY Zenon, <1>3, <1>5 DEF Explained
      <4> QED BY Zenon, <1>1, <2>1, <3>1, <4>1, ValueZero
    <3> QED BY Zenon, <1>2, <1>4, <2>1, <2>2, <3>2, <3>3, OneMoves
  <2> QED BY <2>3, <2>4
<1>7. CommitsOwned'
  <2>1. \A d \in Clients : client'[d].idx > 0 => client'[d] = client[d]
    BY <1>4
  <2>2. \A d \in Clients : client'[d].idx > 0 => Records(d)' = Records(d)
    BY Zenon, <2>1 DEF Records
  <2> QED BY <1>1, <1>2, <2>1, <2>2 DEF ContentInv, CommitsOwned
<1>8. SnapshotsCovered'
  <2>1. Saves = {}
    BY Zenon, <1>1, <1>2, <1>3 DEF ContentInv, SnapshotsCovered
  <2> QED BY Zenon, <1>1, <1>2, <2>1, WriterSnapshots
<1> QED BY Zenon, <1>1, <1>2, <1>6, <1>7, <1>8, LogUntouched DEF ContentInv

\* The answer of a write: its values are published, or taken back if it was
\* refused.
LEMMA FinishContent ==
    ASSUME IndexFacts, IInv, LogInv', conf' = conf, NEW c \in Clients, FinishWrite(c)
    PROVE  ContentInv'
<1> DEFINE N == Len(commits)
           idx == client[c].idx
           cl == client'[c]
<1>1. /\ LogInv /\ ContentInv /\ TypeOK /\ N \in Nat /\ DOMAIN commits = 1 .. N
      /\ client \in [Clients -> WriteStates] /\ mem \in Images /\ client[c] \in WriteStates
  BY LogFacts DEF IInv, TypeOK
<1>2. /\ client[c].pc = "finish" /\ Busy(c) /\ client[c].keys \subseteq Keys /\ client[c].keys # {}
      /\ UNCHANGED <<policy, failed, queue, file, rewrite, save, saveDue, snap, commits>>
      /\ mem' = (IF ~client[c].err THEN Overlay(mem, Records(c))
                 ELSE IF client[c].kind \in {"fast", "set"} THEN mem ELSE client[c].before)
      /\ undone' = IF client[c].err /\ idx > 0 THEN undone \cup {idx} ELSE undone
      /\ client' = [client EXCEPT ![c] = Idle]
  <2>1. client[c].pc = "finish" /\ Busy(c)
    BY Zenon DEF FinishWrite, Busy
  <2> QED BY Zenon, <1>1, <2>1 DEF FinishWrite, logVars, jobVars, LogInv, WritesSound, WriteSound, WriteStates
<1>3. /\ idx \in 0 .. N /\ (~client[c].err => idx > 0) /\ (client[c].err => failed)
      /\ client[c].sync /\ ~client[c].err => idx <= Reach(file.frames, file.synced)
      /\ client[c].kind \in {"batch", "exec"} => client[c].keys = Keys
      /\ client[c].kind \in WriteKinds
  BY Zenon, <1>1, <1>2 DEF LogInv, WritesSound, WriteSound
<1>4. idx > 0 =>
         /\ idx \in 1 .. N /\ commits[idx].recs = Records(c) /\ idx \notin undone
         /\ \A j \in idx + 1 .. N : \A k \in client[c].keys : commits[j].recs[k] = None
  BY <1>1, <1>3 DEF ContentInv, CommitsOwned
<1>5. /\ \A k \in client[c].keys : k \in Keys /\ Records(c)[k] = client[c].w /\ Records(c)[k] # None
      /\ \A k \in Keys : k \notin client[c].keys => Records(c)[k] = None
  <2>1. client[c].w # None
    BY Zenon, <1>1, AofAssumption DEF WriteStates
  <2> QED BY Zenon, <1>2, <2>1 DEF Records
<1>6. cl = Idle /\ cl.pc = "idle" /\ cl.idx = 0 /\ \A d \in Clients \ {c} : client'[d] = client[d]
  BY Zenon, <1>1, <1>2 DEF Idle
<1>7. client' = [client EXCEPT ![c] = cl]
  BY Zenon, <1>2, <1>6
<1> HIDE DEF cl
<1>8. ASSUME NEW k \in Keys, k \notin client[c].keys
      PROVE  mem'[k] = mem[k] /\ \A i \in undone' \ undone : commits[i].recs[k] = None
  <2>1. mem'[k] = mem[k]
    BY Zenon, <1>2, <1>3, <1>5, <1>8 DEF Overlay, WriteKinds
  <2>2. \A i \in undone' \ undone : i = idx /\ idx > 0
    BY Zenon, <1>2
  <2> QED BY Zenon, <1>4, <1>5, <1>8, <2>1, <2>2
<1>9. ASSUME NEW k \in client[c].keys
      PROVE  mem'[k] = Value(commits, N, undone', k)
  <2>1. k \in Keys /\ Explained(mem, client[c], k, Value(commits, N, undone \cup {idx}, k))
    BY Zenon, <1>1, <1>2 DEF ContentInv, MemoryExplained
  <2>2. CASE ~client[c].err
    <3>1. mem' = Overlay(mem, Records(c)) /\ undone' = undone
      BY <1>2, <2>2
    <3>2. Records(c)[k] # None
      BY <1>5
    <3>3. mem'[k] = Records(c)[k]
      BY Zenon, <2>1, <3>1, <3>2 DEF Overlay
    <3>4. /\ idx \in 1 .. N /\ commits[idx].recs = Records(c) /\ idx \notin undone
          /\ \A j \in idx + 1 .. N : \A i \in client[c].keys : commits[j].recs[i] = None
      BY Zenon, <1>3, <1>4, <2>2
    <3>5. commits[idx].recs[k] # None /\ \A j \in idx + 1 .. N : commits[j].recs[k] = None
      BY Zenon, <3>2, <3>4
    <3>6. N \in Nat
      BY Zenon, <1>1
    <3> HIDE DEF idx, N
    <3>7. Value(commits, N, undone, k) = commits[idx].recs[k]
      <4>1. LastOf(commits, N, k, idx) /\ idx \notin undone
        BY Zenon, <3>4, <3>5 DEF LastOf
      <4> QED BY <3>6, <4>1, ValueLast
    <3> QED BY Zenon, <3>1, <3>3, <3>4, <3>7
  <2>3. CASE client[c].err
    <3>1. mem'[k] = Value(commits, N, undone \cup {idx}, k)
      BY Zenon, <1>2, <2>1, <2>3 DEF Explained
    <3>2. CASE idx > 0
      BY Zenon, <1>2, <2>3, <3>1, <3>2
    <3>3. CASE ~(idx > 0)
      <4>1. idx = 0 /\ undone' = undone
        BY <1>1, <1>2, <1>3, <3>3
      <4> QED BY ZenonT(40), <1>1, <3>1, <4>1, ValueZero
    <3> QED BY <3>2, <3>3
  <2> QED BY Zenon, <2>2, <2>3
<1>10. MemoryExplained'
  <2>1. MemoryExplained /\ undone \subseteq undone' /\ commits' = commits
    BY Zenon, <1>1, <1>2 DEF ContentInv
  <2>2. Busy(c) /\ LogInv /\ ~(cl.pc # "idle")
    BY Zenon, <1>1, <1>2, <1>6
  <2> HIDE DEF idx
  <2> QED BY ZenonT(40), <1>7, <1>8, <1>9, <2>1, <2>2, OneMoves
<1>11. CommitsOwned'
  <2>1. \A d \in Clients : client'[d].idx > 0 => client'[d] = client[d] /\ d # c
    BY <1>6 DEF cl
  <2>2. \A d \in Clients : client'[d].idx > 0 => Records(d)' = Records(d)
    BY Zenon, <2>1 DEF Records
  <2>3. undone' # {} => failed'
    BY Zenon, <1>1, <1>2, <1>3 DEF ContentInv, CommitsOwned
  <2>4. ASSUME NEW d \in Clients, client'[d].idx > 0
        PROVE  client[d].idx \notin undone'
    <3>1. d # c /\ client[d].idx > 0 /\ client[d].idx \notin undone
          /\ commits[client[d].idx].recs = Records(d)
      BY ZenonT(40), <1>1, <2>1, <2>4 DEF ContentInv, CommitsOwned
    <3>2. Busy(d)
      BY <1>1, <3>1 DEF LogInv, WritesSound, WriteSound, Busy
    <3>3. client[c].keys \cap client[d].keys = {}
      BY Zenon, <1>1, <1>2, <3>1, <3>2 DEF LogInv, LocksHeld
    <3>4. PICK k : k \in client[c].keys
      BY Zenon, <1>2
    <3>5. Records(c)[k] # None /\ Records(d)[k] = None
      <4>1. Records(c)[k] # None /\ k \in Keys /\ k \notin client[d].keys
        BY <1>5, <3>3, <3>4
      <4>2. Records(d)[k] = None
        BY Zenon, <4>1 DEF Records
      <4> QED BY <4>1, <4>2
    <3>6. idx > 0 => client[d].idx # idx
      BY <1>4, <3>1, <3>5
    <3> QED BY Zenon, <1>2, <3>1, <3>6
  <2> QED BY <1>1, <1>2, <2>1, <2>2, <2>3, <2>4 DEF ContentInv, CommitsOwned
<1>12. SnapshotsCovered'
  <2>1. ASSUME Saves # {}, NEW d \in Clients, Busy(d)'
        PROVE  client'[d].kind \in {"fast", "set"} /\ (client'[d].pc = "finish" => client'[d].sync)
    <3>1. d # c /\ client'[d] = client[d]
      BY Zenon, <1>6, <2>1 DEF Busy, cl
    <3>2. Busy(d)
      BY Zenon, <2>1, <3>1 DEF Busy
    <3> QED BY Zenon, <1>1, <2>1, <3>1, <3>2 DEF ContentInv, SnapshotsCovered
  <2>2. ASSUME Saves # {}, NEW k \in Keys, mem'[k] # mem[k]
        PROVE  Touched(k)
    <3>1. k \in client[c].keys
      BY <1>8, <2>2
    <3>2. ~failed /\ client[c].sync
      BY Zenon, <1>1, <1>2, <2>2 DEF ContentInv, SnapshotsCovered
    <3>3. idx \in 1 .. N /\ idx <= Reach(file.frames, file.synced) /\ commits[idx].recs[k] # None
      <4>1. ~client[c].err /\ idx > 0 /\ idx <= Reach(file.frames, file.synced)
        BY Zenon, <1>3, <3>2
      <4>2. idx \in 1 .. N /\ commits[idx].recs = Records(c)
        BY <1>4, <4>1
      <4>3. Records(c)[k] # None
        BY <1>5, <3>1
      <4> QED BY Zenon, <4>1, <4>2, <4>3
    <3>4. FileHolds
      BY Zenon, <1>1 DEF ContentInv
    <3> QED BY Zenon, <1>1, <3>3, <3>4, TouchedBy
  <2> QED BY Zenon, <1>1, <1>2, <2>1, <2>2, WriterSnapshots
<1> QED BY ZenonT(40), <1>1, <1>2, <1>10, <1>11, <1>12, LogUntouched DEF ContentInv

\* A queue left alone still holds its commits.
LEMMA QueueKept ==
    ASSUME LogInv, LogInv', QueueHolds, Kept, queue' = queue
    PROVE  QueueHolds'
<1>1. /\ DOMAIN commits = 1 .. Len(commits) /\ Len(commits) \in Nat
      /\ DOMAIN commits' = 1 .. Len(commits') /\ Len(commits') \in Nat
  BY LogFacts DEF LogInv, TypeOK
<1>2. \A i \in DOMAIN commits : i \in DOMAIN commits' /\ commits'[i].recs = commits[i].recs
  BY <1>1 DEF Kept
<1> QED BY ZenonT(40), <1>2 DEF QueueHolds

\* An append that a failed log refuses, or that goes on to drain the queue.
LEMMA RefusedContent ==
    ASSUME IInv, LogInv', conf' = conf, NEW c \in Clients, AppendEncoded(c),
           failed \/ policy = "no"
    PROVE  ContentInv'
<1>1. /\ LogInv /\ ContentInv /\ client \in [Clients -> WriteStates]
  BY Zenon, LogFacts DEF IInv
<1>2. /\ UNCHANGED <<mem, policy, failed, queue, file, rewrite, save, saveDue, snap, commits, undone>>
      /\ client[c].pc = "append"
  BY Zenon DEF AppendEncoded
<1>3. \E pc \in {"finish", "drain"} : \E err, sync :
         client' = [client EXCEPT ![c].pc = pc, ![c].err = err, ![c].sync = sync, ![c].idx = 0]
  BY Zenon DEF AppendEncoded
<1>4. client[c].idx = 0 /\ client[c].left = {} /\ Busy(c)
  <2>1. Busy(c)
    BY Zenon, <1>2 DEF Busy
  <2> QED BY Zenon, <1>1, <1>2, <2>1 DEF LogInv, WritesSound, WriteSound, ContentInv, MemoryExplained
<1>5. \A d \in Clients :
         /\ client'[d].keys = client[d].keys /\ client'[d].kind = client[d].kind
         /\ client'[d].w = client[d].w /\ client'[d].idx = client[d].idx
         /\ client'[d].left = client[d].left /\ client'[d].before = client[d].before
         /\ client'[d].pc = client[d].pc \/ (d = c /\ client'[d].pc \in {"finish", "drain"})
  BY <1>1, <1>3, <1>4 DEF WriteStates
<1>6. \A d \in Clients : Busy(d)' = Busy(d) /\ (client[d].left # {} => client'[d].pc = client[d].pc)
  BY Zenon, <1>4, <1>5 DEF Busy
<1>7. CommitsOwned' /\ MemoryExplained'
  BY Zenon, <1>1, <1>2, <1>5, <1>6, StillContent
<1>8. SnapshotsCovered'
  <2>1. Saves = {}
    BY Zenon, <1>1 DEF ContentInv, SnapshotsCovered
  <2> QED BY Zenon, <1>1, <1>2, <2>1, WriterSnapshots
<1> QED BY Zenon, <1>1, <1>2, <1>7, <1>8, LogUntouched DEF ContentInv

\* An append that queues its frame under "everysec" or "always".
LEMMA QueuedContent ==
    ASSUME IndexFacts, IInv, LogInv', conf' = conf, NEW c \in Clients, AppendEncoded(c),
           ~failed, policy # "no"
    PROVE  ContentInv'
<1> DEFINE cl == client[c]
           N == Len(commits)
           q == Len(queue)
           always == policy = "always"
           entry == [frame |-> Frame(c), seq |-> seq.appended + Weight(c),
                     done |-> IF always THEN c ELSE None]
<1>1. /\ UNCHANGED <<mem, policy, failed, file, save, saveDue, snap, undone>>
      /\ cl.pc = "append" /\ enq = None
      /\ rewrite' = (IF always THEN rewrite ELSE Buffered(rewrite, Frame(c)))
      /\ Committed(c) /\ queue' = Append(queue, entry)
  <2>1. policy \in {"always", "everysec", "no"}
    BY Zenon DEF IInv, LogInv, TypeOK
  <2> QED BY Zenon, <2>1 DEF AppendEncoded
<1>2. /\ client'[c].pc = (IF always THEN "done" ELSE "finish") /\ client'[c].idx = N + 1
      /\ client'[c].kind = cl.kind /\ client'[c].keys = cl.keys /\ client'[c].w = cl.w
      /\ client'[c].left = cl.left /\ client'[c].before = cl.before
      /\ \A d \in Clients \ {c} : client'[d] = client[d]
  <2> DEFINE sync == ~failed /\ policy # "no" /\ policy = "always"
             pc == IF always THEN "done" ELSE "finish"
  <2>1. policy \in {"always", "everysec", "no"}
    BY DEF IInv, LogInv, TypeOK
  <2>2. client' = [client EXCEPT ![c].pc = pc, ![c].err = failed, ![c].sync = sync, ![c].idx = N + 1]
    BY Zenon, <2>1 DEF AppendEncoded
  <2>3. client \in [Clients -> WriteStates] /\ client[c] \in WriteStates
    BY Zenon, LogFacts, Typed DEF IInv, LogInv
  <2> HIDE DEF sync, pc, always
  <2>4. /\ client'[c].pc = pc /\ client'[c].idx = N + 1
        /\ client'[c].kind = cl.kind /\ client'[c].keys = cl.keys /\ client'[c].w = cl.w
        /\ client'[c].left = cl.left /\ client'[c].before = cl.before
        /\ \A d \in Clients \ {c} : client'[d] = client[d]
    BY <2>2, <2>3 DEF WriteStates
  <2> QED BY Zenon, <2>4 DEF pc
<1>3. LogInv /\ ContentInv /\ Busy(c) /\ Busy(c)'
  BY Zenon, <1>1, <1>2 DEF IInv, Busy
<1>4. /\ CommitsOwned' /\ MemoryExplained' /\ Kept
      /\ commits'[N + 1].recs = Records(c) /\ Len(commits') = N + 1 /\ DOMAIN commits' = 1 .. N + 1
  BY Zenon, <1>1, <1>2, <1>3, NewCommit
<1>5. /\ Frame(c) \in Frames /\ Frame(c).idx = N + 1 /\ Frame(c).recs = Records(c)
      /\ N \in Nat /\ N + 1 \in 1 .. N + 1
  <2>1. Frame(c) \in Frames /\ Frame(c).idx = N + 1 /\ Frame(c).recs = Records(c)
    BY Zenon, <1>3, Typed DEF LogInv, Frame
  <2>2. N \in Nat
    BY Zenon, <1>3, LogFacts
  <2>3. N + 1 \in 1 .. N + 1
    BY <2>2
  <2> QED BY Zenon, <2>1, <2>2, <2>3
<1>6. FileHolds'
  <2>1. FileHolds /\ 0 \in Nat /\ Len(file'.frames) = Len(file.frames) + 0
    <3>1. FileHolds /\ Len(file'.frames) = Len(file.frames)
      BY Zenon, <1>1, <1>3 DEF ContentInv
    <3>2. Len(file.frames) \in Nat
      BY Zenon, <1>3, LogFacts, FileFacts
    <3> QED BY <3>1, <3>2
  <2>2. \A i \in 1 .. 0 : FALSE
    OBVIOUS
  <2> QED BY Zenon, <1>1, <1>3, <1>4, <2>1, <2>2, FileGrows
<1>7. QueueHolds'
  <2>1. entry.frame = Frame(c) /\ entry \in Entries
    <3>1. seq.appended + Weight(c) \in Nat
      BY Zenon, <1>1, <1>3, AppendCommit
    <3> QED BY Zenon, <1>5, <3>1 DEF Entries
  <2> HIDE DEF entry
  <2>2. /\ q \in Nat /\ DOMAIN queue' = 1 .. q + 1 /\ DOMAIN queue = 1 .. q
        /\ \A i \in 1 .. q : queue'[i] = queue[i]
        /\ queue'[q + 1] = entry
    <3>1. queue \in Seq(Entries) /\ queue' = Append(queue, entry)
      BY Zenon, <1>1, <1>3, LogFacts
    <3> QED BY <2>1, <3>1, AppendProperties
  <2>3. ASSUME NEW i \in 1 .. q + 1
        PROVE  /\ queue'[i].frame.idx \in DOMAIN commits'
               /\ queue'[i].frame.recs = commits'[queue'[i].frame.idx].recs
    <3>1. CASE i = q + 1
      BY Zenon, <1>4, <1>5, <2>1, <2>2, <3>1
    <3>2. CASE i # q + 1
      <4>1. i \in 1 .. q /\ queue'[i] = queue[i]
        BY <2>2, <3>2
      <4>2. queue[i].frame.idx \in DOMAIN commits
            /\ queue[i].frame.recs = commits[queue[i].frame.idx].recs
        BY Zenon, <1>3, <2>2, <4>1 DEF ContentInv, QueueHolds
      <4>3. queue[i].frame.idx \in 1 .. N /\ queue[i].frame.idx \in 1 .. N + 1
        BY <1>3, <1>5, <4>2, LogFacts
      <4> QED BY Zenon, <1>4, <4>1, <4>2, <4>3 DEF Kept
    <3> QED BY <3>1, <3>2
  <2> QED BY Zenon, <2>2, <2>3 DEF QueueHolds
<1>8. RewriteHolds'
  <2>1. RewriteHolds /\ failed' = failed /\ LogInv
    BY Zenon, <1>1, <1>3 DEF ContentInv
  <2>2. RewriteActive => N = rewrite.idx + Len(rewrite.buffer)
    <3>1. Unbuffered = 0
      BY Zenon, <1>1, AofAssumption DEF Unbuffered
    <3>2. rewrite.idx \in Nat /\ Len(rewrite.buffer) \in Nat
      BY <1>3 DEF LogInv, TypeOK, Rewrites
    <3> QED BY <1>3, <1>5, <3>1, <3>2 DEF LogInv, RewriteInOrder
  <2>3. RewriteActive => Frame(c).idx = rewrite.idx + Len(rewrite.buffer) + 1
    BY Zenon, <1>5, <2>2
  <2>4. Frame(c).recs = commits'[Frame(c).idx].recs
    BY Zenon, <1>4, <1>5
  <2>5. rewrite' = rewrite \/ rewrite' = Buffered(rewrite, Frame(c))
    BY <1>1
  <2> QED BY <1>4, <1>5, <2>1, <2>3, <2>4, <2>5, RewriteKept
<1>9. SnapshotsCovered'
  <2>1. ASSUME Saves # {}, NEW d \in Clients, Busy(d)'
        PROVE  client'[d].kind \in {"fast", "set"} /\ (client'[d].pc = "finish" => client'[d].sync)
    <3>1. policy = "always"
      BY Zenon, <1>3, <2>1 DEF ContentInv, SnapshotsCovered
    <3>2. Busy(d)
      BY Zenon, <1>2, <1>3, <2>1 DEF Busy
    <3>3. client[d].kind \in {"fast", "set"} /\ (client[d].pc = "finish" => client[d].sync)
      BY Zenon, <1>3, <2>1, <3>2 DEF ContentInv, SnapshotsCovered
    <3> QED BY <1>2, <3>1, <3>3
  <2> QED BY Zenon, <1>1, <1>3, <2>1, WriterSnapshots
<1>10. JobsExclusive'
  <2>1. rewrite'.phase = rewrite.phase
    <3>1. rewrite \in Rewrites
      BY Zenon, <1>3 DEF LogInv, TypeOK
    <3> QED BY Zenon, <1>1, <3>1 DEF Buffered, Rewrites
  <2> QED BY Zenon, <1>1, <1>3, <2>1 DEF ContentInv, JobsExclusive, Running
<1> QED BY Zenon, <1>4, <1>6, <1>7, <1>8, <1>9, <1>10 DEF ContentInv

\* An append under "no", whether it succeeds or fails.
LEMMA DirectContent ==
    ASSUME IndexFacts, IInv, LogInv', conf' = conf, NEW c \in Clients, AppendDirect(c)
    PROVE  ContentInv'
<1> DEFINE cl == client[c]
           F == file.frames
           N == Len(commits)
<1>1. /\ UNCHANGED <<mem, policy, queue, save, saveDue, snap, undone>>
      /\ cl.pc = "drain" /\ enq = c /\ Drained
  BY Zenon DEF AppendDirect
<1>2. /\ LogInv /\ ContentInv /\ Busy(c) /\ client \in [Clients -> WriteStates] /\ cl \in WriteStates
      /\ policy = "no" /\ F \in Seq(Frames) /\ Len(F) \in Nat /\ N \in Nat /\ file \in Files
      /\ failed \in BOOLEAN
  <2>1. LogInv /\ ContentInv /\ Busy(c)
    BY Zenon, <1>1 DEF IInv, Busy
  <2> QED BY ZenonT(40), <1>1, <2>1, LogFacts, FileFacts DEF LogInv, TypeOK, WritesSound, WriteSound
<1>3. SnapshotsCovered'
  <2>1. Saves = {} /\ Saves' = Saves
    BY Zenon, <1>2 DEF ContentInv, SnapshotsCovered, Saves
  <2> QED BY Zenon, <1>1, <1>2, <2>1 DEF ContentInv, SnapshotsCovered
<1>4. CASE /\ client' = [client EXCEPT ![c].pc = "finish", ![c].err = TRUE]
           /\ failed' = TRUE
           /\ UNCHANGED <<file, rewrite, commits>>
  <2>1. cl.left = {}
    BY Zenon, <1>1, <1>2 DEF ContentInv, MemoryExplained
  <2>2. \A d \in Clients :
         /\ client'[d].keys = client[d].keys /\ client'[d].kind = client[d].kind
         /\ client'[d].w = client[d].w /\ client'[d].idx = client[d].idx
         /\ client'[d].left = client[d].left /\ client'[d].before = client[d].before
         /\ client'[d].pc = client[d].pc \/ (d = c /\ client'[d].pc = "finish")
    BY Zenon, <1>2, <1>4 DEF WriteStates
  <2>3. \A d \in Clients : Busy(d)' = Busy(d) /\ (client[d].left # {} => client'[d].pc = client[d].pc)
    BY Zenon, <1>2, <2>1, <2>2 DEF Busy
  <2>4. CommitsOwned' /\ MemoryExplained'
    BY Zenon, <1>1, <1>2, <1>4, <2>2, <2>3, StillContent
  <2>5. FileHolds' /\ QueueHolds'
    BY Zenon, <1>1, <1>2, <1>4 DEF ContentInv, FileHolds, QueueHolds
  <2>6. RewriteHolds' /\ JobsExclusive'
    BY Zenon, <1>1, <1>2, <1>4 DEF ContentInv, RewriteHolds, JobsExclusive, Running
  <2> QED BY Zenon, <1>3, <2>4, <2>5, <2>6 DEF ContentInv
<1>5. ASSUME NEW ok \in BOOLEAN, NEW fl, ~failed, failed' = ~ok,
             file' = [file EXCEPT !.frames = Append(F, Frame(c)), !.flushed = fl],
             Committed(c),
             rewrite' = IF ok THEN Buffered(rewrite, Frame(c)) ELSE rewrite,
             client' = [client EXCEPT ![c].pc = "finish", ![c].err = ~ok, ![c].idx = N + 1]
      PROVE  ContentInv'
  <2>1. /\ client'[c].pc = "finish" /\ client'[c].idx = N + 1
        /\ client'[c].kind = cl.kind /\ client'[c].keys = cl.keys /\ client'[c].w = cl.w
        /\ client'[c].left = cl.left /\ client'[c].before = cl.before
        /\ \A d \in Clients \ {c} : client'[d] = client[d]
    <3> DEFINE bad == ~ok
    <3>1. client' = [client EXCEPT ![c].pc = "finish", ![c].err = bad, ![c].idx = N + 1]
      BY <1>5
    <3> HIDE DEF bad
    <3> QED BY Zenon, <1>2, <3>1 DEF WriteStates
  <2>2. Busy(c)'
    BY Zenon, <2>1 DEF Busy
  <2>3. /\ CommitsOwned' /\ MemoryExplained' /\ Kept
        /\ commits'[N + 1].recs = Records(c) /\ Len(commits') = N + 1 /\ DOMAIN commits' = 1 .. N + 1
    BY <1>1, <1>2, <1>5, <2>1, <2>2, NewCommit
  <2>4. /\ Frame(c) \in Frames /\ Frame(c).idx = N + 1 /\ Frame(c).recs = Records(c)
        /\ N + 1 \in 1 .. N + 1
    BY <1>2, Typed DEF LogInv, Frame
  <2>5. queue = <<>> /\ Written = N
    BY <1>1, <1>2, <1>5, QueueEmpty
  <2>6. FileHolds'
    <3>1. file'.frames = Append(F, Frame(c))
      BY Zenon, <1>2, <1>5 DEF Files
    <3>2. /\ Len(file'.frames) = Len(F) + 1 /\ \A i \in 1 .. Len(F) : file'.frames[i] = F[i]
          /\ file'.frames[Len(F) + 1] = Frame(c)
      BY <1>2, <2>4, <3>1, AppendProperties
    <3>3. ASSUME NEW i \in 1 .. 1
          PROVE  LET f == file'.frames[Len(F) + i]
                 IN  /\ f.idx \in DOMAIN commits' /\ f.recs = commits'[f.idx].recs
                     /\ f.idx = Written + i
      <4>1. i = 1
        OBVIOUS
      <4> QED BY Zenon, <2>3, <2>4, <2>5, <3>2, <4>1
    <3>4. FileHolds /\ 1 \in Nat
      BY Zenon, <1>2 DEF ContentInv
    <3> HIDE DEF F
    <3> QED BY Zenon, <1>2, <2>3, <3>2, <3>3, <3>4, FileGrows DEF F
  <2>7. QueueHolds'
    BY Zenon, <1>1, <1>2, <2>3, QueueKept DEF ContentInv
  <2>8. RewriteHolds'
    <3>1. RewriteHolds /\ (failed => failed')
      BY Zenon, <1>2, <1>5 DEF ContentInv
    <3>2. RewriteActive => N = rewrite.idx + Len(rewrite.buffer)
      <4>1. Unbuffered = 0
        BY Zenon, <1>1 DEF Unbuffered
      <4>2. rewrite.idx \in Nat /\ Len(rewrite.buffer) \in Nat
        BY <1>2 DEF LogInv, TypeOK, Rewrites
      <4> QED BY <1>2, <1>5, <4>1, <4>2 DEF LogInv, RewriteInOrder
    <3>3. RewriteActive => Frame(c).idx = rewrite.idx + Len(rewrite.buffer) + 1
      BY ZenonT(40), <2>4, <3>2
    <3>4. Frame(c).recs = commits'[Frame(c).idx].recs
      BY <2>3, <2>4
    <3>5. rewrite' = rewrite \/ rewrite' = Buffered(rewrite, Frame(c))
      BY <1>5
    <3> QED BY Zenon, <1>2, <2>3, <2>4, <3>1, <3>3, <3>4, <3>5, RewriteKept
  <2>9. JobsExclusive'
    <3>1. rewrite \in Rewrites
      BY Zenon, <1>2 DEF LogInv, TypeOK
    <3>2. rewrite'.phase = rewrite.phase
      BY Zenon, <1>5, <3>1 DEF Buffered, Rewrites
    <3> QED BY Zenon, <1>1, <1>2, <3>2 DEF ContentInv, JobsExclusive, Running
  <2> QED BY Zenon, <1>3, <2>3, <2>6, <2>7, <2>8, <2>9 DEF ContentInv
<1>6. \/ /\ client' = [client EXCEPT ![c].pc = "finish", ![c].err = TRUE]
         /\ failed' = TRUE
         /\ UNCHANGED <<file, rewrite, commits>>
      \/ \E ok \in BOOLEAN, fl \in file.flushed .. Len(F) + 1 :
          /\ ~failed /\ failed' = ~ok
          /\ file' = [file EXCEPT !.frames = Append(F, Frame(c)), !.flushed = fl]
          /\ Committed(c)
          /\ rewrite' = IF ok THEN Buffered(rewrite, Frame(c)) ELSE rewrite
          /\ client' = [client EXCEPT ![c].pc = "finish", ![c].err = ~ok, ![c].idx = N + 1]
  BY Zenon, <1>2 DEF AppendDirect
<1> QED BY Zenon, <1>4, <1>5, <1>6
=============================================================================
