------------------------------ MODULE AofFacts ------------------------------
(***************************************************************************)
(* What the state of AofState satisfies, whoever takes the next step:      *)
(* types, the commits the file, the queue and the rewrite buffer reach,    *)
(* the value the commits give a key, and the steps that leave commits and  *)
(* memory alone.                                                           *)
(***************************************************************************)
EXTENDS AofState, TLAPS

\* What the lemmas use of the theory of finite sets: a nonempty set of indexes
\* has a largest one, and a set of keys has a size. AofLogProofs derives it.
IndexFacts ==
    /\ \A n \in Nat : \A S \in SUBSET (1 .. n) :
          S # {} => Max(S) \in S /\ \A y \in S : y <= Max(S)
    /\ \A S \in SUBSET Keys : Cardinality(S) \in Nat /\ (S # {} => Cardinality(S) # 0)

\* A nonempty set of indexes has a largest one.
LEMMA MaxExists ==
    ASSUME IndexFacts, NEW n \in Nat, NEW S \in SUBSET (1 .. n), S # {}
    PROVE  Max(S) \in S /\ \A y \in S : y <= Max(S)
BY Zenon DEF IndexFacts

\* What Append, concatenation and SubSeq yield.
LEMMA AppendProperties ==
    ASSUME NEW S, NEW s \in Seq(S), NEW e \in S
    PROVE  /\ Append(s, e) \in Seq(S) /\ Append(s, e) # << >>
           /\ Len(Append(s, e)) = Len(s) + 1
           /\ \A i \in 1 .. Len(s) : Append(s, e)[i] = s[i]
           /\ Append(s, e)[Len(s) + 1] = e
OBVIOUS

\* The same of a concatenation.
LEMMA ConcatProperties ==
    ASSUME NEW S, NEW s \in Seq(S), NEW t \in Seq(S)
    PROVE  /\ s \o t \in Seq(S) /\ Len(s \o t) = Len(s) + Len(t)
           /\ \A i \in 1 .. Len(s) + Len(t) :
                 (s \o t)[i] = IF i <= Len(s) THEN s[i] ELSE t[i - Len(s)]
OBVIOUS

\* The same of a part of a sequence.
LEMMA SubSeqProperties ==
    ASSUME NEW S, NEW s, NEW m \in Int, NEW n \in Int, \A i \in m .. n : s[i] \in S
    PROVE  /\ SubSeq(s, m, n) \in Seq(S)
           /\ Len(SubSeq(s, m, n)) = IF m <= n THEN n - m + 1 ELSE 0
           /\ \A i \in 1 .. n - m + 1 : SubSeq(s, m, n)[i] = s[m + i - 1]
OBVIOUS

\* All of a sequence is the sequence.
LEMMA SubSeqFull ==
    ASSUME NEW S, NEW s \in Seq(S)
    PROVE  SubSeq(s, 1, Len(s)) = s
OBVIOUS

\* The empty values of the state are well typed.
LEMMA Constructed ==
    /\ Empty \in Images /\ Idle \in WriteStates /\ NoJob \in Rewrites /\ NoSave \in SaveStates
<1>1. Empty \in Images
  BY Zenon DEF Empty, Images
<1>2. NoJob \in Rewrites
  BY <1>1 DEF NoJob, Rewrites
<1>3. Idle \in WriteStates /\ NoSave \in SaveStates
  BY Zenon, <1>1 DEF Idle, NoSave, WriteStates, SaveStates
<1> QED BY <1>1, <1>2, <1>3

\* What a client appends is a record, a frame and at least one sequence
\* number.
LEMMA Typed ==
    ASSUME IndexFacts, TypeOK, NEW c \in Clients
    PROVE  /\ client[c] \in WriteStates
           /\ Records(c) \in Recs /\ Frame(c) \in Frames
           /\ Busy(c) /\ client[c].keys # {} => Weight(c) \in Nat \ {0}
<1>1. client[c] \in WriteStates
  BY Zenon DEF TypeOK
<1>2. Records(c) \in Recs
  BY Zenon, <1>1 DEF Records, Recs, WriteStates
<1>3. Frame(c) \in Frames
  BY <1>2 DEF Frame, Frames, TypeOK
<1>4. client[c].keys # {} => Cardinality(client[c].keys) \in Nat \ {0}
  <2>1. client[c].keys \in SUBSET Keys
    BY Zenon, <1>1 DEF WriteStates
  <2> QED BY Zenon, <2>1 DEF IndexFacts
<1> QED BY <1>1, <1>2, <1>3, <1>4 DEF Weight

\* A rewrite that buffers a frame (bufferRewriteFrameLocked) stays a rewrite.
LEMMA BufferTyped ==
    ASSUME NEW job \in Rewrites, NEW frame \in Frames
    PROVE  Buffered(job, frame) \in Rewrites
BY DEF Buffered, Rewrites

\* Longer prefixes of a file reach later commits.
LEMMA ReachFacts ==
    ASSUME NEW F \in Seq(Frames), NEW n \in 0 .. Len(F), NEW m \in n .. Len(F)
    PROVE  /\ Reach(F, n) \in Nat /\ Reach(F, m) \in Nat /\ Reach(F, n) <= Reach(F, m)
           /\ n > 0 => Reach(F, n) = F[1].idx + n - 1 /\ F[1].idx \in Nat
<1>1. n \in Nat /\ m \in Nat /\ Len(F) \in Nat /\ n <= m /\ m <= Len(F)
  OBVIOUS
<1>2. m > 0 => F[1].idx \in Nat
  <2>1. m > 0 => F[1] \in Frames
    BY <1>1
  <2> QED BY Zenon, <2>1 DEF Frames
<1> QED BY <1>1, <1>2 DEF Reach

\* What a prefix of the file holds and reaches.
LEMMA PrefixParts ==
    ASSUME NEW F \in Seq(Frames), NEW n \in 0 .. Len(F)
    PROVE  /\ SubSeq(F, 1, n) \in Seq(Frames) /\ Len(SubSeq(F, 1, n)) = n
           /\ DOMAIN SubSeq(F, 1, n) = 1 .. n
           /\ \A i \in 1 .. n : SubSeq(F, 1, n)[i] = F[i]
           /\ \A m \in 0 .. n : Reach(SubSeq(F, 1, n), m) = Reach(F, m)
<1>1. n \in Nat /\ Len(F) \in Nat /\ n <= Len(F)
  OBVIOUS
<1>2. \A i \in 1 .. n : F[i] \in Frames
  BY <1>1
<1>3. /\ SubSeq(F, 1, n) \in Seq(Frames) /\ Len(SubSeq(F, 1, n)) = n
      /\ \A i \in 1 .. n : SubSeq(F, 1, n)[i] = F[i]
  BY <1>1, <1>2, SubSeqProperties
<1>4. \A m \in 0 .. n : Reach(SubSeq(F, 1, n), m) = Reach(F, m)
  BY <1>1, <1>3 DEF Reach
<1> QED BY <1>3, <1>4

\* The last commit of frames in order.
LEMMA LastReached ==
    ASSUME NEW F \in Seq(Frames), \A i \in DOMAIN F : F[i].idx = F[1].idx + i - 1,
           NEW n \in 0 .. Len(F)
    PROVE  LastCommit(SubSeq(F, 1, n)) = Reach(F, n)
<1> DEFINE P == SubSeq(F, 1, n)
<1>1. P \in Seq(Frames) /\ Len(P) = n /\ \A i \in 1 .. n : P[i] = F[i]
  BY PrefixParts
<1> HIDE DEF P
<1>2. n \in Nat /\ Len(F) \in Nat /\ n <= Len(F)
  OBVIOUS
<1>3. CASE n = 0
  <2>1. P = <<>>
    BY <1>1, <1>3
  <2> QED BY Zenon, <1>3, <2>1 DEF LastCommit, Reach, P
<1>4. CASE n > 0
  <2>1. P # <<>> /\ n \in 1 .. n /\ n \in DOMAIN F
    BY <1>1, <1>2, <1>4
  <2>2. LastCommit(P) = F[n].idx
    BY Zenon, <1>1, <2>1 DEF LastCommit
  <2> QED BY <1>4, <2>1, <2>2 DEF Reach, P
<1> QED BY <1>2, <1>3, <1>4

\* What the file and its prefixes reach.
LEMMA FileFacts ==
    ASSUME TypeOK, LogInOrder
    PROVE  /\ file.frames \in Seq(Frames) /\ Len(file.frames) \in Nat /\ commits \in Seq(Commits)
           /\ file.synced \in Nat /\ file.flushed \in Nat /\ Len(commits) \in Nat
           /\ file.synced <= file.flushed /\ file.flushed <= Len(file.frames)
           /\ \A n \in 0 .. Len(file.frames) :
                 /\ Reach(file.frames, n) \in Nat /\ Reach(file.frames, n) <= Written
                 /\ LastCommit(SubSeq(file.frames, 1, n)) = Reach(file.frames, n)
           /\ Written \in Nat /\ Written <= Len(commits)
           /\ Reach(file.frames, file.synced) \in Nat
<1>1. /\ file \in Files /\ file.synced <= file.flushed /\ file.flushed <= Len(file.frames)
      /\ commits \in Seq(Commits)
  BY Zenon DEF TypeOK
<1>2. /\ file.frames \in Seq(Frames) /\ Len(file.frames) \in Nat
      /\ file.synced \in Nat /\ file.flushed \in Nat /\ Len(commits) \in Nat
  BY <1>1 DEF Files
<1>3. ASSUME NEW n \in 0 .. Len(file.frames)
      PROVE  /\ Reach(file.frames, n) \in Nat /\ Reach(file.frames, n) <= Written
             /\ LastCommit(SubSeq(file.frames, 1, n)) = Reach(file.frames, n)
  <2>1. Len(file.frames) \in n .. Len(file.frames)
    BY <1>2
  <2>2. Reach(file.frames, n) \in Nat /\ Reach(file.frames, n) <= Written
    BY Zenon, <1>2, <2>1, ReachFacts DEF Written
  <2>3. LastCommit(SubSeq(file.frames, 1, n)) = Reach(file.frames, n)
    BY Zenon, <1>2, LastReached DEF LogInOrder
  <2> QED BY <2>2, <2>3
<1>4. Written \in Nat /\ Written <= Len(commits)
  <2>1. Len(file.frames) \in 0 .. Len(file.frames)
    BY <1>2
  <2> QED BY Zenon, <1>3, <2>1 DEF Written, LogInOrder
<1>5. Reach(file.frames, file.synced) \in Nat
  <2>1. file.synced \in 0 .. Len(file.frames)
    BY <1>1, <1>2
  <2> QED BY <1>3, <2>1
<1> QED BY Zenon, <1>1, <1>2, <1>3, <1>4, <1>5

\* The facts of the log invariant that the steps below need.
LEMMA LogFacts ==
    ASSUME LogInv
    PROVE  /\ TypeOK /\ LogInOrder /\ seq \in Seqs /\ commits \in Seq(Commits)
           /\ seq.appended \in Nat /\ seq.written \in Nat /\ seq.synced \in Nat
           /\ seq.synced <= seq.written /\ seq.written <= seq.appended
           /\ queue \in Seq(Entries) /\ Len(queue) \in Nat /\ Len(commits) \in Nat
           /\ Written \in Nat /\ Written <= Len(commits)
           /\ client \in [Clients -> WriteStates]
           /\ \A i \in 1 .. Len(queue) : /\ queue[i] \in Entries /\ queue[i].frame.idx \in Nat
                                         /\ queue[i].done \in Clients \cup {None} /\ queue[i].seq \in Nat
           /\ \A i \in 1 .. Len(commits) : commits[i].seq \in Nat
<1>1. TypeOK /\ LogInOrder
  BY Zenon DEF LogInv
<1>2. /\ seq \in Seqs /\ commits \in Seq(Commits) /\ queue \in Seq(Entries)
      /\ client \in [Clients -> WriteStates]
  BY Zenon, <1>1 DEF TypeOK
<1>3. seq.appended \in Nat /\ seq.written \in Nat /\ seq.synced \in Nat
  BY Zenon, <1>2 DEF Seqs
<1>4. seq.synced <= seq.written /\ seq.written <= seq.appended
  BY Zenon DEF LogInv, SequenceInOrder
<1>5. ASSUME NEW i \in 1 .. Len(queue)
      PROVE  /\ queue[i] \in Entries /\ queue[i].frame.idx \in Nat
             /\ queue[i].done \in Clients \cup {None} /\ queue[i].seq \in Nat
  <2>1. queue[i] \in Entries
    BY <1>2
  <2> QED BY Zenon, <2>1 DEF Entries, Frames
<1>6. ASSUME NEW i \in 1 .. Len(commits) PROVE commits[i].seq \in Nat
  <2>1. commits[i] \in Commits
    BY <1>2
  <2> QED BY Zenon, <2>1 DEF Commits
<1> QED BY <1>1, <1>2, <1>3, <1>4, <1>5, <1>6, FileFacts

\* A rewrite's buffer is a sequence of frames.
LEMMA RewriteFacts ==
    ASSUME LogInv
    PROVE  /\ rewrite \in Rewrites /\ rewrite.idx \in Nat
           /\ rewrite.buffer \in Seq(Frames) /\ Len(rewrite.buffer) \in Nat
<1>1. rewrite \in Rewrites
  BY Zenon DEF LogInv, TypeOK
<1>2. rewrite.idx \in Nat /\ rewrite.buffer \in Seq(Frames)
  BY Zenon, <1>1 DEF Rewrites
<1> QED BY <1>1, <1>2

\* The entries of the queue are commits in a row.
LEMMA QueueOrder ==
    ASSUME LogInv, NEW i \in 1 .. Len(queue)
    PROVE  /\ queue[i].frame.idx = queue[1].frame.idx + i - 1
           /\ queue[1].frame.idx \in Nat /\ i \in Nat
<1>1. 1 \in 1 .. Len(queue) /\ i \in DOMAIN queue /\ i \in Nat
  BY LogFacts
<1> QED BY Zenon, <1>1, LogFacts DEF LogInv, LogInOrder

\* A client whose write a step leaves alone is as sound after it.
LEMMA StillSound ==
    ASSUME LogInv, conf' = conf, NEW c \in Clients, client'[c] = client[c],
           client[c].pc = "drain" => policy' \in {policy, "no"}, failed => failed',
           commits' \in Seq(Commits), Len(commits) <= Len(commits'),
           Reach(file.frames, file.synced)' \in Nat,
           Reach(file.frames, file.synced) <= Reach(file.frames, file.synced)'
    PROVE  WriteSound(c)'
<1> DEFINE cl == client[c]
           R == Reach(file.frames, file.synced)
<1>1. WriteSound(c)
  BY Zenon DEF LogInv, WritesSound
<1>2. Busy(c)' = Busy(c) /\ Kinds' = Kinds
  BY Zenon DEF Busy, Kinds
<1>3. cl.idx \in Nat /\ R \in Nat /\ Len(commits) \in Nat /\ DOMAIN commits = 1 .. Len(commits)
  <2>1. TypeOK /\ LogInOrder /\ cl \in WriteStates
    BY LogFacts
  <2> QED BY <2>1, FileFacts DEF WriteStates
<1>4. /\ cl.idx \in DOMAIN commits => cl.idx \in DOMAIN commits'
      /\ cl.idx \in 0 .. Len(commits) => cl.idx \in 0 .. Len(commits')
      /\ cl.idx <= R => cl.idx <= R'
  BY <1>3
<1>5. cl.pc = "drain" => policy' = "no"
  BY Zenon, <1>1 DEF WriteSound
<1> HIDE DEF R
<1> QED BY Zenon, <1>1, <1>2, <1>4, <1>5 DEF WriteSound, R

\* An append adds one commit, whose sequence number is the largest.
LEMMA AppendCommit ==
    ASSUME IndexFacts, LogInv, NEW c \in Clients, Busy(c), Committed(c)
    PROVE  LET N == Len(commits)
               m == seq.appended + Weight(c)
           IN  /\ Len(commits') = N + 1 /\ DOMAIN commits' = 1 .. N + 1 /\ N \in Nat
               /\ m \in Nat /\ m > seq.appended
               /\ commits'[N + 1].seq = m /\ commits'[N + 1].recs = Records(c)
               /\ \A i \in 1 .. N : commits'[i] = commits[i]
               /\ \A i, j \in DOMAIN commits' : i < j =>
                     /\ commits'[i].seq <= commits'[j].seq
                     /\ commits'[j].seq > 0 => commits'[i].seq < commits'[j].seq
               /\ \A n \in 0 .. N : SeqOf(n)' = SeqOf(n)
               /\ SeqOf(Len(commits))' = m
               /\ \A i \in DOMAIN commits' : commits'[i].seq \in 1 .. seq.synced => i \in 1 .. N
<1> DEFINE N == Len(commits)
           m == seq.appended + Weight(c)
           commit == [recs |-> Records(c), seq |-> m]
<1>1. client[c].keys # {}
  BY Zenon DEF LogInv, WritesSound, WriteSound
<1>2. Weight(c) \in Nat \ {0} /\ Records(c) \in Recs
  BY Zenon, <1>1, Typed DEF LogInv
<1>3. m \in Nat /\ m > seq.appended /\ N \in Nat /\ m > seq.synced
  BY <1>2, LogFacts
<1>4. commit \in Commits /\ commit.seq = m /\ commit.recs = Records(c)
  BY Zenon, <1>2, <1>3 DEF Commits
<1>5. commits' = Append(commits, commit)
  BY Zenon DEF Committed
<1> HIDE DEF commit, m
<1>6. /\ Len(commits') = N + 1 /\ DOMAIN commits' = 1 .. N + 1
      /\ \A i \in 1 .. N : commits'[i] = commits[i]
      /\ commits'[N + 1] = commit
  BY <1>4, <1>5, LogFacts, AppendProperties
<1>7. \A i \in 1 .. N : commits[i].seq <= seq.appended
  <2>1. /\ \A i, j \in 1 .. N : i < j => commits[i].seq <= commits[j].seq
        /\ N > 0 => seq.appended = commits[N].seq
    BY <1>3, LogFacts DEF LogInv, SequenceInOrder, SeqOf
  <2> QED BY <1>3, <2>1, LogFacts
<1>8. ASSUME NEW i \in 1 .. N + 1, NEW j \in 1 .. N + 1, i < j
      PROVE  /\ commits'[i].seq <= commits'[j].seq
             /\ commits'[j].seq > 0 => commits'[i].seq < commits'[j].seq
  <2>1. i \in 1 .. N
    BY <1>3, <1>8
  <2>2. CASE j \in 1 .. N
    <3>1. commits'[i] = commits[i] /\ commits'[j] = commits[j]
      BY Zenon, <1>6, <2>1, <2>2
    <3>2. i \in DOMAIN commits /\ j \in DOMAIN commits
      BY <2>1, <2>2, LogFacts
    <3> QED BY Zenon, <1>8, <3>1, <3>2 DEF LogInv, SequenceInOrder
  <2>3. CASE j = N + 1
    <3>1. commits'[i].seq <= seq.appended /\ commits'[i].seq \in Nat
      BY Zenon, <1>6, <1>7, <2>1, LogFacts
    <3> QED BY <1>3, <1>4, <1>6, <2>3, <3>1, LogFacts
  <2> QED BY <1>3, <2>2, <2>3
<1>9. \A n \in 0 .. N : SeqOf(n)' = SeqOf(n)
  BY <1>3, <1>6 DEF SeqOf
<1>10. SeqOf(Len(commits))' = m
  BY <1>3, <1>4, <1>6 DEF SeqOf
<1>11. \A i \in DOMAIN commits' : commits'[i].seq \in 1 .. seq.synced => i \in 1 .. N
  <2>1. commits'[N + 1].seq > seq.synced /\ seq.synced \in Nat
    BY Zenon, <1>3, <1>4, <1>6, LogFacts
  <2>2. ASSUME NEW i \in 1 .. N + 1, commits'[i].seq \in 1 .. seq.synced PROVE i # N + 1
    BY <1>3, <1>4, <1>6, <2>1, <2>2
  <2> QED BY <1>3, <1>6, <2>2
<1> QED BY Zenon, <1>3, <1>4, <1>6, <1>8, <1>9, <1>10, <1>11 DEF m

\* H is F and g more frames that continue it in order.
Continues(F, g, H) ==
    /\ \A i \in DOMAIN F : F[i].idx = F[1].idx + i - 1
    /\ Len(H) = Len(F) + g
    /\ \A i \in 1 .. Len(F) : H[i] = F[i]
    /\ \A i \in 1 .. g : H[Len(F) + i].idx = Reach(F, Len(F)) + i

\* A file that continues another reaches as many commits more as it has
\* frames.
LEMMA Extended ==
    ASSUME NEW F \in Seq(Frames), NEW g \in Nat, NEW H \in Seq(Frames), Continues(F, g, H)
    PROVE  /\ \A i \in DOMAIN H : H[i].idx = H[1].idx + i - 1
           /\ \A n \in 0 .. Len(F) : Reach(H, n) = Reach(F, n)
           /\ Reach(H, Len(H)) = Reach(F, Len(F)) + g
<1> DEFINE l == Len(F)
           first == IF l = 0 THEN 1 ELSE F[1].idx
<1>1. /\ l \in Nat /\ DOMAIN F = 1 .. l /\ Reach(F, l) \in Nat
      /\ l > 0 => F[1].idx \in Nat /\ Reach(F, l) = F[1].idx + l - 1
  BY ReachFacts
<1>2. DOMAIN H = 1 .. l + g /\ Len(H) = l + g
  BY DEF Continues
<1>3. \A n \in 0 .. l : Reach(H, n) = Reach(F, n)
  BY <1>1 DEF Reach, Continues
<1>4. first \in Nat /\ Reach(F, l) = first + l - 1
  BY <1>1 DEF Reach
<1> HIDE DEF l, first
<1>5. ASSUME NEW i \in 1 .. l + g PROVE H[i].idx = first + i - 1
  <2>1. CASE i \in 1 .. l
    <3>1. H[i].idx = F[1].idx + i - 1
      BY Zenon, <1>1, <2>1 DEF l, Continues
    <3>2. l # 0
      BY <1>1, <2>1
    <3> QED BY Zenon, <3>1, <3>2 DEF first
  <2>2. CASE i \notin 1 .. l
    <3>1. i - l \in 1 .. g /\ l + (i - l) = i
      BY <1>1, <2>2
    <3>2. H[i].idx = Reach(F, l) + (i - l)
      BY Zenon, <3>1 DEF Continues, l
    <3> QED BY <1>1, <1>4, <3>2
  <2> QED BY <2>1, <2>2
<1>6. l + g > 0 => H[1].idx = first
  BY <1>1, <1>4, <1>5
<1>7. \A i \in 1 .. l + g : H[i].idx = H[1].idx + i - 1
  BY <1>1, <1>5, <1>6
<1>8. Reach(H, l + g) = Reach(F, l) + g
  <2>1. CASE l + g = 0
    BY <1>1, <2>1 DEF Reach
  <2>2. CASE l + g > 0
    <3>1. Reach(H, l + g) = first + (l + g) - 1
      BY <1>1, <1>6, <2>2 DEF Reach
    <3> QED BY <1>1, <1>4, <3>1
  <2> QED BY <1>1, <2>1, <2>2
<1> QED BY Zenon, <1>2, <1>3, <1>7, <1>8 DEF l

\* A rewrite buffer that takes the next frame continues its base image.
LEMMA BufferGrows ==
    ASSUME NEW job \in Rewrites, job.phase \in {"temp", "install"},
           \A i \in DOMAIN job.buffer : job.buffer[i].idx = job.idx + i,
           NEW f \in Frames, f.idx = job.idx + Len(job.buffer) + 1
    PROVE  LET new == Buffered(job, f)
           IN  /\ new.phase = job.phase /\ new.idx = job.idx /\ new.img = job.img
               /\ Len(new.buffer) = Len(job.buffer) + 1
               /\ DOMAIN new.buffer = 1 .. Len(job.buffer) + 1
               /\ \A i \in 1 .. Len(job.buffer) : new.buffer[i] = job.buffer[i]
               /\ new.buffer[Len(job.buffer) + 1] = f
               /\ \A i \in DOMAIN new.buffer : new.buffer[i].idx = job.idx + i
<1> DEFINE B == job.buffer
           new == Buffered(job, f)
<1>1. B \in Seq(Frames) /\ job.idx \in Nat /\ Len(B) \in Nat
  BY DEF Rewrites
<1>2. new.phase = job.phase /\ new.idx = job.idx /\ new.img = job.img /\ new.buffer = Append(B, f)
  BY Zenon DEF Buffered, Rewrites
<1>3. /\ Len(new.buffer) = Len(B) + 1 /\ DOMAIN new.buffer = 1 .. Len(B) + 1
      /\ \A i \in 1 .. Len(B) : new.buffer[i] = B[i]
      /\ new.buffer[Len(B) + 1] = f
  BY <1>1, <1>2, AppendProperties
<1> HIDE DEF new
<1>4. DOMAIN B = 1 .. Len(B)
  BY <1>1
<1>6. Len(B) \in Nat
  BY Zenon, <1>1
<1>5. ASSUME NEW i \in 1 .. Len(B) + 1 PROVE new.buffer[i].idx = job.idx + i
  <2>1. CASE i \in 1 .. Len(B)
    BY Zenon, <1>3, <1>4, <2>1
  <2>2. CASE i = Len(B) + 1
    <3>1. new.buffer[i].idx = job.idx + Len(B) + 1
      BY <1>3, <2>2
    <3>2. job.idx + Len(B) + 1 = job.idx + (Len(B) + 1)
      BY <1>1
    <3> QED BY Zenon, <2>2, <3>1, <3>2
  <2>3. i \in 1 .. Len(B) \/ i = Len(B) + 1
    BY <1>6
  <2> QED BY Zenon, <2>1, <2>2, <2>3
<1> QED BY Zenon, <1>2, <1>3, <1>5 DEF new

\* Later commits have larger sequence numbers, but for those recovered.
LEMMA SeqGrows ==
    ASSUME LogInv, NEW b \in 0 .. Len(commits), NEW a \in 0 .. b
    PROVE  /\ SeqOf(a) \in Nat /\ SeqOf(b) \in Nat /\ SeqOf(a) <= SeqOf(b)
           /\ SeqOf(b) > 0 /\ a < b => SeqOf(a) < SeqOf(b)
<1> DEFINE N == Len(commits)
<1>1. N \in Nat /\ DOMAIN commits = 1 .. N /\ \A i \in 1 .. N : commits[i].seq \in Nat
  BY LogFacts
<1>2. \A i, j \in 1 .. N : i < j =>
            /\ commits[i].seq <= commits[j].seq
            /\ commits[j].seq > 0 => commits[i].seq < commits[j].seq
  BY Zenon, <1>1 DEF LogInv, SequenceInOrder
<1>3. SeqOf(a) \in Nat /\ SeqOf(b) \in Nat
  BY <1>1 DEF SeqOf
<1> HIDE DEF N
<1>4. CASE a = 0
  BY <1>3, <1>4 DEF SeqOf
<1>5. CASE a > 0 /\ a = b
  BY <1>3, <1>5
<1>6. CASE a > 0 /\ a < b
  <2>1. a \in 1 .. N /\ b \in 1 .. N
    BY <1>1, <1>6 DEF N
  <2> QED BY <1>2, <1>3, <1>6, <2>1 DEF SeqOf
<1> QED BY <1>1, <1>4, <1>5, <1>6 DEF N

\* drainEverysec leaves nothing in the queue of a healthy log.
LEMMA QueueEmpty ==
    ASSUME LogInv, ~failed, Drained
    PROVE  queue = <<>> /\ Written = Len(commits)
<1> DEFINE W == Written
           N == Len(commits)
<1>1. W \in Nat /\ N \in Nat /\ Len(queue) \in Nat /\ W + Len(queue) = N
  BY Zenon, LogFacts DEF LogInv, LogInOrder
<1>2. seq.written \in Nat /\ seq.appended \in Nat /\ seq.written >= seq.appended
  BY Zenon, LogFacts DEF Drained
<1>3. ASSUME queue # <<>> PROVE FALSE
  <2>1. Len(queue) > 0 /\ 1 \in DOMAIN queue
    BY <1>3, LogFacts
  <2>2. queue[1].frame.idx = W + 1
    BY Zenon, <1>3 DEF LogInv, LogInOrder
  <2>3. seq.appended = SeqOf(N) /\ seq.written = SeqOf(W) /\ SeqOf(W + 1) > 0
    BY Zenon, <2>1, <2>2 DEF LogInv, SequenceInOrder
  <2>4. W + 1 \in 0 .. N /\ W \in 0 .. W + 1 /\ N \in 0 .. N /\ W + 1 \in 0 .. N
    BY <1>1, <2>1
  <2> HIDE DEF W, N
  <2>5. SeqOf(W) < SeqOf(W + 1) /\ SeqOf(W) \in Nat /\ SeqOf(W + 1) \in Nat
    BY <1>1, <2>3, <2>4, SeqGrows DEF N
  <2>6. SeqOf(W + 1) <= SeqOf(N) /\ SeqOf(N) \in Nat
    BY Zenon, <2>4, SeqGrows DEF N
  <2> QED BY <1>2, <2>3, <2>5, <2>6
<1>4. queue = <<>>
  BY <1>3
<1>5. Len(queue) = 0
  BY <1>4
<1> QED BY <1>1, <1>4, <1>5

\* The sequence numbers in the queue are those of the commits not yet written.
LEMMA QueueSeqs ==
    ASSUME LogInv, ~failed, NEW w \in 0 .. Len(queue)
    PROVE  /\ Written + w \in 0 .. Len(commits) /\ Written \in 0 .. Written + w
           /\ Len(commits) = Written + Len(queue)
           /\ seq.written = SeqOf(Written)
           /\ w > 0 => queue[w].seq = SeqOf(Written + w) /\ queue[w].frame.idx = Written + w
           /\ SeqOf(Written) <= SeqOf(Written + w) /\ SeqOf(Written + w) <= seq.appended
           /\ SeqOf(Written) \in Nat /\ SeqOf(Written + w) \in Nat
           /\ \A i \in DOMAIN commits : commits[i].seq \in 1 .. SeqOf(Written + w) => i <= Written + w
<1> DEFINE W == Written
           N == Len(commits)
           v == W + w
<1>1. /\ W \in Nat /\ N \in Nat /\ w \in Nat /\ Len(queue) \in Nat /\ w <= Len(queue) /\ W + Len(queue) = N
      /\ DOMAIN commits = 1 .. N
  BY LogFacts DEF LogInv, LogInOrder
<1>2. /\ v \in 0 .. N /\ W \in 0 .. v /\ N \in 0 .. N /\ v \in 0 .. N /\ W \in 0 .. N
      /\ \A i \in 1 .. N : i \in 0 .. N /\ (i > v => v \in 0 .. i)
  BY <1>1
<1>3. seq.written = SeqOf(W) /\ seq.appended = SeqOf(N)
  BY Zenon DEF LogInv, SequenceInOrder
<1>4. w > 0 => queue[w].seq = SeqOf(v) /\ queue[w].frame.idx = v
  <2>1. ASSUME w > 0 PROVE queue[w].frame.idx = W + w
    <3>1. w \in DOMAIN queue /\ queue # <<>>
      BY <1>1, <2>1, LogFacts
    <3>2. queue[w].frame.idx = queue[1].frame.idx + w - 1 /\ queue[1].frame.idx = W + 1
      BY Zenon, <3>1 DEF LogInv, LogInOrder
    <3> QED BY <1>1, <3>2
  <2>2. ASSUME w > 0 PROVE queue[w].seq = SeqOf(queue[w].frame.idx)
    <3>1. w \in DOMAIN queue
      BY <1>1, <2>2, LogFacts
    <3> QED BY Zenon, <3>1 DEF LogInv, SequenceInOrder
  <2> QED BY <2>1, <2>2
<1> HIDE DEF v, W, N
<1>5. SeqOf(W) <= SeqOf(v) /\ SeqOf(W) \in Nat /\ SeqOf(v) \in Nat
  BY Zenon, <1>2, SeqGrows DEF N
<1>6. SeqOf(v) <= SeqOf(N)
  BY Zenon, <1>2, SeqGrows DEF N
<1>7. ASSUME NEW i \in DOMAIN commits, commits[i].seq \in 1 .. SeqOf(v) PROVE i <= v
  <2>1. i \in 1 .. N /\ i \in 0 .. N /\ i \in Nat /\ v \in Nat
    BY <1>1, <1>2
  <2>2. SeqOf(i) = commits[i].seq /\ SeqOf(i) > 0 /\ SeqOf(i) <= SeqOf(v) /\ SeqOf(i) \in Nat
    BY <1>5, <1>7, <2>1 DEF SeqOf
  <2>3. ASSUME i > v PROVE FALSE
    <3>1. v \in 0 .. i /\ v < i
      BY <1>2, <2>1, <2>3
    <3>2. SeqOf(v) < SeqOf(i)
      BY Zenon, <2>1, <2>2, <3>1, SeqGrows DEF N
    <3> QED BY <1>5, <2>2, <3>2
  <2> QED BY <2>1, <2>3
<1> QED BY Zenon, <1>1, <1>2, <1>3, <1>4, <1>5, <1>6, <1>7 DEF v, W, N

\* A step that appends nothing: the file at most synced, its policy, its failure
\* and the jobs may change.
LEMMA CalmLog ==
    ASSUME IndexFacts, LogInv, TypeOK', LocksHeld', RewriteInOrder',
           UNCHANGED <<conf, client, queue, orphan, commits, floor, undone>>,
           file'.frames = file.frames, file'.synced \in {file.synced, Len(file.frames)},
           failed => failed',
           seq'.appended = seq.appended, seq'.written = seq.written,
           \/ seq'.synced = seq.synced
           \/ ~failed /\ file'.synced = Len(file.frames) /\ seq'.synced = seq.written,
           policy' = "always" /\ ~failed' =>
               \/ policy = "always" /\ seq'.synced = seq.synced
               \/ queue = <<>> /\ seq'.synced = seq.appended,
           policy' = policy \/ \A c \in Clients : ~Busy(c)
    PROVE  LogInv'
<1> DEFINE F == file.frames
           R == Reach(file.frames, file.synced)
<1>1. /\ F \in Seq(Frames) /\ Len(F) \in Nat /\ R \in Nat /\ R <= Written /\ Written = Reach(F, Len(F))
      /\ Written \in Nat /\ Written <= Len(commits)
  <2>1. file.synced \in Nat /\ file.synced <= Len(F) /\ Len(F) \in Nat
    BY FileFacts DEF LogInv
  <2>2. file.synced \in 0 .. Len(F)
    BY <2>1
  <2> QED BY Zenon, <2>1, <2>2, FileFacts DEF LogInv, Written
<1>2. R' = (IF file'.synced = file.synced THEN R ELSE Written) /\ R <= R' /\ Written' = Written
  <2>1. R' = Reach(F, file'.synced) /\ Written' = Reach(F, Len(F))
    BY Zenon DEF Written
  <2> HIDE DEF F
  <2> QED BY <1>1, <2>1 DEF F
<1>3. LogInOrder'
  BY Zenon, <1>2 DEF LogInv, LogInOrder
<1>4. SequenceInOrder'
  <2>1. seq'.synced <= seq.written
    BY LogFacts
  <2>2. SeqOf(Written)' = SeqOf(Written) /\ SeqOf(Len(commits))' = SeqOf(Len(commits))
    BY Zenon, <1>2 DEF SeqOf
  <2>3. \A i \in DOMAIN queue : SeqOf(queue[i].frame.idx)' = SeqOf(queue[i].frame.idx)
    BY Zenon DEF SeqOf
  <2> QED BY Zenon, <2>1, <2>2, <2>3 DEF LogInv, SequenceInOrder
<1>5. SyncedReached'
  <2>1. floor \in Nat /\ floor <= R
    BY Zenon DEF LogInv, TypeOK, SyncedReached
  <2>2. floor <= R'
    BY <1>1, <1>2, <2>1
  <2>3. ASSUME NEW i \in DOMAIN commits, commits[i].seq \in 1 .. seq'.synced PROVE i <= R'
    <3>0. i \in Nat
      BY LogFacts
    <3>1. CASE seq'.synced = seq.synced
      <4>1. i <= R
        BY Zenon, <2>3, <3>1 DEF LogInv, SyncedReached
      <4> QED BY <1>1, <1>2, <3>0, <4>1
    <3>2. CASE ~failed /\ file'.synced = Len(F) /\ seq'.synced = seq.written
      <4>1. R' = Written
        BY Zenon, <1>1, <1>2, <3>2
      <4>2. 0 \in 0 .. Len(queue) /\ Written + 0 = Written
        BY <1>1, LogFacts
      <4>3. seq.written = SeqOf(Written) /\ (commits[i].seq \in 1 .. SeqOf(Written) => i <= Written)
        BY Zenon, <3>2, <4>2, QueueSeqs
      <4> QED BY Zenon, <2>3, <3>2, <4>1, <4>3
    <3> QED BY <3>1, <3>2
  <2>4. ASSUME policy' = "always", ~failed'
        PROVE  /\ \A i \in DOMAIN queue' : queue'[i].done # None
               /\ queue' = <<>> => seq'.synced = seq'.appended
    BY <2>4 DEF LogInv, SyncedReached
  <2> QED BY Zenon, <2>2, <2>3, <2>4 DEF SyncedReached
<1>6. WritesSound'
  <2>1. ASSUME NEW c \in Clients PROVE WriteSound(c)'
    <3>1. client[c].pc = "drain" => policy' = policy
      BY Zenon DEF Busy
    <3>2. commits' \in Seq(Commits) /\ Len(commits) <= Len(commits')
      BY LogFacts
    <3>3. R' \in Nat
      BY <1>1, <1>2
    <3> QED BY Zenon, <1>2, <3>1, <3>2, <3>3, StillSound
  <2> QED BY Zenon, <2>1 DEF LogInv, WritesSound
<1> QED BY Zenon, <1>3, <1>4, <1>5, <1>6 DEF LogInv

\* Nothing is buffered or unbuffered by a step that leaves clients, the rewrite
\* and its waiting client alone.
LEMMA CalmRewrite ==
    ASSUME LogInv, UNCHANGED <<client, rewrite, commits>>, failed => failed',
           enq' = enq \/ (enq \notin Clients /\ enq' \notin Clients)
    PROVE  RewriteInOrder'
<1>1. Unbuffered' = Unbuffered
  BY Zenon DEF Unbuffered
<1> QED BY Zenon, <1>1 DEF LogInv, RewriteInOrder, RewriteActive

\* The last commit of a key, if it has one.
LEMMA LiveMax ==
    ASSUME IndexFacts, NEW n \in Nat, NEW C, NEW lost, NEW k, Live(C, n, lost, k) # {}
    PROVE  /\ Max(Live(C, n, lost, k)) \in 1 .. n /\ Max(Live(C, n, lost, k)) \in Live(C, n, lost, k)
           /\ \A y \in Live(C, n, lost, k) : y <= Max(Live(C, n, lost, k))
<1>1. Live(C, n, lost, k) \in SUBSET (1 .. n)
  BY Zenon DEF Live
<1>2. Max(Live(C, n, lost, k)) \in Live(C, n, lost, k)
  BY Zenon, <1>1, MaxExists
<1>3. \A y \in Live(C, n, lost, k) : y <= Max(Live(C, n, lost, k))
  BY Zenon, <1>1, MaxExists
<1> QED BY <1>1, <1>2, <1>3

\* Two logs with the same commits of a key give it the same value.
LEMMA ValueSame ==
    ASSUME IndexFacts, NEW n \in Nat, NEW m \in Nat, NEW C, NEW D, NEW lost, NEW gone, NEW k,
           Live(C, n, lost, k) = Live(D, m, gone, k),
           \A i \in Live(C, n, lost, k) : C[i].recs[k] = D[i].recs[k]
    PROVE  Value(C, n, lost, k) = Value(D, m, gone, k)
<1>1. CASE Live(C, n, lost, k) = {}
  BY Zenon, <1>1 DEF Value
<1>2. CASE Live(C, n, lost, k) # {}
  BY Zenon, <1>2, LiveMax DEF Value
<1> QED BY <1>1, <1>2

\* The value of a key is the record of the last commit that has one.
LastOf(C, n, k, m) ==
    m \in 1 .. n /\ C[m].recs[k] # None /\ \A j \in m + 1 .. n : C[j].recs[k] = None

\* The last commit of a key gives it its value.
LEMMA ValueLast ==
    ASSUME IndexFacts, NEW n \in Nat, NEW C, NEW lost, NEW k, NEW m, LastOf(C, n, k, m), m \notin lost
    PROVE  Value(C, n, lost, k) = C[m].recs[k]
<1> USE DEF LastOf
<1> DEFINE L == Live(C, n, lost, k)
<1>1. m \in L /\ L # {}
  BY Zenon DEF Live
<1>2. Max(L) \in L /\ m <= Max(L) /\ Max(L) \in 1 .. n
  BY <1>1, LiveMax
<1>3. C[Max(L)].recs[k] # None
  BY Zenon, <1>2 DEF Live
<1> DEFINE x == Max(L)
<1>4. x \in 1 .. n /\ m <= x /\ C[x].recs[k] # None
  BY <1>2, <1>3
<1> HIDE DEF x
<1>5. x = m
  <2>1. x \notin m + 1 .. n
    BY <1>4
  <2> QED BY <1>4, <2>1
<1> QED BY Zenon, <1>1, <1>5 DEF Value, x

\* Commits that do not record the key do not count.
LEMMA ValuePrefix ==
    ASSUME IndexFacts, NEW n \in Nat, NEW m \in n .. n + 1, NEW C, NEW D, NEW lost, NEW gone, NEW k,
           \A i \in 1 .. n : C[i].recs[k] = D[i].recs[k],
           \A i \in 1 .. n : (i \in lost <=> i \in gone) \/ C[i].recs[k] = None,
           m = n + 1 => m \in gone \/ D[m].recs[k] = None
    PROVE  Value(C, n, lost, k) = Value(D, m, gone, k)
<1>1. m \in Nat /\ \A i \in 1 .. m : i \in 1 .. n \/ (i = n + 1 /\ m = n + 1)
  OBVIOUS
<1>2. \A i \in 1 .. n : i \in 1 .. m
  OBVIOUS
<1>3. Live(C, n, lost, k) = Live(D, m, gone, k)
  <2>1. ASSUME NEW i \in Live(C, n, lost, k) PROVE i \in Live(D, m, gone, k)
    BY Zenon, <1>2 DEF Live
  <2>2. ASSUME NEW i \in Live(D, m, gone, k) PROVE i \in Live(C, n, lost, k)
    BY Zenon, <1>1 DEF Live
  <2> QED BY Zenon, <2>1, <2>2
<1>4. \A i \in Live(C, n, lost, k) : C[i].recs[k] = D[i].recs[k]
  BY Zenon DEF Live
<1> QED BY <1>1, <1>3, <1>4, ValueSame

\* Undoing a commit that does not record the key changes nothing for it.
LEMMA ValueUndone ==
    ASSUME IndexFacts, NEW n \in Nat, NEW C, NEW lost, NEW gone, NEW k,
           \A i \in 1 .. n : (i \in lost <=> i \in gone) \/ C[i].recs[k] = None
    PROVE  Value(C, n, lost, k) = Value(C, n, gone, k)
<1>1. Live(C, n, lost, k) = Live(C, n, gone, k)
  BY Zenon DEF Live
<1> QED BY <1>1, ValueSame

\* A frame of the file stands for the commit its prefix reaches.
LEMMA FrameIdx ==
    ASSUME LogInv, NEW i \in DOMAIN file.frames
    PROVE  /\ i \in 1 .. Len(file.frames) /\ Len(file.frames) \in Nat
           /\ file.frames[i] \in Frames
           /\ file.frames[i].idx = Reach(file.frames, i)
           /\ file.frames[i].idx \in 0 .. Len(commits)
<1> DEFINE F == file.frames
<1>1. F \in Seq(Frames) /\ Len(F) \in Nat /\ Written \in Nat /\ Written <= Len(commits) /\ Len(commits) \in Nat
  BY Zenon, FileFacts, LogFacts
<1>2. i \in 1 .. Len(F) /\ i \in 0 .. Len(F) /\ F[i] \in Frames
  BY <1>1
<1>3. Reach(F, i) \in Nat /\ Reach(F, i) <= Written
  BY <1>2, LogFacts, FileFacts
<1>4. F[i].idx = F[1].idx + i - 1
  BY Zenon DEF LogInv, LogInOrder
<1>5. F[i].idx = Reach(F, i)
  BY <1>1, <1>2, <1>4 DEF Reach
<1> QED BY <1>1, <1>2, <1>3, <1>5

\* Commits are only added.
Kept == /\ Len(commits) <= Len(commits')
        /\ \A i \in 1 .. Len(commits) : commits'[i].recs = commits[i].recs

\* A step that keeps the commits keeps the values their prefixes give.
LEMMA KeptValue ==
    ASSUME IndexFacts, LogInv, Kept, NEW n \in 0 .. Len(commits), NEW lost, NEW k
    PROVE  Value(commits', n, lost, k) = Value(commits, n, lost, k)
<1>1. n \in Nat /\ n \in n .. n + 1 /\ n # n + 1 /\ \A i \in 1 .. n : i \in 1 .. Len(commits)
  <2>1. Len(commits) \in Nat
    BY Zenon, LogFacts
  <2> QED BY <2>1
<1>2. \A i \in 1 .. n : commits[i].recs[k] = commits'[i].recs[k]
  BY Zenon, <1>1 DEF Kept
<1> QED BY <1>1, <1>2, ValuePrefix

\* A file that grows by frames of commits still holds its commits.
LEMMA FileGrows ==
    ASSUME IndexFacts, LogInv, LogInv', FileHolds, Kept, NEW g \in Nat,
           Len(file'.frames) = Len(file.frames) + g,
           \A i \in 1 .. Len(file.frames) : file'.frames[i] = file.frames[i],
           \A i \in 1 .. g :
              LET f == file'.frames[Len(file.frames) + i]
              IN  /\ f.idx \in DOMAIN commits' /\ f.recs = commits'[f.idx].recs
                  /\ f.idx = Written + i
    PROVE  FileHolds'
<1> DEFINE l == Len(file.frames)
           H == file'.frames
<1>1. l \in Nat /\ DOMAIN H = 1 .. l + g /\ DOMAIN file.frames = 1 .. l
  <2>1. file.frames \in Seq(Frames) /\ H \in Seq(Frames)
    BY Zenon DEF LogInv, TypeOK, Files
  <2> QED BY <2>1
<1>2. Len(commits) \in Nat /\ DOMAIN commits = 1 .. Len(commits)
      /\ Len(commits') \in Nat /\ DOMAIN commits' = 1 .. Len(commits') /\ Len(commits) <= Len(commits')
  <2>1. commits \in Seq(Commits) /\ commits' \in Seq(Commits)
    BY Zenon DEF LogInv, TypeOK
  <2> QED BY <2>1 DEF Kept
<1>l. \A j \in 1 .. l : H[j] = file.frames[j]
  BY Zenon
<1>g. \A j \in 1 .. g : LET f == H[l + j]
                       IN  /\ f.idx \in DOMAIN commits' /\ f.recs = commits'[f.idx].recs
                           /\ f.idx = Written + j
  BY Zenon
<1>w. l = 0 => Written = 0
  BY Zenon DEF Written, Reach
<1> HIDE DEF l, H
<1>3. ASSUME NEW i \in DOMAIN H
      PROVE  LET f == H[i] IN
        \/ f.idx \in DOMAIN commits' /\ f.recs = commits'[f.idx].recs /\ (i = 1 => f.idx = 1)
        \/ i = 1 /\ f.recs \in Images /\ \A k \in Keys : f.recs[k] = Value(commits', f.idx, {}, k)
  <2>1. CASE i \in 1 .. l
    <3>1. H[i] = file.frames[i] /\ i \in DOMAIN file.frames
      BY Zenon, <1>1, <1>l, <2>1
    <3>2. file.frames[i].idx \in 0 .. Len(commits)
      BY Zenon, <3>1, FrameIdx
    <3>3. CASE /\ H[i].idx \in DOMAIN commits /\ H[i].recs = commits[H[i].idx].recs
               /\ i = 1 => H[i].idx = 1
      BY <1>2, <3>3 DEF Kept
    <3>4. CASE i = 1 /\ H[i].recs \in Images /\ \A k \in Keys : H[i].recs[k] = Value(commits, H[i].idx, {}, k)
      BY <3>1, <3>2, <3>4, KeptValue
    <3> QED BY Zenon, <3>1, <3>3, <3>4 DEF FileHolds
  <2>2. CASE i \notin 1 .. l
    <3>1. i - l \in 1 .. g /\ l + (i - l) = i
      BY <1>1, <2>2
    <3>2. H[i].idx \in DOMAIN commits' /\ H[i].recs = commits'[H[i].idx].recs
      BY Zenon, <1>g, <3>1
    <3>3. i = 1 => H[i].idx = 1
      <4>1. ASSUME i = 1 PROVE H[i].idx = 1
        <5>1. l = 0 /\ i - l = 1
          BY <1>1, <2>2, <4>1
        <5>2. Written = 0 /\ H[i].idx = Written + 1
          BY ZenonT(40), <1>g, <1>w, <3>1, <5>1
        <5> QED BY <5>2
      <4> QED BY <4>1
    <3> QED BY Zenon, <3>2, <3>3
  <2> QED BY <2>1, <2>2
<1> QED BY Zenon, <1>3 DEF FileHolds, H

\* A step that leaves memory, commits and what clients write as they were.
LEMMA StillContent ==
    ASSUME LogInv, ContentInv, UNCHANGED <<mem, commits, undone>>, failed => failed',
           \A c \in Clients :
              /\ client'[c].keys = client[c].keys /\ client'[c].kind = client[c].kind
              /\ client'[c].w = client[c].w /\ client'[c].idx = client[c].idx
              /\ client'[c].left = client[c].left /\ client'[c].before = client[c].before
              /\ Busy(c)' = Busy(c)
              /\ client[c].left # {} /\ Busy(c) => client'[c].pc = client[c].pc
    PROVE  CommitsOwned' /\ MemoryExplained' /\ Kept
<1>1. \A c \in Clients : Records(c)' = Records(c)
  BY Zenon DEF Records
<1>2. CommitsOwned'
  BY <1>1 DEF ContentInv, CommitsOwned
<1>3. MemoryExplained'
  <2>1. ASSUME NEW k \in Keys, \A c \in Clients : Busy(c)' => k \notin client'[c].keys
        PROVE  mem[k] = Value(commits, Len(commits), undone, k)
    BY Zenon, <2>1 DEF ContentInv, MemoryExplained
  <2>2. ASSUME NEW c \in Clients, Busy(c)'
        PROVE  /\ client'[c].left # {} => client'[c].pc = "apply" /\ client'[c].kind \in {"batch", "exec"}
               /\ \A k \in client'[c].keys :
                    Explained(mem', client'[c], k,
                              Value(commits', Len(commits'), undone' \cup {client'[c].idx}, k))
    <3>1. Busy(c)
      BY <2>2
    <3>2. /\ client[c].left # {} => client[c].pc = "apply" /\ client[c].kind \in {"batch", "exec"}
          /\ \A k \in client[c].keys :
               Explained(mem, client[c], k,
                         Value(commits, Len(commits), undone \cup {client[c].idx}, k))
      BY Zenon, <3>1 DEF ContentInv, MemoryExplained
    <3>3. /\ client'[c].keys = client[c].keys /\ client'[c].kind = client[c].kind
          /\ client'[c].w = client[c].w /\ client'[c].idx = client[c].idx
          /\ client'[c].left = client[c].left /\ client'[c].before = client[c].before
          /\ client[c].left # {} => client'[c].pc = client[c].pc
      BY <3>1
    <3>4. \A k, was : Explained(mem, client[c], k, was) <=> Explained(mem, client'[c], k, was)
      BY Zenon, <3>3 DEF Explained
    <3> QED BY Zenon, <3>2, <3>3, <3>4
  <2> QED BY Zenon, <2>1, <2>2 DEF MemoryExplained
<1>4. Kept
  BY LogFacts DEF Kept
<1> QED BY <1>2, <1>3, <1>4

\* Deployments whose snapshots never get ahead of the AOF: none are written, or
\* the log is always synced before memory changes.
SnapshotsFollow ==
    \A d \in Deployments :
        \/ d.saves = {}
        \/ /\ d.policy = "always" /\ d.policies \subseteq {"always"}
           /\ d.kinds \subseteq {"fast", "set"} /\ ~d.writesFail

\* Where snapshots are written, the policy is "always" and no write fails.
LEMMA Following ==
    ASSUME SnapshotsFollow, TypeOK, Saves # {}
    PROVE  /\ Policy0 = "always" /\ Policies \subseteq {"always"}
           /\ Kinds \subseteq {"fast", "set"} /\ ~WritesFail
BY Zenon DEF SnapshotsFollow, TypeOK, Saves, Policy0, Policies, Kinds, WritesFail

\* What the step of one write needs for the snapshots.
LEMMA WriterSnapshots ==
    ASSUME LogInv, ContentInv, conf' = conf, UNCHANGED <<policy, failed, file, snap, save, saveDue>>,
           Saves # {} =>
              /\ \A d \in Clients : Busy(d)' =>
                    /\ client'[d].kind \in {"fast", "set"}
                    /\ client'[d].pc = "finish" => client'[d].sync
              /\ \A k \in Keys : mem'[k] # mem[k] => Touched(k)
    PROVE  SnapshotsCovered'
<1>1. Saves' = Saves
  BY Zenon DEF Saves
<1>2. CASE Saves = {}
  BY Zenon, <1>1, <1>2 DEF ContentInv, SnapshotsCovered
<1>3. CASE Saves # {}
  <2>1. /\ policy = "always" /\ ~failed /\ file.synced = Len(file.frames)
        /\ \A k \in Keys : mem[k] # 0 \/ snap[k] # 0 \/ save.img[k] # 0 => Touched(k)
    BY Zenon, <1>3 DEF ContentInv, SnapshotsCovered
  <2>2. \A k \in Keys : mem'[k] # 0 \/ snap'[k] # 0 \/ save'.img[k] # 0 => Touched(k)'
    BY Zenon, <1>3, <2>1 DEF Touched
  <2> QED BY Zenon, <1>1, <1>3, <2>1, <2>2 DEF SnapshotsCovered
<1> QED BY Zenon, <1>2, <1>3

\* A rewrite that buffers the next frame, or none, still holds its commits.
LEMMA RewriteKept ==
    ASSUME IndexFacts, LogInv, RewriteHolds, Kept, failed => failed', NEW f,
           \/ rewrite' = rewrite
           \/ /\ rewrite' = Buffered(rewrite, f)
              /\ RewriteActive /\ ~failed' =>
                    /\ f \in Frames /\ f.idx = rewrite.idx + Len(rewrite.buffer) + 1
                    /\ f.recs = commits'[f.idx].recs
    PROVE  RewriteHolds'
<1> SUFFICES ASSUME RewriteActive', ~failed' PROVE
        /\ \A k \in Keys : rewrite'.img[k] = Value(commits', rewrite'.idx, {}, k)
        /\ \A i \in DOMAIN rewrite'.buffer : rewrite'.buffer[i].recs = commits'[rewrite'.idx + i].recs
  BY Zenon DEF RewriteHolds
<1> DEFINE b == rewrite.buffer
<1>1. RewriteActive /\ ~failed /\ rewrite \in Rewrites
  <2>1. rewrite \in Rewrites
    BY Zenon DEF LogInv, TypeOK
  <2>2. rewrite'.phase = rewrite.phase
    BY Zenon, <2>1 DEF Buffered, Rewrites
  <2> QED BY Zenon, <2>1, <2>2 DEF RewriteActive
<1>2. /\ rewrite.idx \in Nat /\ b \in Seq(Frames) /\ Len(b) \in Nat /\ DOMAIN b = 1 .. Len(b)
      /\ Len(commits) \in Nat /\ Unbuffered \in {0, 1}
      /\ rewrite.idx + Len(b) + Unbuffered = Len(commits)
      /\ \A i \in DOMAIN b : b[i].idx = rewrite.idx + i
  <2>1. rewrite.idx \in Nat /\ b \in Seq(Frames) /\ Len(commits) \in Nat /\ Len(b) \in Nat
    BY Zenon, RewriteFacts, LogFacts
  <2>2. /\ rewrite.idx + Len(b) + Unbuffered = Len(commits)
        /\ \A i \in DOMAIN b : b[i].idx = rewrite.idx + i
    BY Zenon, <1>1 DEF LogInv, RewriteInOrder
  <2>3. Unbuffered \in {0, 1}
    BY Zenon DEF Unbuffered
  <2>4. DOMAIN b = 1 .. Len(b)
    BY <2>1
  <2> QED BY Zenon, <2>1, <2>2, <2>3, <2>4
<1>3. rewrite.idx \in 0 .. Len(commits) /\ \A i \in 1 .. Len(b) : rewrite.idx + i \in 1 .. Len(commits)
  BY <1>2
<1>4. /\ \A k \in Keys : rewrite.img[k] = Value(commits', rewrite.idx, {}, k)
      /\ \A i \in 1 .. Len(b) : b[i].recs = commits'[rewrite.idx + i].recs
  <2>1. ASSUME NEW k \in Keys PROVE rewrite.img[k] = Value(commits', rewrite.idx, {}, k)
    BY <1>1, <1>3, KeptValue DEF RewriteHolds
  <2>2. ASSUME NEW i \in 1 .. Len(b) PROVE b[i].recs = commits'[rewrite.idx + i].recs
    <3>1. b[i].recs = commits[rewrite.idx + i].recs
      BY Zenon, <1>1, <1>2 DEF RewriteHolds
    <3> QED BY Zenon, <1>3, <3>1 DEF Kept
  <2> QED BY <2>1, <2>2
<1>5. CASE rewrite' = rewrite
  BY Zenon, <1>2, <1>4, <1>5
<1>6. CASE rewrite' # rewrite
  <2>1. /\ rewrite' = Buffered(rewrite, f) /\ f \in Frames /\ f.idx = rewrite.idx + Len(b) + 1
        /\ f.recs = commits'[f.idx].recs
    BY <1>1, <1>6
  <2>2. rewrite.phase \in {"temp", "install"}
    BY Zenon, <1>1 DEF RewriteActive
  <2>3. /\ rewrite'.idx = rewrite.idx /\ rewrite'.img = rewrite.img
        /\ DOMAIN rewrite'.buffer = 1 .. Len(b) + 1
        /\ \A i \in 1 .. Len(b) : rewrite'.buffer[i] = b[i]
        /\ rewrite'.buffer[Len(b) + 1] = f
    BY Zenon, <1>1, <1>2, <2>1, <2>2, BufferGrows
  <2>4. ASSUME NEW i \in 1 .. Len(b) + 1
        PROVE  rewrite'.buffer[i].recs = commits'[rewrite.idx + i].recs
    <3>1. CASE i = Len(b) + 1
      <4>1. rewrite.idx + i = f.idx
        BY <1>2, <2>1, <3>1
      <4> QED BY Zenon, <2>1, <2>3, <3>1, <4>1
    <3>2. CASE i # Len(b) + 1
      <4>1. i \in 1 .. Len(b)
        BY <1>2, <3>2
      <4> QED BY Zenon, <1>4, <2>3, <4>1
    <3> QED BY <3>1, <3>2
  <2> QED BY Zenon, <1>4, <2>3, <2>4
<1> QED BY Zenon, <1>5, <1>6

\* A step of the sync loop's ticker, of CONFIG SET or of a job.
LEMMA CalmContent ==
    ASSUME IndexFacts, LogInv, LogInv', ContentInv, UNCHANGED <<mem, client, queue, commits, undone>>,
           failed => failed'
    PROVE  /\ QueueHolds' /\ CommitsOwned' /\ MemoryExplained' /\ Kept
           /\ file'.frames = file.frames => FileHolds'
           /\ rewrite' = rewrite => RewriteHolds'
<1>1. \A c \in Clients : Busy(c)' = Busy(c)
  BY Zenon DEF Busy
<1>2. CommitsOwned' /\ MemoryExplained' /\ Kept
  BY <1>1, StillContent
<1>3. QueueHolds'
  BY Zenon DEF ContentInv, QueueHolds
<1>4. file'.frames = file.frames => FileHolds'
  BY Zenon DEF ContentInv, FileHolds
<1>5. rewrite' = rewrite => RewriteHolds'
  BY Zenon, <1>2, RewriteKept DEF ContentInv
<1> QED BY Zenon, <1>2, <1>3, <1>4, <1>5
=============================================================================
