---------------------------- MODULE FailoverVote ----------------------------
(***************************************************************************)
(* Elections of the quorum failover: the vote register of every group      *)
(* member (failoverTerm, failoverVotedFor), its durable sidecar file, and  *)
(* the election rounds of the maintenance thread.                          *)
(*                                                                         *)
(* Two threads of one node touch its vote register.  RPC handlers run      *)
(* under durableMu, so a node answers one vote request at a time; the      *)
(* maintenance thread votes for its own node without that lock.  Both      *)
(* update the register under failoverVoteMu and write the sidecar after    *)
(* releasing it, so the two writes of one node can land in either order.   *)
(***************************************************************************)
EXTENDS Integers, FiniteSets

CONSTANTS
    Nodes,        \* the members of the failover group (naturals)
    Quorum,       \* failover_quorum
    Priority,     \* failover_priority of each node; 0 is never a candidate
    Crashers,     \* the nodes that may crash and restart
    None,         \* the empty run ID
    MaxTerm,      \* bound: election terms
    MaxOffset,    \* bound: replication offsets
    MaxRestarts   \* bound: restarts of one node

Candidates == {n \in Nodes : Priority[n] > 0}

\* config.go accepts a quorum only from the majority of the group upwards.
ASSUME GroupAssumption ==
    /\ Nodes \subseteq Nat
    /\ IsFiniteSet(Nodes)
    /\ Quorum \in Nat
    /\ 2 * Quorum > Cardinality(Nodes)
    /\ Priority \in [Nodes -> Nat]
    /\ Crashers \subseteq Nodes
    /\ MaxTerm \in Nat /\ MaxOffset \in Nat /\ MaxRestarts \in Nat

\* A run ID is drawn afresh by every process start of a node.
Ids == Nodes \X Nat

\* What a vote request does to the register: the values after it, whether
\* they differ from those before, and whether the vote is granted.
Ballots == [cand : Ids, term : Nat, vote : Ids \cup {None},
            changed : BOOLEAN, grant : BOOLEAN]

ASSUME NoneAssumption ==
    None \notin Ids /\ None \notin Nodes /\ None \notin Ballots

VARIABLES
    inc,               \* process starts so far: the node's run ID is Id(n)
    offset,            \* replication offset processed by each node
    failoverTerm,      \* vote register, in memory
    failoverVotedFor,
    disk,              \* the .failover sidecar file
    handler,           \* the vote request an RPC handler is serving, or None
    round,             \* the election round of the maintenance thread
    granted,           \* history: <<voter, term, candidate>> of votes returned
    winners            \* history: <<term, candidate>> of elections won

vars == <<inc, offset, failoverTerm, failoverVotedFor, disk, handler,
          round, granted, winners>>

Id(n) == <<n, inc[n]>>

Rounds == [pc : {"idle", "elect", "save", "ask", "wait", "won"},
           term : Nat, offset : Nat, todo : SUBSET Nodes,
           votes : SUBSET Nodes, peer : Nodes \cup {None},
           ballot : Ballots \cup {None}]

NoRound == [pc |-> "idle", term |-> 0, offset |-> 0, todo |-> {},
            votes |-> {}, peer |-> None, ballot |-> None]

TypeOK ==
    /\ inc \in [Nodes -> Nat]
    /\ offset \in [Nodes -> Nat]
    /\ failoverTerm \in [Nodes -> Nat]
    /\ failoverVotedFor \in [Nodes -> Ids \cup {None}]
    /\ disk \in [Nodes -> [term : Nat, vote : Ids \cup {None}]]
    /\ handler \in [Nodes -> Ballots \cup {None}]
    /\ round \in [Nodes -> Rounds]
    /\ granted \in SUBSET (Nodes \X Nat \X Ids)
    /\ winners \in SUBSET (Nat \X Ids)

Init ==
    /\ inc = [n \in Nodes |-> 0]
    /\ offset = [n \in Nodes |-> 0]
    /\ failoverTerm = [n \in Nodes |-> 0]
    /\ failoverVotedFor = [n \in Nodes |-> None]
    /\ disk = [n \in Nodes |-> [term |-> 0, vote |-> None]]
    /\ handler = [n \in Nodes |-> None]
    /\ round = [n \in Nodes |-> NoRound]
    /\ granted = {}
    /\ winners = {}

(* ------------------------- the replication link ------------------------- *)

\* A replica with a working link applies the next frame of the stream.
Advance(n) ==
    /\ offset[n] < MaxOffset
    /\ offset' = [offset EXCEPT ![n] = @ + 1]
    /\ UNCHANGED <<inc, failoverTerm, failoverVotedFor, disk, handler,
                   round, granted, winners>>

(* ------------------------- the vote register ---------------------------- *)

\* Mutant: an earlier vote of the term does not stop a new one.
BallotAlways(v, t, c, off, sees) ==
    LET grant == sees /\ Priority[c[1]] > 0 /\ off >= offset[v]
    IN  [cand |-> c, term |-> t, grant |-> grant,
         vote |-> IF grant THEN c ELSE failoverVotedFor[v], changed |-> TRUE]

\* A request of term t not below the register's term.  Whether v is at that
\* moment a replica of the failed lineage that has seen its link down for the
\* timeout (sees) is up to the replication side: links fail and recover at
\* any time, with the primary alive or not.
Ballot(v, t, c, off, sees) ==
    LET prior == IF t > failoverTerm[v] THEN None ELSE failoverVotedFor[v]
        grant == /\ sees
                 /\ Priority[c[1]] > 0
                 /\ off >= offset[v]
                 /\ prior \in {None, c}
        vote  == IF grant THEN c ELSE prior
    IN  [cand |-> c, term |-> t, vote |-> vote, grant |-> grant,
         changed |-> t > failoverTerm[v] \/ vote # prior]

\* The part of the request under failoverVoteMu.
Register(v, b) ==
    /\ failoverTerm' = [failoverTerm EXCEPT ![v] = b.term]
    /\ failoverVotedFor' = [failoverVotedFor EXCEPT ![v] = b.vote]

\* Mutant: the vote is returned without being written.
PersistNothing(v, b) == disk' = disk

\* The part after it: the sidecar is rewritten when the register changed.
Persist(v, b) ==
    disk' = IF b.changed
            THEN [disk EXCEPT ![v] = [term |-> b.term, vote |-> b.vote]]
            ELSE disk

Return(v, b) ==
    granted' = IF b.grant THEN granted \cup {<<v, b.term, b.cand>>} ELSE granted

(* --------------------------- election rounds ---------------------------- *)

\* Ranking of candidates: offset, then priority, then run ID.
Better(a, b) ==
    \/ offset[a] > offset[b]
    \/ offset[a] = offset[b] /\ Priority[a] < Priority[b]
    \/ offset[a] = offset[b] /\ Priority[a] = Priority[b] /\ a < b

\* Of the nodes observed a quorum sees the primary down, and n is the best of
\* those that may be promoted.
ElectionPicks(n, seen, down) ==
    /\ Cardinality(down) >= Quorum
    /\ Priority[n] > 0
    /\ \A m \in seen \ {n} : Priority[m] > 0 => Better(n, m)

\* The term of a new round: one above every term observed.
NextTerm(t, seen) ==
    /\ \A m \in seen : failoverTerm[m] < t
    /\ \E m \in seen : failoverTerm[m] = t - 1

\* n reads the state of the peers that answer and decides to campaign.
Collect(n) ==
    /\ round[n].pc = "idle"
    /\ \E peers \in SUBSET (Nodes \ {n}), t \in 1..MaxTerm :
         /\ \E down \in SUBSET (peers \cup {n}) :
               n \in down /\ ElectionPicks(n, peers \cup {n}, down)
         /\ NextTerm(t, peers \cup {n})
         /\ round' = [round EXCEPT ![n] =
               [NoRound EXCEPT !.pc = "elect", !.term = t,
                               !.offset = offset[n], !.todo = peers]]
    /\ UNCHANGED <<inc, offset, failoverTerm, failoverVotedFor, disk, handler,
                   granted, winners>>

\* The maintenance thread requests its own node's vote ...
SelfVote(n) ==
    /\ round[n].pc = "elect"
    /\ IF round[n].term < failoverTerm[n]
       THEN /\ round' = [round EXCEPT ![n] = NoRound]
            /\ UNCHANGED <<failoverTerm, failoverVotedFor>>
       ELSE \E sees \in BOOLEAN :
            LET b == Ballot(n, round[n].term, Id(n), round[n].offset, sees)
            IN  /\ Register(n, b)
                /\ round' = [round EXCEPT ![n].pc = "save", ![n].ballot = b]
    /\ UNCHANGED <<inc, offset, disk, handler, granted, winners>>

\* ... and writes the sidecar, or fails to and gives the round up.
SelfSave(n) ==
    /\ round[n].pc = "save"
    /\ LET b == round[n].ballot IN
         \/ /\ Persist(n, b)
            /\ Return(n, b)
            /\ round' = [round EXCEPT ![n].pc = "ask", ![n].ballot = None,
                                      ![n].votes = IF b.grant THEN {n} ELSE {}]
         \/ /\ b.changed
            /\ round' = [round EXCEPT ![n] = NoRound]
            /\ UNCHANGED <<disk, granted>>
    /\ UNCHANGED <<inc, offset, failoverTerm, failoverVotedFor, handler,
                   winners>>

\* Peers are asked in the order of the membership list.
NextPeer(n, p) ==
    /\ p \in round[n].todo
    /\ \A q \in round[n].todo : p <= q

\* The request reaches peer p.  A stale term is answered with the newer one,
\* which ends the round.
AskVote(n, p) ==
    /\ round[n].pc = "ask"
    /\ NextPeer(n, p)
    /\ handler[p] = None
    /\ IF round[n].term < failoverTerm[p]
       THEN /\ round' = [round EXCEPT ![n] = NoRound]
            /\ UNCHANGED <<failoverTerm, failoverVotedFor, handler>>
       ELSE \E sees \in BOOLEAN :
            LET b == Ballot(p, round[n].term, Id(n), round[n].offset, sees)
            IN  /\ Register(p, b)
                /\ handler' = [handler EXCEPT ![p] = b]
                /\ round' = [round EXCEPT ![n].pc = "wait", ![n].peer = p,
                                          ![n].todo = @ \ {p}]
    /\ UNCHANGED <<inc, offset, disk, granted, winners>>

\* The request is lost: the next peer is asked.
LoseVote(n, p) ==
    /\ round[n].pc = "ask"
    /\ NextPeer(n, p)
    /\ round' = [round EXCEPT ![n].todo = @ \ {p}]
    /\ UNCHANGED <<inc, offset, failoverTerm, failoverVotedFor, disk,
                   handler, granted, winners>>

\* The call times out while the peer's handler may still be at work.
GiveUp(n) ==
    /\ round[n].pc = "wait"
    /\ round' = [round EXCEPT ![n].pc = "ask", ![n].peer = None]
    /\ UNCHANGED <<inc, offset, failoverTerm, failoverVotedFor, disk,
                   handler, granted, winners>>

\* n still waits for the answer of p to the request b.
Awaits(n, p, b) ==
    /\ round[n].pc = "wait"
    /\ round[n].peer = p
    /\ round[n].term = b.term
    /\ Id(n) = b.cand

\* Mutant: one vote less than the quorum wins.
CountedShort(r, p, grant) ==
    LET votes == IF grant THEN r.votes \cup {p} ELSE r.votes
    IN  [r EXCEPT !.votes = votes, !.peer = None,
                  !.pc = IF Cardinality(votes) + 1 >= Quorum THEN "won" ELSE "ask"]

\* Mutant: the call is cleared before its vote is counted.
CountedCleared(r, p, grant) ==
    [r EXCEPT !.votes = IF grant THEN @ \cup {None} ELSE @, !.peer = None,
              !.pc = "ask"]

Counted(r, p, grant) ==
    LET votes == IF grant THEN r.votes \cup {p} ELSE r.votes
    IN  [r EXCEPT !.votes = votes, !.peer = None,
                  !.pc = IF Cardinality(votes) >= Quorum THEN "won" ELSE "ask"]

\* The handler of p writes its sidecar and answers; a caller that has given
\* up does not see the answer.
Answer(p) ==
    /\ handler[p] # None
    /\ LET b == handler[p]
           n == b.cand[1]
       IN  /\ Persist(p, b)
           /\ Return(p, b)
           /\ round' = IF Awaits(n, p, b)
                       THEN [round EXCEPT ![n] = Counted(@, p, b.grant)]
                       ELSE round
    /\ handler' = [handler EXCEPT ![p] = None]
    /\ UNCHANGED <<inc, offset, failoverTerm, failoverVotedFor, winners>>

\* The sidecar write fails: the register keeps the vote, the caller gets an
\* error and asks the next peer.
AnswerFails(p) ==
    /\ handler[p] # None
    /\ handler[p].changed
    /\ LET b == handler[p]
           n == b.cand[1]
       IN  round' = IF Awaits(n, p, b)
                    THEN [round EXCEPT ![n].pc = "ask", ![n].peer = None]
                    ELSE round
    /\ handler' = [handler EXCEPT ![p] = None]
    /\ UNCHANGED <<inc, offset, failoverTerm, failoverVotedFor, disk,
                   granted, winners>>

\* All peers asked without a quorum.
Lose(n) ==
    /\ round[n].pc = "ask"
    /\ round[n].todo = {}
    /\ round' = [round EXCEPT ![n] = NoRound]
    /\ UNCHANGED <<inc, offset, failoverTerm, failoverVotedFor, disk,
                   handler, granted, winners>>

\* The election is won; the lease round and the promotion follow.
Win(n) ==
    /\ round[n].pc = "won"
    /\ winners' = winners \cup {<<round[n].term, Id(n)>>}
    /\ round' = [round EXCEPT ![n] = NoRound]
    /\ UNCHANGED <<inc, offset, failoverTerm, failoverVotedFor, disk,
                   handler, granted>>

(* --------------------------- crash and restart -------------------------- *)

\* The process dies and comes back with a new run ID and the register of the
\* sidecar file; the threads' work is lost.
Restart(n) ==
    /\ n \in Crashers
    /\ inc[n] < MaxRestarts
    /\ inc' = [inc EXCEPT ![n] = @ + 1]
    /\ failoverTerm' = [failoverTerm EXCEPT ![n] = disk[n].term]
    /\ failoverVotedFor' = [failoverVotedFor EXCEPT ![n] = disk[n].vote]
    /\ handler' = [handler EXCEPT ![n] = None]
    /\ round' = [round EXCEPT ![n] = NoRound]
    /\ UNCHANGED <<offset, disk, granted, winners>>

Next ==
    \E n \in Nodes :
        \/ Advance(n)
        \/ Collect(n)
        \/ SelfVote(n)
        \/ SelfSave(n)
        \/ GiveUp(n)
        \/ Answer(n)
        \/ AnswerFails(n)
        \/ Lose(n)
        \/ Win(n)
        \/ Restart(n)
        \/ \E p \in Nodes : AskVote(n, p) \/ LoseVote(n, p)

Spec == Init /\ [][Next]_vars

(* ------------------------------ properties ------------------------------ *)

\* A node never returns votes for two candidates of one term, restarts
\* included (requestFailoverVote, docs/AUTOMATIC-FAILOVER-AUDIT.md "a restart
\* cannot cause a second vote in the same term").
OneVotePerTerm ==
    \A a, b \in granted : a[1] = b[1] /\ a[2] = b[2] => a[3] = b[3]

\* Two candidates never win the same term (runFailoverElectionRound counts a
\* majority of votes that are exclusive per term).
ElectionSafety ==
    \A a, b \in winners : a[1] = b[1] => a[2] = b[2]

(* ------------------------ the inductive invariant ----------------------- *)

\* The nodes that crash are not candidates: the case in which the register's
\* sidecar has one writer.
NoCandidateCrashes == Crashers \cap Candidates = {}

\* A thread about to write the sidecar holds the register values to write.
BallotHeld == \A v \in Nodes : round[v].pc = "save" => round[v].ballot # None

\* A register with term t and vote w cannot grant term u to another than c.
Covers(t, w, u, c) == t > u \/ (t = u /\ w = c)

\* Every vote returned, or about to be, is covered by the register, and for a
\* node that may crash also by its sidecar.
VotesCovered ==
    /\ \A g \in granted :
          Covers(failoverTerm[g[1]], failoverVotedFor[g[1]], g[2], g[3])
    /\ \A v \in Nodes : handler[v] # None /\ handler[v].grant =>
          Covers(failoverTerm[v], failoverVotedFor[v],
                 handler[v].term, handler[v].cand)
    /\ \A v \in Nodes : round[v].pc = "save" =>
          /\ round[v].ballot.term = round[v].term
          /\ round[v].ballot.cand = Id(v)
          /\ round[v].ballot.grant =>
               Covers(failoverTerm[v], failoverVotedFor[v],
                      round[v].ballot.term, round[v].ballot.cand)
    /\ \A g \in granted : g[1] \in Crashers =>
          Covers(disk[g[1]].term, disk[g[1]].vote, g[2], g[3])

\* The votes returned and those granted in the register that are still to be
\* returned, by a handler or by the maintenance thread.
CastVotes ==
    LET serving == {v \in Nodes : handler[v] # None /\ handler[v].grant}
        saving  == {v \in Nodes : round[v].pc = "save" /\ round[v].ballot.grant}
    IN  granted
        \cup {<<v, handler[v].term, handler[v].cand>> : v \in serving}
        \cup {<<v, round[v].ballot.term, round[v].ballot.cand>> : v \in saving}

CastOnce == \A a, b \in CastVotes : a[1] = b[1] /\ a[2] = b[2] => a[3] = b[3]

\* A node that may crash is no candidate, so only its handler writes.
CrashersPassive ==
    \A v \in Nodes :
        /\ round[v].pc # "idle" => Priority[v] > 0
        /\ handler[v] # None =>
             /\ handler[v].grant => handler[v].changed
             /\ v \in Crashers => /\ handler[v].term = failoverTerm[v]
                                  /\ handler[v].vote = failoverVotedFor[v]

\* A candidate asks a peer at most once in a term: a peer it has still to ask
\* voted for it in earlier terms only.
AskedOnce ==
    /\ \A n \in Nodes : n \notin round[n].todo
    /\ \A n \in Candidates, v \in Nodes : v # n =>
         /\ failoverVotedFor[v] = Id(n) =>
              /\ failoverTerm[v] <= failoverTerm[n]
              /\ round[n].pc # "idle" /\ v \in round[n].todo =>
                   failoverTerm[v] < round[n].term
         /\ v \in Crashers /\ disk[v].vote = Id(n) =>
              /\ disk[v].term <= failoverTerm[n]
              /\ round[n].pc # "idle" /\ v \in round[n].todo =>
                   disk[v].term < round[n].term
    /\ \A n \in Nodes : round[n].pc \in {"save", "ask", "wait", "won"} =>
         round[n].term <= failoverTerm[n]

\* The votes a round has counted were returned, and a round is won with a
\* quorum of them.
VotesCounted ==
    /\ \A n \in Nodes : \A v \in round[n].votes :
          <<v, round[n].term, Id(n)>> \in granted
    /\ \A n \in Nodes :
          round[n].pc = "won" => Cardinality(round[n].votes) >= Quorum
    /\ \A w \in winners : \E Q \in SUBSET Nodes :
          /\ Cardinality(Q) >= Quorum
          /\ \A v \in Q : <<v, w[1], w[2]>> \in granted

IInv ==
    /\ TypeOK /\ BallotHeld /\ VotesCovered /\ CastOnce
    /\ CrashersPassive /\ AskedOnce /\ VotesCounted
=============================================================================
