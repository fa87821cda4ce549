------------------------- MODULE FailoverVoteProofs -------------------------
(***************************************************************************)
(* Type correctness of FailoverVote; its votes are exclusive per term and  *)
(* terms have one winner as long as the nodes that crash are no candidates. *)
(* For every group, quorum, priority assignment and bound.  The invariant  *)
(* is IInv: the register, and for a node that crashes its sidecar, excludes *)
(* a second vote in the term of any vote returned or about to be (one lemma *)
(* per action), and the votes cast are exclusive.                          *)
(***************************************************************************)
EXTENDS FailoverVote, TLAPS

(* -------------------------------- types ---------------------------------- *)

\* What a vote request leaves in the register (requestFailoverVote): the
\* requested term, a vote for the candidate when granted, and nothing that an
\* earlier vote excluded.
LEMMA BallotFacts ==
    ASSUME TypeOK, NEW v \in Nodes, NEW t \in Nat, NEW c \in Ids,
           NEW off \in Nat, NEW sees \in BOOLEAN, failoverTerm[v] <= t
    PROVE  LET b == Ballot(v, t, c, off, sees) IN
           /\ b \in Ballots
           /\ b.term = t
           /\ b.cand = c
           /\ b.grant => b.vote = c
           /\ b.grant => b.changed \/ failoverVotedFor[v] = c
           /\ failoverTerm[v] < t => b.vote \in {c, None} /\ b.changed
           /\ failoverTerm[v] = t =>
                b.vote = failoverVotedFor[v] \/ (failoverVotedFor[v] = None /\ b.vote = c)
           /\ \A u \in Nat : \A x \in Ids :
                Covers(failoverTerm[v], failoverVotedFor[v], u, x) =>
                Covers(b.term, b.vote, u, x)
<1> DEFINE b == Ballot(v, t, c, off, sees)
<1> DEFINE prior == IF t > failoverTerm[v] THEN None ELSE failoverVotedFor[v]
<1> DEFINE grant == sees /\ Priority[c[1]] > 0 /\ off >= offset[v]
                      /\ prior \in {None, c}
<1> DEFINE vote == IF grant THEN c ELSE prior
<1>1. b = [cand |-> c, term |-> t, vote |-> vote, grant |-> grant,
           changed |-> t > failoverTerm[v] \/ vote # prior]
  BY Zenon DEF Ballot
<1>2. failoverTerm[v] \in Nat /\ failoverVotedFor[v] \in Ids \cup {None}
  BY Zenon DEF TypeOK
<1>3. prior \in Ids \cup {None} /\ vote \in Ids \cup {None}
  BY <1>2
<1>4. grant \in BOOLEAN
  OBVIOUS
<1>5. b \in Ballots
  BY <1>1, <1>3, <1>4 DEF Ballots
<1>6. \A u \in Nat : \A x \in Ids :
        Covers(failoverTerm[v], failoverVotedFor[v], u, x) => Covers(t, vote, u, x)
  BY <1>2, NoneAssumption DEF Covers
<1>7. /\ b.term = t /\ b.cand = c /\ b.vote = vote
      /\ b.grant = grant
      /\ b.changed = (t > failoverTerm[v] \/ vote # prior)
  BY <1>1
<1>8. grant => vote = c
  OBVIOUS
<1>9. grant => (t > failoverTerm[v] \/ vote # prior) \/ failoverVotedFor[v] = c
  BY NoneAssumption
<1>10. failoverTerm[v] < t =>
         vote \in {c, None} /\ (t > failoverTerm[v] \/ vote # prior)
  BY <1>2
<1>11. failoverTerm[v] = t =>
         vote = failoverVotedFor[v] \/ (failoverVotedFor[v] = None /\ vote = c)
  BY <1>2
<1> HIDE DEF b, grant, vote, prior
<1>12. /\ b \in Ballots
       /\ b.term = t
       /\ b.cand = c
       /\ b.grant => b.vote = c
       /\ b.grant => b.changed \/ failoverVotedFor[v] = c
       /\ failoverTerm[v] < t => b.vote \in {c, None} /\ b.changed
       /\ failoverTerm[v] = t =>
            b.vote = failoverVotedFor[v] \/ (failoverVotedFor[v] = None /\ b.vote = c)
       /\ \A u \in Nat : \A x \in Ids :
            Covers(failoverTerm[v], failoverVotedFor[v], u, x) =>
            Covers(b.term, b.vote, u, x)
  BY Zenon, <1>5, <1>6, <1>7, <1>8, <1>9, <1>10, <1>11
<1> QED BY Zenon, <1>12 DEF b

\* The parts of a candidate's state.
LEMMA RoundTypes ==
    ASSUME TypeOK, NEW n \in Nodes
    PROVE  /\ round[n] \in Rounds
           /\ round[n].term \in Nat /\ round[n].offset \in Nat
           /\ round[n].todo \in SUBSET Nodes /\ round[n].votes \in SUBSET Nodes
           /\ Id(n) \in Ids
           /\ offset[n] \in Nat /\ inc[n] \in Nat
           /\ failoverTerm[n] \in Nat
           /\ failoverVotedFor[n] \in Ids \cup {None}
           /\ disk[n].term \in Nat /\ disk[n].vote \in Ids \cup {None}
BY Zenon DEF TypeOK, Rounds, Ids, Id

\* No round in progress is a round.
LEMMA IdleRound == NoRound \in Rounds
BY Zenon DEF NoRound, Rounds

\* No answer is not a ballot.
LEMMA NotABallot == None \notin Ballots
BY NoneAssumption

\* The updates of a round that the actions make.
LEMMA RoundSteps ==
    ASSUME NEW r \in Rounds, NEW b \in Ballots, NEW p \in Nodes
    PROVE  /\ [r EXCEPT !.pc = "save", !.ballot = b] \in Rounds
           /\ [r EXCEPT !.pc = "wait", !.peer = p, !.todo = @ \ {p}] \in Rounds
BY Zenon DEF Rounds

\* A round that has asked a peer is a round.
LEMMA RoundAsked ==
    ASSUME NEW r \in Rounds, NEW p \in Nodes
    PROVE  [r EXCEPT !.todo = @ \ {p}] \in Rounds
BY Zenon DEF Rounds

\* A round that gives up a peer is a round.
LEMMA RoundGivenUp ==
    ASSUME NEW r \in Rounds
    PROVE  [r EXCEPT !.pc = "ask", !.peer = None] \in Rounds
BY Zenon DEF Rounds

\* A round that counts an answer: won only with a quorum.
LEMMA CountedRound ==
    ASSUME NEW r \in Rounds, NEW p \in Nodes, NEW g \in BOOLEAN
    PROVE  /\ Counted(r, p, g) \in Rounds
           /\ Counted(r, p, g).pc \in {"won", "ask"}
           /\ Counted(r, p, g).term = r.term
           /\ Counted(r, p, g).todo = r.todo
           /\ Counted(r, p, g).votes = IF g THEN r.votes \cup {p} ELSE r.votes
           /\ Counted(r, p, g).pc = "won" =>
                 Cardinality(Counted(r, p, g).votes) >= Quorum
BY Zenon DEF Counted, Rounds

\* The first state is well typed.
LEMMA TypeInit == Init => TypeOK
BY IdleRound DEF Init, TypeOK

\* Every action of the election keeps the state well typed.
LEMMA TypeStep == TypeOK /\ BallotHeld /\ [Next]_vars => TypeOK' /\ BallotHeld'
<1> SUFFICES ASSUME TypeOK, BallotHeld, [Next]_vars
             PROVE  TypeOK' /\ BallotHeld'
  OBVIOUS
<1> USE DEF BallotHeld
<1>1. ASSUME NEW n \in Nodes, Advance(n) PROVE TypeOK' /\ BallotHeld'
  BY <1>1 DEF TypeOK, Advance
<1>2. ASSUME NEW n \in Nodes, Collect(n) PROVE TypeOK' /\ BallotHeld'
  <2>1. PICK peers \in SUBSET (Nodes \ {n}), t \in 1..MaxTerm :
          round' = [round EXCEPT ![n] =
               [NoRound EXCEPT !.pc = "elect", !.term = t,
                               !.offset = offset[n], !.todo = peers]]
    BY Zenon, <1>2 DEF Collect
  <2> DEFINE r == [NoRound EXCEPT !.pc = "elect", !.term = t,
                                  !.offset = offset[n], !.todo = peers]
  <2>2. r \in Rounds /\ r.pc = "elect"
    <3>1. t \in Nat /\ offset[n] \in Nat /\ peers \in SUBSET Nodes
      BY GroupAssumption DEF TypeOK
    <3> QED BY Zenon, <3>1 DEF NoRound, Rounds
  <2> HIDE DEF r
  <2>3. round' \in [Nodes -> Rounds] /\ BallotHeld'
    BY Zenon, <2>1, <2>2 DEF TypeOK, r
  <2> QED BY Zenon, <1>2, <2>3 DEF TypeOK, Collect
<1>3. ASSUME NEW n \in Nodes, SelfVote(n) PROVE TypeOK' /\ BallotHeld'
  <2>1. CASE round[n].term < failoverTerm[n]
    <3>1. round' = [round EXCEPT ![n] = NoRound]
      BY Zenon, <1>3, <2>1 DEF SelfVote
    <3>2. round' \in [Nodes -> Rounds] /\ BallotHeld'
      BY Zenon, <3>1, IdleRound DEF TypeOK, NoRound
    <3> QED BY Zenon, <1>3, <2>1, <3>2 DEF TypeOK, SelfVote
  <2>2. CASE ~(round[n].term < failoverTerm[n])
    <3>1. PICK sees \in BOOLEAN :
            LET b == Ballot(n, round[n].term, Id(n), round[n].offset, sees)
            IN  /\ Register(n, b)
                /\ round' = [round EXCEPT ![n].pc = "save", ![n].ballot = b]
      BY Zenon, <1>3, <2>2 DEF SelfVote
    <3> DEFINE b == Ballot(n, round[n].term, Id(n), round[n].offset, sees)
    <3>2. b \in Ballots /\ b.term \in Nat /\ b.vote \in Ids \cup {None}
      BY <2>2, RoundTypes, BallotFacts DEF Ballots
    <3> HIDE DEF b
    <3>3. /\ failoverTerm' \in [Nodes -> Nat]
          /\ failoverVotedFor' \in [Nodes -> Ids \cup {None}]
      BY Zenon, <3>1, <3>2 DEF Register, TypeOK, b
    <3>4. [round[n] EXCEPT !.pc = "save", !.ballot = b] \in Rounds
      BY Zenon, <3>2, RoundSteps DEF TypeOK
    <3>5. round' = [round EXCEPT ![n] =
                       [round[n] EXCEPT !.pc = "save", !.ballot = b]]
      BY Zenon, <3>1 DEF b, TypeOK
    <3>6. round' \in [Nodes -> Rounds]
      BY Zenon, <3>4, <3>5 DEF TypeOK
    <3>7. BallotHeld'
      BY <3>2, <3>5, NotABallot DEF TypeOK, Rounds
    <3> QED BY Zenon, <1>3, <3>3, <3>6, <3>7 DEF TypeOK, SelfVote
  <2> QED BY <2>1, <2>2
<1>4. ASSUME NEW n \in Nodes, SelfSave(n) PROVE TypeOK' /\ BallotHeld'
  <2>1. round[n].ballot \in Ballots
    BY Zenon, <1>4 DEF TypeOK, Rounds, SelfSave
  <2>2. disk' \in [Nodes -> [term : Nat, vote : Ids \cup {None}]]
    BY <1>4, <2>1 DEF SelfSave, Persist, TypeOK, Ballots
  <2>3. granted' \in SUBSET (Nodes \X Nat \X Ids)
    BY <1>4, <2>1 DEF SelfSave, Return, TypeOK, Ballots
  <2>4. round' \in [Nodes -> Rounds]
    BY <1>4, IdleRound DEF SelfSave, TypeOK, Rounds
  <2>5. BallotHeld'
    <3>1. round[n] \in Rounds
      BY Zenon DEF TypeOK
    <3>2. round'[n].pc \in {"ask", "idle"}
      BY <1>4, <3>1 DEF SelfSave, Rounds, NoRound, TypeOK
    <3>3. \A v \in Nodes \ {n} : round'[v] = round[v]
      BY Zenon, <1>4 DEF SelfSave, TypeOK
    <3> QED BY <3>2, <3>3
  <2> QED BY Zenon, <1>4, <2>2, <2>3, <2>4, <2>5 DEF TypeOK, SelfSave
<1>5. ASSUME NEW n \in Nodes, GiveUp(n) PROVE TypeOK' /\ BallotHeld'
  <2>1. round' = [round EXCEPT ![n] = [round[n] EXCEPT !.pc = "ask", !.peer = None]]
    BY Zenon, <1>5 DEF GiveUp, TypeOK
  <2>2. round' \in [Nodes -> Rounds]
    BY Zenon, <2>1, RoundGivenUp DEF TypeOK
  <2>3. BallotHeld'
    BY Zenon, <2>1 DEF TypeOK, Rounds
  <2> QED BY Zenon, <1>5, <2>2, <2>3 DEF TypeOK, GiveUp
<1>6. ASSUME NEW p \in Nodes, Answer(p) PROVE TypeOK' /\ BallotHeld'
  <2> DEFINE b == handler[p]
             n == b.cand[1]
  <2>1. b \in Ballots /\ n \in Nodes
    BY Zenon, <1>6 DEF Answer, TypeOK, Ballots, Ids
  <2>2. disk' \in [Nodes -> [term : Nat, vote : Ids \cup {None}]]
    BY Zenon, <1>6, <2>1 DEF Answer, Persist, TypeOK, Ballots
  <2>3. granted' \in SUBSET (Nodes \X Nat \X Ids)
    BY <1>6, <2>1 DEF Answer, Return, TypeOK, Ballots
  <2>4. /\ Counted(round[n], p, b.grant) \in Rounds
        /\ Counted(round[n], p, b.grant).pc # "save"
    <3>1. round[n] \in Rounds /\ b.grant \in BOOLEAN
      BY Zenon, <2>1 DEF TypeOK, Ballots
    <3> QED BY Zenon, <3>1, CountedRound
  <2>5. round' = round \/ round' = [round EXCEPT ![n] = Counted(round[n], p, b.grant)]
    BY Zenon, <1>6 DEF Answer
  <2> HIDE DEF n
  <2>6. round' \in [Nodes -> Rounds] /\ BallotHeld'
    BY ZenonT(40), <2>1, <2>4, <2>5 DEF TypeOK
  <2> QED BY Zenon, <1>6, <2>2, <2>3, <2>6 DEF TypeOK, Answer
<1>7. ASSUME NEW p \in Nodes, AnswerFails(p) PROVE TypeOK' /\ BallotHeld'
  <2> DEFINE n == handler[p].cand[1]
  <2>1. n \in Nodes
    BY Zenon, <1>7 DEF AnswerFails, TypeOK, Ballots, Ids
  <2>2. \/ round' = round
        \/ round' = [round EXCEPT ![n] = [round[n] EXCEPT !.pc = "ask", !.peer = None]]
    BY Zenon, <1>7, <2>1 DEF AnswerFails, TypeOK
  <2> HIDE DEF n
  <2>3. [round[n] EXCEPT !.pc = "ask", !.peer = None] \in Rounds
    BY Zenon, <2>1, RoundGivenUp DEF TypeOK
  <2>4. round' \in [Nodes -> Rounds]
    BY Zenon, <2>1, <2>2, <2>3 DEF TypeOK
  <2>5. [round[n] EXCEPT !.pc = "ask", !.peer = None].pc = "ask"
    BY Zenon, <2>1 DEF TypeOK, Rounds
  <2>6. BallotHeld'
    BY Zenon, <2>1, <2>2, <2>5 DEF TypeOK
  <2> QED BY Zenon, <1>7, <2>4, <2>6 DEF TypeOK, AnswerFails
<1>8. ASSUME NEW n \in Nodes, Lose(n) \/ Win(n) PROVE TypeOK' /\ BallotHeld'
  <2>1. round' = [round EXCEPT ![n] = NoRound]
    BY Zenon, <1>8 DEF Lose, Win
  <2>2. round' \in [Nodes -> Rounds] /\ BallotHeld'
    BY <2>1, IdleRound DEF TypeOK, NoRound
  <2>3. winners' \in SUBSET (Nat \X Ids)
    BY <1>8, RoundTypes DEF TypeOK, Lose, Win
  <2> QED BY Zenon, <1>8, <2>2, <2>3 DEF TypeOK, Lose, Win
<1>9. ASSUME NEW n \in Nodes, Restart(n) PROVE TypeOK' /\ BallotHeld'
  BY <1>9, IdleRound DEF TypeOK, Restart, NoRound
<1>10. ASSUME NEW n \in Nodes, NEW p \in Nodes, AskVote(n, p)
       PROVE TypeOK' /\ BallotHeld'
  <2>1. CASE round[n].term < failoverTerm[p]
    <3>1. round' = [round EXCEPT ![n] = NoRound]
      BY Zenon, <1>10, <2>1 DEF AskVote
    <3>2. round' \in [Nodes -> Rounds] /\ BallotHeld'
      BY Zenon, <3>1, IdleRound DEF TypeOK, NoRound
    <3> QED BY Zenon, <1>10, <2>1, <3>2 DEF TypeOK, AskVote
  <2>2. CASE ~(round[n].term < failoverTerm[p])
    <3>1. PICK sees \in BOOLEAN :
            LET b == Ballot(p, round[n].term, Id(n), round[n].offset, sees)
            IN  /\ Register(p, b)
                /\ handler' = [handler EXCEPT ![p] = b]
                /\ round' = [round EXCEPT ![n].pc = "wait", ![n].peer = p,
                                          ![n].todo = @ \ {p}]
      BY Zenon, <1>10, <2>2 DEF AskVote
    <3> DEFINE b == Ballot(p, round[n].term, Id(n), round[n].offset, sees)
    <3>2. b \in Ballots /\ b.term \in Nat /\ b.vote \in Ids \cup {None}
      BY <2>2, RoundTypes, BallotFacts DEF Ballots
    <3> HIDE DEF b
    <3>3. /\ failoverTerm' \in [Nodes -> Nat]
          /\ failoverVotedFor' \in [Nodes -> Ids \cup {None}]
          /\ handler' \in [Nodes -> Ballots \cup {None}]
      BY Zenon, <3>1, <3>2 DEF Register, TypeOK, b
    <3>4. [round[n] EXCEPT !.pc = "wait", !.peer = p, !.todo = @ \ {p}] \in Rounds
      BY Zenon, <3>2, RoundSteps DEF TypeOK
    <3>5. round' = [round EXCEPT ![n] =
             [round[n] EXCEPT !.pc = "wait", !.peer = p, !.todo = @ \ {p}]]
      BY Zenon, <3>1 DEF TypeOK
    <3>6. round' \in [Nodes -> Rounds]
      BY Zenon, <3>4, <3>5 DEF TypeOK
    <3>7. BallotHeld'
      BY <3>5 DEF TypeOK, Rounds
    <3> QED BY Zenon, <1>10, <3>3, <3>6, <3>7 DEF TypeOK, AskVote
  <2> QED BY <2>1, <2>2
<1>11. ASSUME NEW n \in Nodes, NEW p \in Nodes, LoseVote(n, p)
       PROVE TypeOK' /\ BallotHeld'
  <2>1. round' = [round EXCEPT ![n] = [round[n] EXCEPT !.todo = @ \ {p}]]
    BY Zenon, <1>11 DEF LoseVote, TypeOK
  <2>2. [round[n] EXCEPT !.todo = @ \ {p}] \in Rounds
    BY Zenon, RoundAsked DEF TypeOK
  <2>3. round' \in [Nodes -> Rounds]
    BY Zenon, <2>1, <2>2 DEF TypeOK
  <2>4. BallotHeld'
    BY Zenon, <2>1 DEF TypeOK, Rounds
  <2> QED BY Zenon, <1>11, <2>3, <2>4 DEF TypeOK, LoseVote
<1>12. ASSUME UNCHANGED vars PROVE TypeOK' /\ BallotHeld'
  BY Zenon, <1>12 DEF TypeOK, vars
<1> QED
  BY Zenon, <1>1, <1>2, <1>3, <1>4, <1>5, <1>6, <1>7, <1>8, <1>9, <1>10, <1>11, <1>12
  DEF Next

\* Type correctness of the election, for every group, quorum and crash pattern.
THEOREM TypeCorrect == Spec => []TypeOK
<1>1. Init => BallotHeld
  BY DEF Init, BallotHeld, NoRound
<1> QED BY <1>1, TypeInit, TypeStep, PTL DEF Spec

(* ------------------- the election invariant, by action ------------------ *)

Votes == VotesCovered /\ CrashersPassive /\ AskedOnce /\ VotesCounted

\* Nobody has voted at first.
LEMMA VotesInit == Init => Votes
BY DEF Init, Votes, VotesCovered, CrashersPassive, AskedOnce, VotesCounted,
       NoRound, Id, Candidates

\* Steps that touch only the round of n, and leave it with no more to do, no
\* other votes and no later stage than before.
LEMMA RoundOnly ==
    ASSUME IInv, NEW n \in Nodes,
           UNCHANGED <<inc, failoverTerm, failoverVotedFor, disk, granted, winners>>,
           handler' = handler \/ \E p \in Nodes : handler' = [handler EXCEPT ![p] = None],
           \A m \in Nodes \ {n} : round'[m] = round[m],
           \/ round'[n].pc = "idle" /\ round'[n].votes = {} /\ round'[n].todo = {}
           \/ /\ round[n].pc \in {"ask", "wait"}
              /\ round'[n].pc = "ask"
              /\ round'[n].term = round[n].term
              /\ round'[n].votes = round[n].votes
              /\ round'[n].todo \subseteq round[n].todo
    PROVE  Votes'
<1> USE DEF IInv
<1>1. VotesCovered'
  BY DEF VotesCovered, TypeOK, Id
<1>2. CrashersPassive'
  BY DEF CrashersPassive, TypeOK
<1>3. AskedOnce'
  <2>1. \A m \in Nodes : /\ round'[m].pc # "idle" => round[m].pc # "idle"
                         /\ round'[m].pc # "idle" => round'[m].term = round[m].term
                         /\ round'[m].todo \subseteq round[m].todo
                         /\ round'[m].pc \in {"save", "ask", "wait", "won"} =>
                              round[m].pc \in {"save", "ask", "wait", "won"}
    OBVIOUS
  <2>2. AskedOnce
    OBVIOUS
  <2> QED BY <2>1, <2>2 DEF AskedOnce, Id, Candidates
<1>4. VotesCounted'
  BY Zenon DEF VotesCounted, TypeOK, Id
<1> QED BY Zenon, <1>1, <1>2, <1>3, <1>4 DEF Votes

\* The start of a round casts no vote.
LEMMA CollectKeeps ==
    ASSUME IInv, NEW n \in Nodes, Collect(n)
    PROVE  Votes'
<1>1. PICK peers \in SUBSET (Nodes \ {n}), t \in 1..MaxTerm :
        /\ Priority[n] > 0
        /\ failoverTerm[n] < t
        /\ round' = [round EXCEPT ![n] =
             [NoRound EXCEPT !.pc = "elect", !.term = t,
                             !.offset = offset[n], !.todo = peers]]
  BY Zenon DEF Collect, ElectionPicks, NextTerm
<1>2. /\ round'[n].pc = "elect" /\ round'[n].term = t
      /\ round'[n].todo = peers /\ round'[n].votes = {}
      /\ \A m \in Nodes \ {n} : round'[m] = round[m]
  BY Zenon, <1>1 DEF IInv, TypeOK, NoRound
<1>3. UNCHANGED <<inc, failoverTerm, failoverVotedFor, disk, handler,
                  granted, winners>>
  BY Zenon DEF Collect
<1>4. t \in Nat /\ failoverTerm \in [Nodes -> Nat]
      /\ \A v \in Nodes : disk[v].term \in Nat
  BY GroupAssumption, RoundTypes DEF IInv, TypeOK
<1>5. VotesCovered'
  BY ZenonT(40), <1>2, <1>3 DEF IInv, VotesCovered, Id
<1>6. CrashersPassive'
  BY Zenon, <1>1, <1>2, <1>3 DEF IInv, CrashersPassive
<1>7. AskedOnce'
  BY <1>1, <1>2, <1>3, <1>4 DEF IInv, AskedOnce, Id, Candidates
<1>8. VotesCounted'
  BY Zenon, <1>2, <1>3 DEF IInv, VotesCounted, Id
<1> QED BY Zenon, <1>5, <1>6, <1>7, <1>8 DEF Votes

\* A register update of node v by a request of candidate n keeps what covers
\* the votes returned, and records no vote for a third node.
LEMMA RegisterKeeps ==
    ASSUME TypeOK, NEW v \in Nodes, NEW n \in Nodes, NEW t \in Nat,
           NEW off \in Nat, NEW sees \in BOOLEAN, failoverTerm[v] <= t,
           Register(v, Ballot(v, t, Id(n), off, sees))
    PROVE  /\ \A m \in Nodes, u \in Nat, x \in Ids :
                 Covers(failoverTerm[m], failoverVotedFor[m], u, x) =>
                 Covers(failoverTerm'[m], failoverVotedFor'[m], u, x)
           /\ \A m \in Nodes : failoverTerm[m] <= failoverTerm'[m]
           /\ failoverTerm'[v] = t
           /\ failoverVotedFor'[v] = Ballot(v, t, Id(n), off, sees).vote
           /\ \A m \in Nodes \ {v} : /\ failoverTerm'[m] = failoverTerm[m]
                                     /\ failoverVotedFor'[m] = failoverVotedFor[m]
           /\ \A m \in Nodes \ {n} : failoverVotedFor'[v] = Id(m) =>
                 failoverVotedFor[v] = Id(m) /\ failoverTerm[v] = t
<1> DEFINE b == Ballot(v, t, Id(n), off, sees)
<1>1. Id(n) \in Ids /\ \A m \in Nodes : Id(m) # None
  BY Zenon, RoundTypes, NoneAssumption
<1>2. /\ b.term = t
      /\ failoverTerm[v] < t => b.vote \in {Id(n), None}
      /\ failoverTerm[v] = t =>
           b.vote = failoverVotedFor[v]
           \/ (failoverVotedFor[v] = None /\ b.vote = Id(n))
      /\ \A u \in Nat : \A x \in Ids :
           Covers(failoverTerm[v], failoverVotedFor[v], u, x) =>
           Covers(b.term, b.vote, u, x)
  BY <1>1, BallotFacts
<1> HIDE DEF b
<1>3. /\ failoverTerm' = [failoverTerm EXCEPT ![v] = b.term]
      /\ failoverVotedFor' = [failoverVotedFor EXCEPT ![v] = b.vote]
  BY Zenon DEF Register, b
<1>4. /\ failoverTerm'[v] = t /\ failoverVotedFor'[v] = b.vote
      /\ \A m \in Nodes \ {v} : /\ failoverTerm'[m] = failoverTerm[m]
                                /\ failoverVotedFor'[m] = failoverVotedFor[m]
  BY Zenon, <1>2, <1>3 DEF TypeOK
<1>5. \A m \in Nodes \ {n} : Id(m) # Id(n)
  BY Zenon DEF Id
<1>6. \A m \in Nodes \ {n} : failoverVotedFor'[v] = Id(m) =>
        failoverVotedFor[v] = Id(m) /\ failoverTerm[v] = t
  <2>1. failoverTerm[v] \in Nat /\ failoverVotedFor[v] \in Ids \cup {None}
    BY Zenon DEF TypeOK
  <2> QED BY <1>1, <1>2, <1>4, <1>5, <2>1
<1>7. \A m \in Nodes : failoverTerm[m] <= failoverTerm'[m]
  BY <1>4 DEF TypeOK
<1>8. \A m \in Nodes, u \in Nat, x \in Ids :
        Covers(failoverTerm[m], failoverVotedFor[m], u, x) =>
        Covers(failoverTerm'[m], failoverVotedFor'[m], u, x)
  BY <1>2, <1>4
<1> QED BY Zenon, <1>4, <1>6, <1>7, <1>8 DEF b

\* A candidate records its vote for itself before it returns it.
LEMMA SelfVoteKeeps ==
    ASSUME NoCandidateCrashes, IInv, NEW n \in Nodes, SelfVote(n)
    PROVE  Votes'
<1>1. CASE round[n].term < failoverTerm[n]
  <2>1. round' = [round EXCEPT ![n] = NoRound]
    BY Zenon, <1>1 DEF SelfVote
  <2>2. /\ \A m \in Nodes \ {n} : round'[m] = round[m]
        /\ round'[n].pc = "idle" /\ round'[n].votes = {} /\ round'[n].todo = {}
    BY Zenon, <2>1 DEF IInv, TypeOK, NoRound
  <2>3. UNCHANGED <<inc, failoverTerm, failoverVotedFor, disk, handler, granted, winners>>
    BY Zenon, <1>1 DEF SelfVote
  <2> QED BY <2>2, <2>3, RoundOnly
<1>2. CASE ~(round[n].term < failoverTerm[n])
  <2>1. PICK sees \in BOOLEAN :
          LET b == Ballot(n, round[n].term, Id(n), round[n].offset, sees)
          IN  /\ Register(n, b)
              /\ round' = [round EXCEPT ![n].pc = "save", ![n].ballot = b]
    BY Zenon, <1>2 DEF SelfVote
  <2> DEFINE t == round[n].term
             b == Ballot(n, t, Id(n), round[n].offset, sees)
  <2>2. /\ TypeOK /\ t \in Nat /\ round[n].offset \in Nat /\ Id(n) \in Ids
        /\ failoverTerm[n] <= t
    BY <1>2, RoundTypes DEF IInv
  <2>3. b \in Ballots /\ b.term = t /\ b.cand = Id(n) /\ (b.grant => b.vote = Id(n))
    BY <2>2, BallotFacts
  <2>4. /\ \A m \in Nodes, u \in Nat, x \in Ids :
             Covers(failoverTerm[m], failoverVotedFor[m], u, x) =>
             Covers(failoverTerm'[m], failoverVotedFor'[m], u, x)
        /\ \A m \in Nodes : failoverTerm[m] <= failoverTerm'[m]
        /\ failoverTerm'[n] = t /\ failoverVotedFor'[n] = b.vote
        /\ \A m \in Nodes \ {n} : /\ failoverTerm'[m] = failoverTerm[m]
                                  /\ failoverVotedFor'[m] = failoverVotedFor[m]
        /\ \A m \in Nodes \ {n} : failoverVotedFor'[n] = Id(m) =>
              failoverVotedFor[n] = Id(m) /\ failoverTerm[n] = t
    BY <2>1, <2>2, RegisterKeeps
  <2> HIDE DEF b
  <2>5. /\ round'[n].pc = "save" /\ round'[n].term = t /\ round'[n].ballot = b
        /\ round'[n].todo = round[n].todo /\ round'[n].votes = round[n].votes
        /\ \A m \in Nodes \ {n} : round'[m] = round[m]
    BY <2>1, <2>2 DEF TypeOK, Rounds, b
  <2>6. UNCHANGED <<inc, offset, disk, handler, granted, winners>>
        /\ round[n].pc = "elect"
    BY Zenon DEF SelfVote
  <2> HIDE DEF t
  <2>7. Priority[n] > 0 /\ n \notin Crashers
    BY Zenon, <2>6 DEF IInv, CrashersPassive, NoCandidateCrashes, Candidates
  <2>8. VotesCovered'
    <3>1. \A g \in granted : g[1] \in Nodes /\ g[2] \in Nat /\ g[3] \in Ids
      BY Zenon, <2>2 DEF TypeOK
    <3>2. \A v \in Nodes : handler[v] # None =>
              handler[v].term \in Nat /\ handler[v].cand \in Ids
      BY Zenon, <2>2 DEF TypeOK, Ballots
    <3>3. \A v \in Nodes : round[v].pc = "save" =>
              round[v].ballot.term \in Nat /\ round[v].ballot.cand \in Ids
      BY Zenon, <2>2 DEF IInv, BallotHeld, TypeOK, Rounds, Ballots
    <3>4. \A g \in granted' :
            Covers(failoverTerm'[g[1]], failoverVotedFor'[g[1]], g[2], g[3])
      BY Zenon, <2>4, <2>6, <3>1 DEF IInv, VotesCovered
    <3>5. \A v \in Nodes : handler'[v] # None /\ handler'[v].grant =>
            Covers(failoverTerm'[v], failoverVotedFor'[v],
                   handler'[v].term, handler'[v].cand)
      BY Zenon, <2>4, <2>6, <3>2 DEF IInv, VotesCovered
    <3>6. \A v \in Nodes \ {n} : round'[v].pc = "save" =>
            /\ round'[v].ballot.term = round'[v].term
            /\ round'[v].ballot.cand = Id(v)
            /\ round'[v].ballot.grant =>
                 Covers(failoverTerm'[v], failoverVotedFor'[v],
                        round'[v].ballot.term, round'[v].ballot.cand)
      BY <2>4, <2>5, <3>3 DEF IInv, VotesCovered
    <3>7. /\ round'[n].ballot.term = round'[n].term
          /\ round'[n].ballot.cand = Id(n)
          /\ round'[n].ballot.grant =>
               Covers(failoverTerm'[n], failoverVotedFor'[n],
                      round'[n].ballot.term, round'[n].ballot.cand)
      BY Zenon, <2>3, <2>4, <2>5 DEF Covers
    <3> QED BY Zenon, <2>6, <3>4, <3>5, <3>6, <3>7 DEF IInv, VotesCovered, Id
  <2>9. CrashersPassive'
    BY <2>4, <2>5, <2>6, <2>7 DEF IInv, CrashersPassive
  <2>10. AskedOnce'
    <3>2. /\ failoverTerm \in [Nodes -> Nat] /\ failoverTerm' \in [Nodes -> Nat]
          /\ \A m \in Nodes : round[m].term \in Nat /\ disk[m].term \in Nat
      BY Zenon, <2>1, <2>2, <2>3, RoundTypes DEF TypeOK, Register, b, t
    <3>3. \A m \in Candidates, v \in Nodes : v # m =>
            /\ failoverVotedFor'[v] = Id(m) =>
                 /\ failoverTerm'[v] <= failoverTerm'[m]
                 /\ round'[m].pc # "idle" /\ v \in round'[m].todo =>
                      failoverTerm'[v] < round'[m].term
      BY <2>4, <2>5, <2>6, <3>2 DEF IInv, AskedOnce, Candidates, t
    <3>4. \A m \in Candidates, v \in Nodes : v # m =>
            /\ v \in Crashers /\ disk[v].vote = Id(m) =>
                 /\ disk[v].term <= failoverTerm'[m]
                 /\ round'[m].pc # "idle" /\ v \in round'[m].todo =>
                      disk[v].term < round'[m].term
      BY <2>4, <2>5, <2>6, <3>2 DEF IInv, AskedOnce, Candidates, t
    <3>5. \A m \in Nodes : round'[m].pc \in {"save", "ask", "wait", "won"} =>
            round'[m].term <= failoverTerm'[m]
      BY <2>2, <2>4, <2>5, <3>2 DEF IInv, AskedOnce
    <3>6. \A m \in Nodes : m \notin round'[m].todo
      BY Zenon, <2>5 DEF IInv, AskedOnce
    <3> QED BY Zenon, <2>6, <3>3, <3>4, <3>5, <3>6 DEF AskedOnce, Id, Candidates
  <2>11. VotesCounted'
    BY Zenon, <2>5, <2>6 DEF IInv, VotesCounted, Id, t
  <2> QED BY Zenon, <2>8, <2>9, <2>10, <2>11 DEF Votes
<1> QED BY <1>1, <1>2

\* The maintenance thread's own vote becomes a returned one.
LEMMA SelfSaveKeeps ==
    ASSUME NoCandidateCrashes, IInv, NEW n \in Nodes, SelfSave(n)
    PROVE  Votes'
<1> DEFINE b == round[n].ballot
<1>1. /\ round[n].pc = "save" /\ TypeOK
      /\ UNCHANGED <<inc, offset, failoverTerm, failoverVotedFor, handler, winners>>
  BY Zenon DEF SelfSave, IInv
<1>2. b \in Ballots /\ b.grant \in BOOLEAN
  BY Zenon, <1>1 DEF IInv, BallotHeld, TypeOK, Rounds, Ballots
<1>3. /\ b.term = round[n].term /\ b.cand = Id(n)
      /\ b.grant => Covers(failoverTerm[n], failoverVotedFor[n], b.term, b.cand)
  BY Zenon, <1>1 DEF IInv, VotesCovered
<1>4. Priority[n] > 0 /\ n \notin Crashers
  BY Zenon, <1>1 DEF IInv, CrashersPassive, NoCandidateCrashes, Candidates
<1>5. CASE round' = [round EXCEPT ![n] = NoRound] /\ UNCHANGED <<disk, granted>>
  <2>1. /\ \A m \in Nodes \ {n} : round'[m] = round[m]
        /\ round'[n].pc = "idle" /\ round'[n].votes = {} /\ round'[n].todo = {}
    BY Zenon, <1>1, <1>5 DEF TypeOK, NoRound
  <2> QED BY Zenon, <1>1, <1>5, <2>1, RoundOnly
<1>6. CASE /\ Persist(n, b) /\ Return(n, b)
           /\ round' = [round EXCEPT ![n].pc = "ask", ![n].ballot = None,
                                     ![n].votes = IF b.grant THEN {n} ELSE {}]
  <2>1. /\ round'[n].pc = "ask" /\ round'[n].term = round[n].term
        /\ round'[n].todo = round[n].todo
        /\ round'[n].votes = (IF b.grant THEN {n} ELSE {})
        /\ \A m \in Nodes \ {n} : round'[m] = round[m]
    BY <1>1, <1>6 DEF TypeOK, Rounds
  <2>2. \A m \in Nodes \ {n} : disk'[m] = disk[m]
    BY Zenon, <1>1, <1>6 DEF Persist, TypeOK
  <2>3. granted' = IF b.grant THEN granted \cup {<<n, b.term, b.cand>>} ELSE granted
    BY Zenon, <1>6 DEF Return
  <2>4. \A g \in granted : g[1] \in Nodes
    BY Zenon, <1>1 DEF TypeOK
  <2> HIDE DEF b
  <2>5. VotesCovered'
    <3>1. \A g \in granted' :
            Covers(failoverTerm[g[1]], failoverVotedFor[g[1]], g[2], g[3])
      BY <1>3, <2>3 DEF IInv, VotesCovered
    <3>2. \A g \in granted' : g[1] \in Crashers =>
            Covers(disk'[g[1]].term, disk'[g[1]].vote, g[2], g[3])
      BY <1>4, <2>2, <2>3, <2>4 DEF IInv, VotesCovered
    <3> QED BY ZenonT(40), <1>1, <2>1, <3>1, <3>2 DEF IInv, VotesCovered, Id
  <2>6. CrashersPassive'
    BY Zenon, <1>1, <1>4, <2>1 DEF IInv, CrashersPassive
  <2>7. AskedOnce'
    BY <1>1, <1>4, <2>1, <2>2 DEF IInv, AskedOnce, Id, Candidates
  <2>8. VotesCounted'
    <3>1. \A v \in round'[n].votes : <<v, round'[n].term, Id(n)>> \in granted'
      BY <1>3, <2>1, <2>3
    <3>2. granted \subseteq granted'
      BY <2>3
    <3> QED BY Zenon, <1>1, <2>1, <3>1, <3>2 DEF IInv, VotesCounted, Id
  <2> QED BY Zenon, <2>5, <2>6, <2>7, <2>8 DEF Votes
<1> QED BY Zenon, <1>5, <1>6 DEF SelfSave

\* A vote request reaches a peer.
LEMMA AskVoteKeeps ==
    ASSUME NoCandidateCrashes, IInv, NEW n \in Nodes, NEW p \in Nodes, AskVote(n, p)
    PROVE  Votes'
<1>0. /\ TypeOK /\ round[n].pc = "ask" /\ p \in round[n].todo /\ handler[p] = None
      /\ UNCHANGED <<inc, offset, disk, granted, winners>>
  BY Zenon DEF AskVote, NextPeer, IInv
<1>1. CASE round[n].term < failoverTerm[p]
  <2>1. round' = [round EXCEPT ![n] = NoRound]
    BY Zenon, <1>1 DEF AskVote
  <2>2. /\ \A m \in Nodes \ {n} : round'[m] = round[m]
        /\ round'[n].pc = "idle" /\ round'[n].votes = {} /\ round'[n].todo = {}
    BY Zenon, <2>1 DEF IInv, TypeOK, NoRound
  <2>3. UNCHANGED <<inc, failoverTerm, failoverVotedFor, disk, handler, granted, winners>>
    BY Zenon, <1>1 DEF AskVote
  <2> QED BY <2>2, <2>3, RoundOnly
<1>2. CASE ~(round[n].term < failoverTerm[p])
  <2>1. PICK sees \in BOOLEAN :
          LET b == Ballot(p, round[n].term, Id(n), round[n].offset, sees)
          IN  /\ Register(p, b)
              /\ handler' = [handler EXCEPT ![p] = b]
              /\ round' = [round EXCEPT ![n].pc = "wait", ![n].peer = p,
                                        ![n].todo = @ \ {p}]
    BY Zenon, <1>2 DEF AskVote
  <2> DEFINE t == round[n].term
             b == Ballot(p, t, Id(n), round[n].offset, sees)
  <2>2. /\ t \in Nat /\ round[n].offset \in Nat /\ Id(n) \in Ids
        /\ failoverTerm[p] <= t
    BY <1>0, <1>2, RoundTypes
  <2>3. /\ b \in Ballots /\ b.term = t /\ b.cand = Id(n)
        /\ (b.grant => b.vote = Id(n))
        /\ b.grant => b.changed \/ failoverVotedFor[p] = Id(n)
        /\ failoverTerm[p] < t => b.changed
    BY <1>0, <2>2, BallotFacts
  <2>4. /\ \A m \in Nodes, u \in Nat, x \in Ids :
             Covers(failoverTerm[m], failoverVotedFor[m], u, x) =>
             Covers(failoverTerm'[m], failoverVotedFor'[m], u, x)
        /\ \A m \in Nodes : failoverTerm[m] <= failoverTerm'[m]
        /\ failoverTerm'[p] = t /\ failoverVotedFor'[p] = b.vote
        /\ \A m \in Nodes \ {p} : /\ failoverTerm'[m] = failoverTerm[m]
                                  /\ failoverVotedFor'[m] = failoverVotedFor[m]
        /\ \A m \in Nodes \ {n} : failoverVotedFor'[p] = Id(m) =>
              failoverVotedFor[p] = Id(m) /\ failoverTerm[p] = t
    BY <1>0, <2>1, <2>2, RegisterKeeps
  <2> HIDE DEF b
  <2>5. /\ round'[n].pc = "wait" /\ round'[n].term = t
        /\ round'[n].todo = round[n].todo \ {p} /\ round'[n].votes = round[n].votes
        /\ \A m \in Nodes \ {n} : round'[m] = round[m]
    BY <1>0, <2>1, <2>2 DEF TypeOK, Rounds
  <2>6. /\ handler'[p] = b
        /\ \A m \in Nodes \ {p} : handler'[m] = handler[m]
    BY Zenon, <1>0, <2>1 DEF TypeOK, b
  <2> HIDE DEF t
  <2>7. Priority[n] > 0 /\ n \in Candidates /\ p # n
    BY Zenon, <1>0 DEF IInv, CrashersPassive, AskedOnce, Candidates
  <2>8. b.grant => b.changed
    BY Zenon, <1>0, <2>2, <2>3, <2>7 DEF IInv, AskedOnce, t
  <2>9. VotesCovered'
    <3>1. \A g \in granted : g[1] \in Nodes /\ g[2] \in Nat /\ g[3] \in Ids
      BY Zenon, <1>0 DEF TypeOK
    <3>2. \A v \in Nodes : handler[v] # None =>
              handler[v].term \in Nat /\ handler[v].cand \in Ids
      BY Zenon, <1>0 DEF TypeOK, Ballots
    <3>3. \A v \in Nodes : round[v].pc = "save" =>
              round[v].ballot.term \in Nat /\ round[v].ballot.cand \in Ids
      BY Zenon, <1>0 DEF IInv, BallotHeld, TypeOK, Rounds, Ballots
    <3>4. \A g \in granted' :
            Covers(failoverTerm'[g[1]], failoverVotedFor'[g[1]], g[2], g[3])
      BY Zenon, <1>0, <2>4, <3>1 DEF IInv, VotesCovered
    <3>5. \A v \in Nodes \ {p} : handler'[v] # None /\ handler'[v].grant =>
            Covers(failoverTerm'[v], failoverVotedFor'[v],
                   handler'[v].term, handler'[v].cand)
      BY Zenon, <2>4, <2>6, <3>2 DEF IInv, VotesCovered
    <3>6. handler'[p].grant => Covers(failoverTerm'[p], failoverVotedFor'[p],
                                      handler'[p].term, handler'[p].cand)
      BY Zenon, <2>3, <2>4, <2>6 DEF Covers
    <3>7. \A v \in Nodes : round'[v].pc = "save" =>
            /\ round'[v].ballot.term = round'[v].term
            /\ round'[v].ballot.cand = Id(v)
            /\ round'[v].ballot.grant =>
                 Covers(failoverTerm'[v], failoverVotedFor'[v],
                        round'[v].ballot.term, round'[v].ballot.cand)
      BY <2>4, <2>5, <3>3 DEF IInv, VotesCovered
    <3> QED BY Zenon, <1>0, <3>4, <3>5, <3>6, <3>7 DEF IInv, VotesCovered, Id
  <2>10. CrashersPassive'
    BY <2>3, <2>4, <2>5, <2>6, <2>7, <2>8 DEF IInv, CrashersPassive
  <2>11. AskedOnce'
    <3>1. /\ failoverTerm \in [Nodes -> Nat] /\ failoverTerm' \in [Nodes -> Nat]
          /\ \A m \in Nodes : round[m].term \in Nat /\ disk[m].term \in Nat
      BY Zenon, <1>0, <2>1, <2>2, <2>3, RoundTypes DEF TypeOK, Register, b, t
    <3>2. t <= failoverTerm[n]
      BY Zenon, <1>0 DEF IInv, AskedOnce, t
    <3>3. \A m \in Candidates, v \in Nodes : v # m =>
            /\ failoverVotedFor'[v] = Id(m) =>
                 /\ failoverTerm'[v] <= failoverTerm'[m]
                 /\ round'[m].pc # "idle" /\ v \in round'[m].todo =>
                      failoverTerm'[v] < round'[m].term
      BY <1>0, <2>4, <2>5, <2>7, <3>1, <3>2 DEF IInv, AskedOnce, Candidates, t
    <3>4. \A m \in Candidates, v \in Nodes : v # m =>
            /\ v \in Crashers /\ disk[v].vote = Id(m) =>
                 /\ disk[v].term <= failoverTerm'[m]
                 /\ round'[m].pc # "idle" /\ v \in round'[m].todo =>
                      disk[v].term < round'[m].term
      BY <1>0, <2>4, <2>5, <3>1 DEF IInv, AskedOnce, Candidates, t
    <3>5. \A m \in Nodes : round'[m].pc \in {"save", "ask", "wait", "won"} =>
            round'[m].term <= failoverTerm'[m]
      BY <1>0, <2>4, <2>5, <3>1, <3>2 DEF IInv, AskedOnce
    <3>6. \A m \in Nodes : m \notin round'[m].todo
      BY Zenon, <2>5 DEF IInv, AskedOnce
    <3> QED BY ZenonT(40), <1>0, <3>3, <3>4, <3>5, <3>6 DEF AskedOnce, Id, Candidates
  <2>12. VotesCounted'
    BY Zenon, <1>0, <2>5 DEF IInv, VotesCounted, Id, t
  <2> QED BY Zenon, <2>9, <2>10, <2>11, <2>12 DEF Votes
<1> QED BY <1>1, <1>2

\* A peer writes its sidecar and returns its vote.  For a node that may crash
\* the values written are the register's, so the file covers what the register
\* covers.
LEMMA AnswerKeeps ==
    ASSUME NoCandidateCrashes, IInv, NEW p \in Nodes, Answer(p)
    PROVE  Votes'
<1> DEFINE b == handler[p]
           n == b.cand[1]
           r == Counted(round[n], p, b.grant)
<1>1. /\ TypeOK /\ b # None /\ Persist(p, b) /\ Return(p, b)
      /\ handler' = [handler EXCEPT ![p] = None]
      /\ UNCHANGED <<inc, offset, failoverTerm, failoverVotedFor, winners>>
  BY Zenon DEF Answer, IInv
<1>2. /\ b \in Ballots /\ n \in Nodes /\ b.grant \in BOOLEAN /\ b.changed \in BOOLEAN
      /\ b.term \in Nat /\ b.cand \in Ids
  BY Zenon, <1>1 DEF TypeOK, Ballots, Ids
<1>3. \/ round' = round
      \/ /\ Awaits(n, p, b)
         /\ round' = [round EXCEPT ![n] = r]
  BY Zenon DEF Answer
<1>4. /\ b.grant => Covers(failoverTerm[p], failoverVotedFor[p], b.term, b.cand)
      /\ b.grant => b.changed
      /\ p \in Crashers => b.term = failoverTerm[p] /\ b.vote = failoverVotedFor[p]
  BY Zenon, <1>1 DEF IInv, VotesCovered, CrashersPassive
<1>5. /\ granted' = IF b.grant THEN granted \cup {<<p, b.term, b.cand>>} ELSE granted
      /\ \A m \in Nodes \ {p} : disk'[m] = disk[m]
      /\ b.changed => disk'[p].term = b.term /\ disk'[p].vote = b.vote
      /\ ~b.changed => disk'[p] = disk[p]
  BY Zenon, <1>1 DEF Persist, Return, TypeOK
<1>6. handler'[p] = None /\ \A m \in Nodes \ {p} : handler'[m] = handler[m]
  BY Zenon, <1>1 DEF TypeOK
<1>c. /\ r.pc \in {"won", "ask"} /\ r.term = round[n].term /\ r.todo = round[n].todo
      /\ r.votes = IF b.grant THEN round[n].votes \cup {p} ELSE round[n].votes
      /\ r.pc = "won" => Cardinality(r.votes) >= Quorum
  <2>1. round[n] \in Rounds
    BY Zenon, <1>1, <1>2 DEF TypeOK
  <2> QED BY ZenonT(40), <1>2, <2>1, CountedRound
<1> HIDE DEF n, r
<1>r. \A m \in Nodes \ {n} : round'[m] = round[m]
  BY Zenon, <1>1, <1>3 DEF TypeOK
<1>s. round'[n] = round[n] \/ (round[n].pc = "wait" /\ round'[n] = r)
  BY Zenon, <1>1, <1>2, <1>3 DEF TypeOK, Awaits
<1>7. \A m \in Nodes :
        /\ round'[m].term = round[m].term /\ round'[m].todo = round[m].todo
        /\ round'[m].pc = "save" => round'[m] = round[m]
        /\ round'[m].pc # "idle" => round[m].pc # "idle"
        /\ round'[m].pc \in {"save", "ask", "wait", "won"} =>
             round[m].pc \in {"save", "ask", "wait", "won"}
  BY Zenon, <1>2, <1>c, <1>r, <1>s
<1>8. VotesCovered'
  <2>1. \A g \in granted' :
          Covers(failoverTerm[g[1]], failoverVotedFor[g[1]], g[2], g[3])
    BY <1>4, <1>5 DEF IInv, VotesCovered
  <2>2. \A g \in granted' : g[1] \in Crashers =>
          Covers(disk'[g[1]].term, disk'[g[1]].vote, g[2], g[3])
    <3> SUFFICES ASSUME NEW g \in granted', g[1] \in Crashers
                 PROVE  Covers(disk'[g[1]].term, disk'[g[1]].vote, g[2], g[3])
      OBVIOUS
    <3>1. CASE g[1] = p /\ b.changed
      BY ZenonT(40), <1>4, <1>5, <2>1, <3>1
    <3>2. CASE g[1] = p /\ ~b.changed
      BY Zenon, <1>4, <1>5, <3>2 DEF IInv, VotesCovered
    <3>3. CASE g[1] # p
      BY <1>1, <1>5, <3>3 DEF IInv, VotesCovered, TypeOK
    <3> QED BY Zenon, <1>2, <3>1, <3>2, <3>3
  <2>3. \A v \in Nodes : handler'[v] # None /\ handler'[v].grant =>
          Covers(failoverTerm[v], failoverVotedFor[v], handler'[v].term, handler'[v].cand)
    BY Zenon, <1>6 DEF IInv, VotesCovered
  <2>4. \A v \in Nodes : round'[v].pc = "save" =>
          /\ round'[v].ballot.term = round'[v].term
          /\ round'[v].ballot.cand = Id(v)
          /\ round'[v].ballot.grant =>
               Covers(failoverTerm[v], failoverVotedFor[v],
                      round'[v].ballot.term, round'[v].ballot.cand)
    BY Zenon, <1>7 DEF IInv, VotesCovered
  <2>5. UNCHANGED <<inc, failoverTerm, failoverVotedFor>>
    BY <1>1
  <2> QED BY Zenon, <2>1, <2>2, <2>3, <2>4, <2>5 DEF VotesCovered, Id
<1>9. CrashersPassive'
  <2>1. \A v \in Nodes : round'[v].pc # "idle" => Priority[v] > 0
    BY Zenon, <1>7 DEF IInv, CrashersPassive
  <2>2. \A v \in Nodes : handler'[v] # None =>
          /\ handler'[v].grant => handler'[v].changed
          /\ v \in Crashers => /\ handler'[v].term = failoverTerm[v]
                               /\ handler'[v].vote = failoverVotedFor[v]
    BY Zenon, <1>6 DEF IInv, CrashersPassive
  <2>3. UNCHANGED <<failoverTerm, failoverVotedFor>>
    BY <1>1
  <2> QED BY Zenon, <2>1, <2>2, <2>3 DEF CrashersPassive
<1>10. AskedOnce'
  <2>1. \A m \in Candidates, v \in Nodes : v # m =>
          /\ v \in Crashers /\ disk'[v].vote = Id(m) =>
               /\ disk'[v].term <= failoverTerm[m]
               /\ round'[m].pc # "idle" /\ v \in round'[m].todo =>
                    disk'[v].term < round'[m].term
    BY <1>4, <1>5, <1>7 DEF IInv, AskedOnce, Candidates
  <2> QED BY Zenon, <1>1, <1>7, <2>1 DEF IInv, AskedOnce, Id, Candidates
<1>11. VotesCounted'
  <2>1. granted \subseteq granted'
    BY <1>5
  <2>2. \A m \in Nodes : \A v \in round'[m].votes :
          <<v, round'[m].term, Id(m)>> \in granted'
    <3>1. CASE round' = round
      BY Zenon, <2>1, <3>1 DEF IInv, VotesCounted
    <3>2. CASE /\ Awaits(n, p, b)
               /\ round' = [round EXCEPT ![n] = r]
      <4>1. /\ round'[n].votes = IF b.grant THEN round[n].votes \cup {p}
                                            ELSE round[n].votes
            /\ \A m \in Nodes \ {n} : round'[m] = round[m]
        BY Zenon, <1>1, <1>2, <1>c, <1>r, <3>2 DEF TypeOK
      <4>2. b.term = round[n].term /\ b.cand = Id(n)
        BY Zenon, <3>2 DEF Awaits
      <4> QED BY <1>2, <1>5, <1>7, <2>1, <4>1, <4>2 DEF IInv, VotesCounted
    <3> QED BY <1>3, <3>1, <3>2
  <2>3. \A m \in Nodes : round'[m].pc = "won" => Cardinality(round'[m].votes) >= Quorum
    BY Zenon, <1>2, <1>c, <1>r, <1>s DEF IInv, VotesCounted
  <2> QED BY Zenon, <1>1, <2>1, <2>2, <2>3 DEF IInv, VotesCounted, Id
<1> QED BY <1>8, <1>9, <1>10, <1>11 DEF Votes

\* A passive node restarts with the register of its sidecar.
LEMMA RestartKeeps ==
    ASSUME NoCandidateCrashes, IInv, NEW n \in Nodes, Restart(n)
    PROVE  Votes'
<1>1. /\ TypeOK /\ n \in Crashers /\ n \notin Candidates
      /\ UNCHANGED <<disk, granted, winners>>
  BY Zenon DEF Restart, IInv, NoCandidateCrashes
<1>2. /\ failoverTerm'[n] = disk[n].term /\ failoverVotedFor'[n] = disk[n].vote
      /\ handler'[n] = None
      /\ round'[n].pc = "idle" /\ round'[n].todo = {} /\ round'[n].votes = {}
      /\ \A m \in Nodes \ {n} : /\ failoverTerm'[m] = failoverTerm[m]
                                /\ failoverVotedFor'[m] = failoverVotedFor[m]
                                /\ handler'[m] = handler[m]
                                /\ round'[m] = round[m]
                                /\ inc'[m] = inc[m]
  BY Zenon, <1>1 DEF Restart, TypeOK, NoRound
<1>3. \A g \in granted : g[1] \in Nodes
  BY Zenon, <1>1 DEF TypeOK
<1>4. VotesCovered'
  <2>1. \A g \in granted : g[1] \in Crashers =>
          Covers(disk[g[1]].term, disk[g[1]].vote, g[2], g[3])
    BY Zenon DEF IInv, VotesCovered
  <2>2. \A g \in granted :
          Covers(failoverTerm'[g[1]], failoverVotedFor'[g[1]], g[2], g[3])
    BY <1>1, <1>2, <1>3, <2>1 DEF IInv, VotesCovered
  <2>3. \A v \in Nodes : handler'[v] # None /\ handler'[v].grant =>
          Covers(failoverTerm'[v], failoverVotedFor'[v], handler'[v].term, handler'[v].cand)
    BY Zenon, <1>2 DEF IInv, VotesCovered
  <2>4. ASSUME NEW v \in Nodes, round'[v].pc = "save"
        PROVE  /\ round'[v].ballot.term = round'[v].term
               /\ round'[v].ballot.cand = Id(v)'
               /\ round'[v].ballot.grant =>
                    Covers(failoverTerm'[v], failoverVotedFor'[v],
                           round'[v].ballot.term, round'[v].ballot.cand)
    <3>1. v # n
      BY Zenon, <1>2, <2>4
    <3>2. /\ round'[v] = round[v] /\ failoverTerm'[v] = failoverTerm[v]
          /\ failoverVotedFor'[v] = failoverVotedFor[v] /\ Id(v)' = Id(v)
      BY Zenon, <1>2, <3>1 DEF Id
    <3>3. /\ round[v].ballot.term = round[v].term
          /\ round[v].ballot.cand = Id(v)
          /\ round[v].ballot.grant =>
               Covers(failoverTerm[v], failoverVotedFor[v],
                      round[v].ballot.term, round[v].ballot.cand)
      BY ZenonT(40), <2>4, <3>2 DEF IInv, VotesCovered
    <3> QED BY Zenon, <3>2, <3>3
  <2> QED BY Zenon, <1>1, <2>1, <2>2, <2>3, <2>4 DEF VotesCovered
<1>5. CrashersPassive'
  BY <1>1, <1>2 DEF IInv, CrashersPassive
<1>6. AskedOnce'
  BY <1>1, <1>2 DEF IInv, AskedOnce, Id, Candidates
<1>7. VotesCounted'
  BY Zenon, <1>1, <1>2 DEF IInv, VotesCounted, Id
<1> QED BY <1>4, <1>5, <1>6, <1>7 DEF Votes

\* A round that has its quorum of votes is recorded as won.
LEMMA WinKeeps ==
    ASSUME IInv, NEW n \in Nodes, Win(n)
    PROVE  Votes'
<1>1. /\ TypeOK /\ round[n].pc = "won"
      /\ round' = [round EXCEPT ![n] = NoRound]
      /\ winners' = winners \cup {<<round[n].term, Id(n)>>}
      /\ UNCHANGED <<inc, failoverTerm, failoverVotedFor, disk, handler, granted>>
  BY Zenon DEF Win, IInv
<1>2. /\ \A m \in Nodes \ {n} : round'[m] = round[m]
      /\ round'[n].pc = "idle" /\ round'[n].votes = {} /\ round'[n].todo = {}
  BY Zenon, <1>1 DEF TypeOK, NoRound
<1>3. VotesCovered'
  BY <1>1, <1>2 DEF IInv, VotesCovered, Id
<1>4. CrashersPassive'
  BY Zenon, <1>1, <1>2 DEF IInv, CrashersPassive
<1>5. AskedOnce'
  BY ZenonT(40), <1>1, <1>2 DEF IInv, AskedOnce, Id, Candidates
<1>6. VotesCounted'
  <2>1. round[n].votes \in SUBSET Nodes /\ Cardinality(round[n].votes) >= Quorum
    BY Zenon, <1>1, RoundTypes DEF IInv, VotesCounted
  <2>2. \A v \in round[n].votes : <<v, round[n].term, Id(n)>> \in granted
    BY Zenon DEF IInv, VotesCounted
  <2>3. \A w \in winners' : \E Q \in SUBSET Nodes :
          /\ Cardinality(Q) >= Quorum
          /\ \A v \in Q : <<v, w[1], w[2]>> \in granted
    BY <1>1, <2>1, <2>2 DEF IInv, VotesCounted
  <2> QED BY <1>1, <1>2, <2>3 DEF IInv, VotesCounted, Id
<1> QED BY Zenon, <1>3, <1>4, <1>5, <1>6 DEF Votes

\* A step that leaves the votes alone keeps them covered.
LEMMA StutterKeeps ==
    ASSUME IInv, UNCHANGED <<inc, failoverTerm, failoverVotedFor, disk, handler,
                             round, granted, winners>>
    PROVE  Votes'
BY ZenonT(40) DEF IInv, Votes, VotesCovered, CrashersPassive, AskedOnce, VotesCounted, Id,
       Candidates

\* v has granted c its vote of term u, and has returned it or is about to.
Cast(v, u, c) ==
    \/ <<v, u, c>> \in granted
    \/ /\ handler[v] # None /\ handler[v].grant
       /\ handler[v].term = u /\ handler[v].cand = c
    \/ /\ round[v].pc = "save" /\ round[v].ballot.grant
       /\ round[v].ballot.term = u /\ round[v].ballot.cand = c

CastOnly ==
    \A v \in Nodes, u \in Nat, c, d \in Ids :
        Cast(v, u, c) /\ Cast(v, u, d) => c = d

\* CastOnce, put voter by voter and term by term.
LEMMA CastForm == TypeOK /\ BallotHeld => (CastOnce <=> CastOnly)
<1> SUFFICES ASSUME TypeOK, BallotHeld PROVE CastOnce <=> CastOnly
  OBVIOUS
<1>1. \A v \in Nodes, u \in Nat, c \in Ids : Cast(v, u, c) <=> <<v, u, c>> \in CastVotes
  BY DEF Cast, CastVotes
<1>2. \A a \in CastVotes : /\ a[1] \in Nodes /\ a[2] \in Nat /\ a[3] \in Ids
                           /\ a = <<a[1], a[2], a[3]>>
  BY DEF CastVotes, TypeOK, BallotHeld, Ballots, Rounds
<1>3. CastOnly => CastOnce
  BY <1>1, <1>2 DEF CastOnce, CastOnly
<1>4. CastOnce => CastOnly
  <2> SUFFICES ASSUME CastOnce, NEW v \in Nodes, NEW u \in Nat,
                      NEW c \in Ids, NEW d \in Ids, Cast(v, u, c), Cast(v, u, d)
               PROVE  c = d
    BY Zenon DEF CastOnly
  <2>1. <<v, u, c>> \in CastVotes /\ <<v, u, d>> \in CastVotes
    BY Zenon, <1>1
  <2> QED BY Zenon, <2>1 DEF CastOnce
<1> QED BY <1>3, <1>4

\* The votes cast are covered by the register, and only a register update
\* casts a vote.
LEMMA CastCovered ==
    ASSUME IInv, NEW v \in Nodes, NEW u \in Nat, NEW c \in Ids, Cast(v, u, c)
    PROVE  Covers(failoverTerm[v], failoverVotedFor[v], u, c)
<1>1. CASE <<v, u, c>> \in granted
  BY Zenon, <1>1 DEF IInv, VotesCovered
<1>2. CASE ~(<<v, u, c>> \in granted)
  BY Zenon, <1>2 DEF Cast, IInv, VotesCovered
<1> QED BY <1>1, <1>2

\* A step casts at most one vote, that of p in term t for id, if it is granted.
CastsAtMost(p, t, id, grant) ==
    \A v \in Nodes, u \in Nat, c \in Ids : Cast(v, u, c)' =>
        \/ Cast(v, u, c)
        \/ grant /\ v = p /\ u = t /\ c = id

\* A register that grants a request casts no vote but this one.
LEMMA RegisterCasts ==
    ASSUME IInv, CastOnly,
           NEW p \in Nodes, NEW n \in Nodes, NEW t \in Nat, NEW off \in Nat,
           NEW sees \in BOOLEAN, failoverTerm[p] <= t,
           CastsAtMost(p, t, Id(n), Ballot(p, t, Id(n), off, sees).grant)
    PROVE  CastOnly'
<1> DEFINE b == Ballot(p, t, Id(n), off, sees)
<1>1. TypeOK /\ Id(n) \in Ids /\ Id(n) # None
  BY Zenon, RoundTypes, NoneAssumption DEF IInv
<1>2. /\ b.grant => b.vote = Id(n)
      /\ failoverTerm[p] = t => b.vote = failoverVotedFor[p]
           \/ (failoverVotedFor[p] = None /\ b.vote = Id(n))
  BY <1>1, BallotFacts
<1> HIDE DEF b
<1>3. \A c \in Ids : b.grant /\ Cast(p, t, c) => c = Id(n)
  <2> SUFFICES ASSUME NEW c \in Ids, b.grant, Cast(p, t, c) PROVE c = Id(n)
    OBVIOUS
  <2>1. Covers(failoverTerm[p], failoverVotedFor[p], t, c)
    BY CastCovered
  <2>2. failoverTerm[p] = t /\ failoverVotedFor[p] = c
    BY <1>1, <2>1 DEF Covers, TypeOK
  <2> QED BY <1>2, <2>2, NoneAssumption
<1>4. ASSUME NEW v \in Nodes, NEW u \in Nat, NEW c \in Ids, NEW d \in Ids,
             Cast(v, u, c)', Cast(v, u, d)'
      PROVE  c = d
  <2>1. \/ Cast(v, u, c)
        \/ b.grant /\ v = p /\ u = t /\ c = Id(n)
    BY Zenon, <1>4 DEF b, CastsAtMost
  <2>2. \/ Cast(v, u, d)
        \/ b.grant /\ v = p /\ u = t /\ d = Id(n)
    BY Zenon, <1>4 DEF b, CastsAtMost
  <2>3. CASE Cast(v, u, c) /\ Cast(v, u, d)
    BY Zenon, <2>3 DEF IInv, CastOnly
  <2> QED BY Zenon, <1>3, <2>1, <2>2, <2>3
<1> QED BY Zenon, <1>4 DEF CastOnly

\* No step casts a second vote of a node in a term.
LEMMA CastStep == IInv /\ CastOnly /\ [Next]_vars => CastOnly'
<1> SUFFICES ASSUME IInv, CastOnly, [Next]_vars PROVE CastOnly'
  OBVIOUS
<1>1. TypeOK /\ \A n \in Nodes : round[n] \in Rounds
  BY Zenon DEF IInv, TypeOK
<1>2. ASSUME \A v \in Nodes, u \in Nat, c \in Ids : Cast(v, u, c)' => Cast(v, u, c)
      PROVE  CastOnly'
  BY Zenon, <1>2 DEF CastOnly, IInv
<1>3. ASSUME NEW n \in Nodes, NEW p \in Nodes,
             Advance(n) \/ GiveUp(n) \/ Lose(n) \/ Win(n) \/ LoseVote(n, p)
      PROVE  CastOnly'
  <2>1. handler' = handler /\ granted' = granted
    BY Zenon, <1>3 DEF Advance, GiveUp, Lose, Win, LoseVote
  <2>2. \A v \in Nodes : round'[v].pc = "save" => round'[v] = round[v]
    <3>1. CASE Advance(n)
      BY Zenon, <3>1 DEF Advance
    <3>2. CASE GiveUp(n)
      BY ZenonT(40), <1>1, <3>2 DEF GiveUp, TypeOK, Rounds
    <3>3. CASE Lose(n) \/ Win(n)
      BY <1>1, <3>3 DEF Lose, Win, TypeOK, NoRound
    <3>4. CASE LoseVote(n, p)
      BY Zenon, <1>1, <3>4 DEF LoseVote, TypeOK, Rounds
    <3> QED BY Zenon, <1>3, <3>1, <3>2, <3>3, <3>4
  <2> QED BY <1>2, <2>1, <2>2 DEF Cast
<1>4. ASSUME NEW n \in Nodes, Collect(n) PROVE CastOnly'
  <2>1. handler' = handler /\ granted' = granted
    BY Zenon, <1>4 DEF Collect
  <2>2. \A v \in Nodes : round'[v].pc = "save" => round'[v] = round[v]
    BY ZenonT(40), <1>1, <1>4 DEF Collect, TypeOK, NoRound
  <2> QED BY ZenonT(40), <1>2, <2>1, <2>2 DEF Cast
<1>5. ASSUME NEW n \in Nodes, SelfSave(n) PROVE CastOnly'
  <2>1. handler' = handler
    BY Zenon, <1>5 DEF SelfSave
  <2>2. \A v \in Nodes : round'[v].pc = "save" => round'[v] = round[v]
    BY <1>1, <1>5 DEF SelfSave, TypeOK, Rounds, NoRound
  <2>3. \A v, u, c : <<v, u, c>> \in granted' => Cast(v, u, c)
    BY <1>5 DEF SelfSave, Return, Cast
  <2> QED BY <1>2, <2>1, <2>2, <2>3 DEF Cast
<1>6. ASSUME NEW p \in Nodes, Answer(p) \/ AnswerFails(p) PROVE CastOnly'
  <2>1. \A v \in Nodes : handler'[v] # None => handler'[v] = handler[v]
    BY Zenon, <1>1, <1>6 DEF Answer, AnswerFails, TypeOK
  <2>2. \A v \in Nodes : round'[v].pc = "save" => round'[v] = round[v]
    <3>1. CASE AnswerFails(p)
      BY ZenonT(40), <1>1, <3>1 DEF AnswerFails, TypeOK, Rounds
    <3>2. CASE Answer(p)
      <4> DEFINE b == handler[p]
                 n == b.cand[1]
                 r == Counted(round[n], p, b.grant)
      <4>1. round' = round \/ round' = [round EXCEPT ![n] = r]
        BY Zenon, <3>2 DEF Answer
      <4>2. n \in Nodes /\ b.grant \in BOOLEAN
        BY Zenon, <1>1, <3>2 DEF Answer, TypeOK, Ballots, Ids
      <4>3. r.pc # "save"
        BY Zenon, <1>1, <4>2, CountedRound
      <4> HIDE DEF n, r
      <4> QED BY Zenon, <1>1, <4>1, <4>2, <4>3 DEF TypeOK
    <3> QED BY <1>6, <3>1, <3>2
  <2>3. \A v, u, c : <<v, u, c>> \in granted' => Cast(v, u, c)
    BY <1>6 DEF Answer, AnswerFails, Return, Cast
  <2> QED BY <1>2, <2>1, <2>2, <2>3 DEF Cast
<1>7. ASSUME NEW n \in Nodes, Restart(n) PROVE CastOnly'
  <2>1. granted' = granted
    BY Zenon, <1>7 DEF Restart
  <2>2. \A v \in Nodes : /\ round'[v].pc = "save" => round'[v] = round[v]
                         /\ handler'[v] # None => handler'[v] = handler[v]
    BY Zenon, <1>1, <1>7 DEF Restart, TypeOK, NoRound
  <2> QED BY ZenonT(40), <1>2, <2>1, <2>2 DEF Cast
<1>8. ASSUME NEW n \in Nodes, SelfVote(n) PROVE CastOnly'
  <2>1. handler' = handler /\ granted' = granted
    BY Zenon, <1>8 DEF SelfVote
  <2>2. CASE round[n].term < failoverTerm[n]
    <3>1. \A v \in Nodes : round'[v].pc = "save" => round'[v] = round[v]
      BY <1>1, <1>8, <2>2 DEF SelfVote, TypeOK, NoRound
    <3> QED BY <1>2, <2>1, <3>1 DEF Cast
  <2>3. CASE ~(round[n].term < failoverTerm[n])
    <3> DEFINE t == round[n].term
    <3>1. PICK sees \in BOOLEAN :
            LET b == Ballot(n, t, Id(n), round[n].offset, sees)
            IN  round' = [round EXCEPT ![n].pc = "save", ![n].ballot = b]
      BY Zenon, <1>8, <2>3 DEF SelfVote
    <3> DEFINE b == Ballot(n, t, Id(n), round[n].offset, sees)
    <3>2. /\ t \in Nat /\ round[n].offset \in Nat /\ Id(n) \in Ids
          /\ failoverTerm[n] <= t
      BY <1>1, <2>3, RoundTypes
    <3>3. b.term = t /\ b.cand = Id(n)
      BY <1>1, <3>2, BallotFacts
    <3> HIDE DEF b, t
    <3>4. /\ round'[n].ballot = b
          /\ \A v \in Nodes \ {n} : round'[v] = round[v]
      BY <1>1, <3>1 DEF TypeOK, Rounds, b
    <3>5. \A v \in Nodes, u \in Nat, c \in Ids : Cast(v, u, c)' =>
            \/ Cast(v, u, c)
            \/ b.grant /\ v = n /\ u = t /\ c = Id(n)
      <4> SUFFICES ASSUME NEW v \in Nodes, NEW u \in Nat, NEW c \in Ids, Cast(v, u, c)'
                   PROVE  Cast(v, u, c) \/ (b.grant /\ v = n /\ u = t /\ c = Id(n))
        OBVIOUS
      <4>1. CASE v # n
        BY Zenon, <2>1, <3>4, <4>1 DEF Cast
      <4>2. CASE v = n
        BY Zenon, <2>1, <3>3, <3>4, <4>2 DEF Cast
      <4> QED BY <4>1, <4>2
    <3> DEFINE off == round[n].offset
    <3>6. CastsAtMost(n, t, Id(n), Ballot(n, t, Id(n), off, sees).grant)
      BY Zenon, <3>5 DEF b, CastsAtMost
    <3>7. off \in Nat /\ t \in Nat /\ failoverTerm[n] <= t
      BY Zenon, <3>2
    <3> HIDE DEF off
    <3> QED BY Zenon, <3>6, <3>7, RegisterCasts
  <2> QED BY <2>2, <2>3
<1>9. ASSUME NEW n \in Nodes, NEW p \in Nodes, AskVote(n, p) PROVE CastOnly'
  <2>1. granted' = granted
    BY Zenon, <1>9 DEF AskVote
  <2>2. CASE round[n].term < failoverTerm[p]
    <3>1. handler' = handler
      BY Zenon, <1>9, <2>2 DEF AskVote
    <3>2. \A v \in Nodes : round'[v].pc = "save" => round'[v] = round[v]
      BY <1>1, <1>9, <2>2 DEF AskVote, TypeOK, NoRound
    <3> QED BY Zenon, <1>2, <2>1, <3>1, <3>2 DEF Cast
  <2>3. CASE ~(round[n].term < failoverTerm[p])
    <3> DEFINE t == round[n].term
    <3>1. PICK sees \in BOOLEAN :
            LET b == Ballot(p, t, Id(n), round[n].offset, sees)
            IN  /\ handler' = [handler EXCEPT ![p] = b]
                /\ round' = [round EXCEPT ![n].pc = "wait", ![n].peer = p,
                                          ![n].todo = @ \ {p}]
      BY Zenon, <1>9, <2>3 DEF AskVote
    <3> DEFINE b == Ballot(p, t, Id(n), round[n].offset, sees)
    <3>2. /\ t \in Nat /\ round[n].offset \in Nat /\ Id(n) \in Ids
          /\ failoverTerm[p] <= t
      BY <1>1, <2>3, RoundTypes
    <3>3. b.term = t /\ b.cand = Id(n)
      BY <1>1, <3>2, BallotFacts
    <3> HIDE DEF b, t
    <3> DEFINE off == round[n].offset
    <3>4. /\ handler'[p] = b
          /\ \A v \in Nodes \ {p} : handler'[v] = handler[v]
          /\ \A v \in Nodes : round'[v].pc = "save" => round'[v] = round[v]
      BY ZenonT(40), <1>1, <3>1 DEF TypeOK, Rounds, b
    <3>5. \A v \in Nodes, u \in Nat, c \in Ids : Cast(v, u, c)' =>
            \/ Cast(v, u, c)
            \/ b.grant /\ v = p /\ u = t /\ c = Id(n)
      <4> SUFFICES ASSUME NEW v \in Nodes, NEW u \in Nat, NEW c \in Ids, Cast(v, u, c)'
                   PROVE  Cast(v, u, c) \/ (b.grant /\ v = p /\ u = t /\ c = Id(n))
        OBVIOUS
      <4>1. CASE v # p
        BY Zenon, <2>1, <3>4, <4>1 DEF Cast
      <4>2. CASE v = p
        BY Zenon, <2>1, <3>3, <3>4, <4>2 DEF Cast
      <4> QED BY <4>1, <4>2
    <3>6. CastsAtMost(p, t, Id(n), Ballot(p, t, Id(n), off, sees).grant)
      BY Zenon, <3>5 DEF b, CastsAtMost
    <3>7. off \in Nat /\ t \in Nat /\ failoverTerm[p] <= t
      BY Zenon, <3>2
    <3> HIDE DEF off
    <3> QED BY Zenon, <3>6, <3>7, RegisterCasts
  <2> QED BY <2>2, <2>3
<1>10. CASE UNCHANGED vars
  BY ZenonT(40), <1>2, <1>10 DEF vars, Cast
<1> QED BY Zenon, <1>3, <1>4, <1>5, <1>6, <1>7, <1>8, <1>9, <1>10 DEF Next

\* Every step keeps the invariant.
LEMMA InvariantStep == NoCandidateCrashes /\ IInv /\ [Next]_vars => IInv'
<1> SUFFICES ASSUME NoCandidateCrashes, IInv, [Next]_vars PROVE IInv'
  OBVIOUS
<1>1. TypeOK' /\ BallotHeld'
  BY Zenon, TypeStep DEF IInv
<1>2. Votes'
  <2>1. ASSUME NEW n \in Nodes, Advance(n) PROVE Votes'
    BY Zenon, <2>1, StutterKeeps DEF Advance
  <2>2. ASSUME NEW n \in Nodes, GiveUp(n) \/ Lose(n) \/ \E p \in Nodes : LoseVote(n, p)
        PROVE Votes'
    <3>1. /\ \A m \in Nodes \ {n} : round'[m] = round[m]
          /\ \/ round'[n].pc = "idle" /\ round'[n].votes = {} /\ round'[n].todo = {}
             \/ /\ round[n].pc \in {"ask", "wait"}
                /\ round'[n].pc = "ask"
                /\ round'[n].term = round[n].term
                /\ round'[n].votes = round[n].votes
                /\ round'[n].todo \subseteq round[n].todo
      BY <2>2 DEF GiveUp, Lose, LoseVote, NoRound, IInv, TypeOK, Rounds
    <3>2. UNCHANGED <<inc, failoverTerm, failoverVotedFor, disk, handler, granted, winners>>
      BY Zenon, <2>2 DEF GiveUp, Lose, LoseVote
    <3> QED BY <3>1, <3>2, RoundOnly
  <2>3. ASSUME NEW p \in Nodes, AnswerFails(p) PROVE Votes'
    <3> DEFINE n == handler[p].cand[1]
    <3>1. n \in Nodes
      BY Zenon, <2>3 DEF AnswerFails, IInv, TypeOK, Ballots, Ids
    <3>2. UNCHANGED <<inc, failoverTerm, failoverVotedFor, disk, granted, winners>>
          /\ handler' = [handler EXCEPT ![p] = None]
      BY Zenon, <2>3 DEF AnswerFails
    <3>3. \/ round' = round
          \/ /\ round[n].pc = "wait"
             /\ round' = [round EXCEPT ![n].pc = "ask", ![n].peer = None]
      BY Zenon, <2>3 DEF AnswerFails, Awaits
    <3> HIDE DEF n
    <3>4. CASE round' = round
      BY ZenonT(40), <3>2, <3>4 DEF IInv, Votes, VotesCovered, CrashersPassive, AskedOnce,
                        VotesCounted, Id, Candidates, TypeOK
    <3>5. CASE /\ round[n].pc = "wait"
               /\ round' = [round EXCEPT ![n].pc = "ask", ![n].peer = None]
      <4>1. /\ \A m \in Nodes \ {n} : round'[m] = round[m]
            /\ round'[n].pc = "ask"
            /\ round'[n].term = round[n].term
            /\ round'[n].votes = round[n].votes
            /\ round'[n].todo = round[n].todo
        BY <3>1, <3>5 DEF IInv, TypeOK, Rounds
      <4> QED BY Zenon, <3>1, <3>2, <3>5, <4>1, RoundOnly
    <3> QED BY <3>3, <3>4, <3>5
  <2>4. CASE UNCHANGED vars
    BY Zenon, <2>4, StutterKeeps DEF vars
  <2> QED
    BY Zenon, <2>1, <2>2, <2>3, <2>4, CollectKeeps, SelfVoteKeeps, SelfSaveKeeps,
       AskVoteKeeps, AnswerKeeps, RestartKeeps, WinKeeps DEF Next
<1>3. CastOnce'
  <2>1. CastOnly
    BY Zenon, CastForm DEF IInv
  <2>2. CastOnly'
    BY <2>1, CastStep
  <2>3. (TypeOK /\ BallotHeld => (CastOnce <=> CastOnly))'
    BY CastForm, PTL
  <2> QED BY <1>1, <2>2, <2>3
<1> QED BY Zenon, <1>1, <1>2, <1>3 DEF IInv, Votes

INSTANCE FiniteSetTheorems

\* Two quorums of the group share a node: failover_quorum is a majority.
LEMMA QuorumsMeet ==
    ASSUME NEW A \in SUBSET Nodes, NEW B \in SUBSET Nodes,
           Cardinality(A) >= Quorum, Cardinality(B) >= Quorum
    PROVE  \E v \in Nodes : v \in A /\ v \in B
<1>1. IsFiniteSet(A) /\ IsFiniteSet(B)
  BY Zenon, GroupAssumption, FS_Subset
<1>2. /\ IsFiniteSet(A \cup B)
      /\ Cardinality(A \cup B)
           = Cardinality(A) + Cardinality(B) - Cardinality(A \cap B)
  BY <1>1, FS_Union
<1>3. Cardinality(A \cup B) <= Cardinality(Nodes)
  <2>1. A \cup B \subseteq Nodes
    OBVIOUS
  <2> QED BY ZenonT(40), <2>1, GroupAssumption, FS_Subset
<1>4. /\ Cardinality(A) \in Nat /\ Cardinality(B) \in Nat
      /\ Cardinality(Nodes) \in Nat
  BY <1>1, GroupAssumption, FS_CardinalityType
<1>5. SUFFICES ASSUME A \cap B = {} PROVE FALSE
  OBVIOUS
<1>6. Cardinality(A \cap B) = 0
  BY <1>5, FS_EmptySet
<1> QED BY <1>2, <1>3, <1>4, <1>6, GroupAssumption

\* The invariant excludes two votes of one node in a term, and with them two
\* winners of one term.
LEMMA InvariantSuffices == IInv => OneVotePerTerm /\ ElectionSafety
<1> SUFFICES ASSUME IInv PROVE OneVotePerTerm /\ ElectionSafety
  OBVIOUS
<1>1. OneVotePerTerm
  BY Zenon DEF IInv, OneVotePerTerm, CastOnce, CastVotes
<1>2. ElectionSafety
  <2> SUFFICES ASSUME NEW a \in winners, NEW w \in winners, a[1] = w[1]
               PROVE  a[2] = w[2]
    BY Zenon DEF ElectionSafety
  <2>1. PICK A \in SUBSET Nodes : /\ Cardinality(A) >= Quorum
                                  /\ \A v \in A : <<v, a[1], a[2]>> \in granted
    BY Zenon DEF IInv, VotesCounted
  <2>2. PICK B \in SUBSET Nodes : /\ Cardinality(B) >= Quorum
                                  /\ \A v \in B : <<v, w[1], w[2]>> \in granted
    BY Zenon DEF IInv, VotesCounted
  <2>3. PICK v \in Nodes : v \in A /\ v \in B
    BY Zenon, <2>1, <2>2, QuorumsMeet
  <2>4. <<v, a[1], a[2]>> \in granted /\ <<v, w[1], w[2]>> \in granted
    BY Zenon, <2>1, <2>2, <2>3
  <2> QED BY Zenon, <1>1, <2>4 DEF OneVotePerTerm
<1> QED BY <1>1, <1>2

\* As long as only nodes that are never candidates crash, the votes a node has
\* returned or is about to return are excluded from being given again by its
\* register, and by its sidecar where it may crash; a winner was voted for by a
\* quorum (requestFailoverVote, runFailoverElectionRound).
THEOREM InvariantHolds ==
    ASSUME NoCandidateCrashes
    PROVE  Spec => []IInv
<1>1. Init => IInv
  <2>1. Init => BallotHeld
    BY DEF Init, BallotHeld, NoRound
  <2>2. Init => CastOnce
    BY DEF Init, CastOnce, CastVotes, NoRound
  <2> QED BY ZenonT(40), <2>1, <2>2, TypeInit, VotesInit DEF IInv, Votes
<1>2. IInv /\ [Next]_vars => IInv'
  BY InvariantStep
<1> QED BY <1>1, <1>2, PTL DEF Spec

\* As long as only nodes that are never candidates crash, no node returns two
\* votes in one term, whatever requests, failed sidecar writes, lost answers
\* and restarts happen (requestFailoverVote).
THEOREM VotesExclusive ==
    ASSUME NoCandidateCrashes
    PROVE  Spec => []OneVotePerTerm
BY InvariantHolds, InvariantSuffices, PTL

\* Under the same assumption no term has two winners (runFailoverElectionRound).
THEOREM OneWinner ==
    ASSUME NoCandidateCrashes
    PROVE  Spec => []ElectionSafety
BY InvariantHolds, InvariantSuffices, PTL
=============================================================================
