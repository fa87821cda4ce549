----------------------------- MODULE Membership -----------------------------
(***************************************************************************)
(* Changing the members of a failover group at run time                    *)
(* (internal/server/failover_membership.go, failover_discovery.go, the     *)
(* record of replication_persistence.go, the SNUG.FAILOVER commands).      *)
(*                                                                         *)
(* The primary coordinates: the members of the proposal PREPARE (they      *)
(* become joint), the removed members consent to retire, the coordinator   *)
(* makes its intent durable, and from then on a retry that maintenance     *)
(* repeats retires the removed members, commits locally and brings every   *)
(* member to the new epoch.  An abort is sent once and not repeated.       *)
(*                                                                         *)
(* rec[n] is the durable record, which the process keeps in memory as      *)
(* well: every handler changes memory, writes the file and puts memory     *)
(* back when the write fails, so a failed write is a call that did         *)
(* nothing and answered with an error.  A call reaches its target or not,  *)
(* and its answer the caller or not.  A crash loses the threads.           *)
(***************************************************************************)
EXTENDS Integers, FiniteSets

CONSTANTS Nodes, None,
          Deployments   \* the groups and proposals that are checked

VARIABLES
    conf,     \* the deployment
    rec,      \* rec[n]: the membership of n: memory and file
    co,       \* co[n]: coordinateFailoverMembershipChange on n
    retry,    \* retry[n][th]: retryFailoverMembershipCommit, by the coordination and by maintenance
    known,    \* known[n]: failoverDiscovered
    budget,   \* proposals, lost calls and crashes still to come
    prepared  \* history: prepared[e], who had prepared and consented when e was armed

vars == <<conf, rec, co, retry, known, budget, prepared>>

Members0 == conf.members          \* the group at the start
Coordinators == conf.coordinators \* the nodes with the role of a primary
Proposals == conf.proposals       \* the member sets an operator may propose
Threads == {"op", "maint"}

\* A majority that half the members make.
HalfMajority(S) == Cardinality(S) \div 2

Majority(S) == Cardinality(S) \div 2 + 1
NoPend == [epoch |-> 0, members |-> {}, quorum |-> 0]
NoCo == [pc |-> "idle", epoch |-> 0, new |-> NoPend, todo |-> {}, acks |-> {}, consent |-> {}]
NoRetry == [pc |-> "idle", todo |-> {}, at |-> None, all |-> TRUE]

Init ==
    /\ conf \in Deployments
    /\ rec = [n \in Nodes |->
          [epoch |-> 1, members |-> Members0 \cup {n}, quorum |-> Majority(Members0 \cup {n}), joint |-> FALSE,
           pend |-> NoPend, commit |-> None, retired |-> 0, retiring |-> 0]]
    /\ co = [n \in Nodes |-> NoCo]
    /\ retry = [n \in Nodes |-> [th \in Threads |-> NoRetry]]
    /\ known = [n \in Nodes |-> {}]
    /\ budget = conf.budget
    /\ prepared = [e \in {} |-> {}]

-----------------------------------------------------------------------------
(* The handlers of a member: what a call does to its record, and whether   *)
(* the answer says accepted.                                               *)

Answer(r, ok) == [rec |-> r, ok |-> ok]

\* validateFailoverPeerSet and deriveFailoverPeersForMember.
Valid(n, new) == n \in new.members /\ new.quorum \in Majority(new.members) .. Cardinality(new.members)

prepareMembership(n, r, cur, new) ==
    IF r.epoch # cur \/ new.epoch <= cur \/ ~Valid(n, new) THEN Answer(r, FALSE)
    ELSE IF r.joint THEN Answer(r, r.pend = new)
    ELSE Answer([r EXCEPT !.joint = TRUE, !.pend = new], TRUE)

\* A commit that installs the epoch and not the peers.
commitEpochOnly(r, e) ==
    IF ~r.joint \/ r.pend.epoch # e THEN Answer(r, FALSE)
    ELSE Answer([r EXCEPT !.epoch = e, !.joint = FALSE, !.pend = NoPend], TRUE)

\* A commit that leaves the proposal behind.
commitStaysPending(r, e) ==
    IF ~r.joint \/ r.pend.epoch # e THEN Answer(r, FALSE)
    ELSE Answer([r EXCEPT !.epoch = e, !.members = r.pend.members, !.quorum = r.pend.quorum,
                          !.joint = FALSE], TRUE)

\* COMMIT names the epoch alone.
commitMembership(r, e) ==
    IF ~r.joint \/ r.pend.epoch # e THEN Answer(r, FALSE)
    ELSE Answer([r EXCEPT !.epoch = e, !.members = r.pend.members, !.quorum = r.pend.quorum,
                          !.joint = FALSE, !.pend = NoPend,
                          !.retiring = IF @ = e THEN 0 ELSE @], TRUE)

abortMembership(r, e) ==
    IF ~r.joint \/ r.pend.epoch # e THEN Answer(r, FALSE)
    ELSE Answer([r EXCEPT !.joint = FALSE, !.pend = NoPend], TRUE)

prepareRetirement(r, cur, at) ==
    IF r.epoch # cur THEN Answer(r, FALSE)
    ELSE IF r.retired # 0 THEN Answer(r, r.retired = at)
    ELSE IF r.retiring # 0 THEN Answer(r, r.retiring = at)
    ELSE Answer([r EXCEPT !.retiring = at], TRUE)

\* A retirement that is not written.
retireInMind(r, cur, at) == Answer(r, TRUE)

retireMember(r, cur, at) ==
    IF r.epoch # cur THEN Answer(r, FALSE)
    ELSE IF r.retired # 0 THEN Answer(r, r.retired = at)
    ELSE IF r.retiring # at THEN Answer(r, FALSE)
    ELSE Answer([r EXCEPT !.retired = at, !.retiring = 0], TRUE)

\* A call: it is answered, or it did its work and the answer is lost, or it never
\* came to the target.  NoAnswer is what the caller sees of the last two.
NoAnswer == [rec |-> None, ok |-> FALSE]
Spend(what) == budget[what] > 0 /\ budget' = [budget EXCEPT ![what] = @ - 1]

Called(t, answer) ==
    {[seen |-> answer, left |-> answer.rec, lost |-> 0]}
      \cup {[seen |-> NoAnswer, left |-> r, lost |-> 1] : r \in {rec[t], answer.rec}}

Takes(t, a) ==
    /\ a.lost <= budget["losses"]
    /\ budget' = [budget EXCEPT !["losses"] = @ - a.lost]
    /\ rec' = [rec EXCEPT ![t] = a.left]

-----------------------------------------------------------------------------
(* coordinateFailoverMembershipChange                                      *)

\* The checks, and the local PREPARE.
Coordinate(n, members) ==
    LET r == rec[n]
        new == [epoch |-> r.epoch + 1, members |-> members, quorum |-> Majority(members)]
        answer == prepareMembership(n, r, r.epoch, new)
    IN  /\ co[n].pc = "idle" /\ n \in Coordinators
        /\ ~r.joint /\ r.commit = None
        /\ answer.ok
        /\ Spend("proposals")
        /\ rec' = [rec EXCEPT ![n] = answer.rec]
        /\ co' = [co EXCEPT ![n] = [pc |-> "prepare", epoch |-> r.epoch, new |-> new,
                                    todo |-> members \ {n}, acks |-> {n}, consent |-> {}]]
        /\ UNCHANGED <<conf, retry, known, prepared>>

MembershipChange(n) == \E members \in Proposals : Coordinate(n, members)

\* Every other member is taken for removed.
RemovedOthers(n) == rec[n].members \ {n}

Removed(n) == rec[n].members \ co[n].new.members
OldAcks(n) == Cardinality((co[n].acks \cap rec[n].members) \cup co[n].consent)
\* Answers that were never given are counted.
NewAcksHoped(n) == Cardinality(co[n].new.members)

NewAcks(n) == Cardinality(co[n].acks)

\* PREPARE at one member of the proposal.
PrepareNext(n) ==
    LET c == co[n]
    IN  /\ c.pc = "prepare"
        /\ \E t \in c.todo :
              \E a \in Called(t, prepareMembership(t, rec[t], c.epoch, c.new)) :
                 /\ Takes(t, a)
                 /\ co' = [co EXCEPT ![n].todo = @ \ {t},
                                               ![n].acks = IF a.seen.ok THEN @ \cup {t} ELSE @]
        /\ UNCHANGED <<conf, retry, known, prepared>>

\* The first count: the consent of the removed members is still to come.
PrepareDone(n) ==
    LET c == co[n]
    IN  /\ c.pc = "prepare" /\ c.todo = {}
        /\ co' = [co EXCEPT ![n] =
              IF NewAcks(n) < c.new.quorum \/ OldAcks(n) + Cardinality(Removed(n)) < rec[n].quorum
                THEN [c EXCEPT !.pc = "abort", !.todo = c.acks \ {n}]
                ELSE [c EXCEPT !.pc = "consent", !.todo = Removed(n)]]
        /\ UNCHANGED <<conf, rec, retry, known, budget, prepared>>

\* RETIREPREPARE at one removed member.
ConsentNext(n) ==
    LET c == co[n]
    IN  /\ c.pc = "consent"
        /\ \E t \in c.todo :
              \E a \in Called(t, prepareRetirement(rec[t], c.epoch, c.new.epoch)) :
                 /\ Takes(t, a)
                 /\ co' = [co EXCEPT ![n].todo = @ \ {t},
                                               ![n].consent = IF a.seen.ok THEN @ \cup {t} ELSE @]
        /\ UNCHANGED <<conf, retry, known, prepared>>

\* The second count, and armFailoverMembershipCommitRecovery: the intent is durable
\* and the first retry starts.  When the record cannot be written the coordination
\* ends with an error, and the node stays joint.
ConsentDone(n) ==
    LET c == co[n]
    IN  /\ c.pc = "consent" /\ c.todo = {}
        /\ IF OldAcks(n) < rec[n].quorum
             THEN /\ co' = [co EXCEPT ![n] = [c EXCEPT !.pc = "abort", !.todo = c.acks \ {n}]]
                  /\ UNCHANGED <<rec, retry, budget, prepared>>
             ELSE /\ co' = [co EXCEPT ![n] = NoCo]
                  /\ \/ /\ rec' = [rec EXCEPT ![n].commit =
                             [old |-> c.epoch, new |-> c.new, retire |-> c.consent]]
                        /\ retry' = [retry EXCEPT ![n]["op"] = [NoRetry EXCEPT !.pc = "retire", !.todo = c.consent]]
                        /\ prepared' = [e \in DOMAIN prepared \cup {c.new.epoch} |->
                              IF e = c.new.epoch THEN [acks |-> c.acks, consent |-> c.consent, old |-> rec[n]]
                                                   ELSE prepared[e]]
                        /\ UNCHANGED budget
                     \/ Spend("losses") /\ UNCHANGED <<rec, retry, prepared>>
        /\ UNCHANGED <<conf, known>>

\* ABORT at one member that prepared; the answer is not looked at.
AbortNext(n) ==
    LET c == co[n]
    IN  /\ c.pc = "abort"
        /\ \E t \in c.todo :
              \E a \in Called(t, abortMembership(rec[t], c.new.epoch)) :
                 /\ Takes(t, a)
                 /\ co' = [co EXCEPT ![n].todo = @ \ {t}]
        /\ UNCHANGED <<conf, retry, known, prepared>>

AbortDone(n) ==
    LET c == co[n]
    IN  /\ c.pc = "abort" /\ c.todo = {}
        /\ \/ rec' = [rec EXCEPT ![n] = abortMembership(rec[n], c.new.epoch).rec] /\ UNCHANGED budget
           \/ Spend("losses") /\ UNCHANGED rec
        /\ co' = [co EXCEPT ![n] = NoCo]
        /\ UNCHANGED <<conf, retry, known, prepared>>

-----------------------------------------------------------------------------
(* retryFailoverMembershipCommit                                           *)

Becomes(n, th, r) == retry' = [retry EXCEPT ![n][th] = r]

\* A retry that stops once the coordinator itself has committed.
StartRetryJoint(n) ==
    /\ retry[n]["maint"].pc = "idle" /\ rec[n].commit # None /\ rec[n].joint
    /\ Becomes(n, "maint", [NoRetry EXCEPT !.pc = "retire", !.todo = rec[n].commit.retire])
    /\ UNCHANGED <<conf, rec, co, known, budget, prepared>>

\* Maintenance and RETRYTRANSITION start a retry when an intent is recorded.
StartRetry(n) ==
    /\ retry[n]["maint"].pc = "idle" /\ rec[n].commit # None
    /\ Becomes(n, "maint", [NoRetry EXCEPT !.pc = "retire", !.todo = rec[n].commit.retire])
    /\ UNCHANGED <<conf, rec, co, known, budget, prepared>>

\* The intent that the thread works on: a thread that finds it cleared ends.
Intent(n) == rec[n].commit
Lives(n, th, pc) == retry[n][th].pc = pc /\ Intent(n) # None

\* The state of a removed member decides between done, consent first, and give up.
RetireQuery(n, th) ==
    LET q == retry[n][th]
        i == Intent(n)
    IN  /\ Lives(n, th, "retire")
        /\ \E t \in q.todo :
              \E a \in Called(t, Answer(rec[t], TRUE)) :
                 /\ Takes(t, a)
                 /\ Becomes(n, th,
                    IF a.seen.rec = None THEN NoRetry
                    ELSE IF a.seen.rec.retired = i.new.epoch THEN [q EXCEPT !.todo = @ \ {t}]
                    ELSE IF a.seen.rec.epoch # i.old THEN NoRetry
                    ELSE [q EXCEPT !.at = t, !.pc = IF a.seen.rec.retiring # i.new.epoch THEN "reconsent" ELSE "finalize"])
        /\ UNCHANGED <<conf, co, known, prepared>>

Reconsent(n, th) ==
    LET q == retry[n][th]
        i == Intent(n)
    IN  /\ Lives(n, th, "reconsent")
        /\ \E a \in Called(q.at, prepareRetirement(rec[q.at], i.old, i.new.epoch)) :
              /\ Takes(q.at, a)
              /\ Becomes(n, th, IF a.seen.ok THEN [q EXCEPT !.pc = "finalize"] ELSE NoRetry)
        /\ UNCHANGED <<conf, co, known, prepared>>

Finalize(n, th) ==
    LET q == retry[n][th]
        i == Intent(n)
    IN  /\ Lives(n, th, "finalize")
        /\ \E a \in Called(q.at, retireMember(rec[q.at], i.old, i.new.epoch)) :
              /\ Takes(q.at, a)
              /\ Becomes(n, th, IF a.seen.ok THEN [q EXCEPT !.pc = "retire", !.todo = @ \ {q.at}] ELSE NoRetry)
        /\ UNCHANGED <<conf, co, known, prepared>>

\* The local COMMIT, once every removed member of the record has retired.
CommitLocal(n, th) ==
    LET q == retry[n][th]
        i == Intent(n)
        due == rec[n].joint /\ rec[n].epoch = i.old /\ rec[n].pend.epoch = i.new.epoch
        after == IF due THEN commitMembership(rec[n], i.new.epoch).rec ELSE rec[n]
    IN  /\ Lives(n, th, "retire") /\ q.todo = {}
        /\ \/ /\ rec' = [rec EXCEPT ![n] = after]
              /\ Becomes(n, th, IF after.epoch = i.new.epoch /\ ~after.joint
                                  THEN [NoRetry EXCEPT !.pc = "converge", !.todo = i.new.members \ {n}]
                                  ELSE NoRetry)
              /\ UNCHANGED budget
           \/ due /\ Spend("losses") /\ Becomes(n, th, NoRetry) /\ UNCHANGED rec
        /\ UNCHANGED <<conf, co, known, prepared>>

\* The state of a member: already there, in need of PREPARE, or ready for COMMIT.
ConvergeQuery(n, th) ==
    LET q == retry[n][th]
        i == Intent(n)
    IN  /\ Lives(n, th, "converge")
        /\ \E t \in q.todo :
              \E a \in Called(t, Answer(rec[t], TRUE)) :
                 /\ Takes(t, a)
                 /\ Becomes(n, th,
                    IF a.seen.rec # None /\ a.seen.rec.epoch >= i.new.epoch /\ ~a.seen.rec.joint THEN [q EXCEPT !.todo = @ \ {t}]
                    ELSE IF a.seen.rec # None /\ a.seen.rec.epoch = i.old /\ ~a.seen.rec.joint
                      THEN [q EXCEPT !.at = t, !.pc = "replay"]
                    ELSE [q EXCEPT !.at = t, !.pc = "commit"])
        /\ UNCHANGED <<conf, co, known, prepared>>

ReplayPrepare(n, th) ==
    LET q == retry[n][th]
        i == Intent(n)
    IN  /\ Lives(n, th, "replay")
        /\ \E a \in Called(q.at, prepareMembership(q.at, rec[q.at], i.old, i.new)) :
              /\ Takes(q.at, a)
              /\ Becomes(n, th, IF a.seen.ok THEN [q EXCEPT !.pc = "commit"]
                             ELSE [q EXCEPT !.pc = "converge", !.todo = @ \ {q.at}, !.all = FALSE])
        /\ UNCHANGED <<conf, co, known, prepared>>

CommitNext(n, th) ==
    LET q == retry[n][th]
        i == Intent(n)
    IN  /\ Lives(n, th, "commit")
        /\ \E a \in Called(q.at, commitMembership(rec[q.at], i.new.epoch)) :
              /\ Takes(q.at, a)
              /\ Becomes(n, th,
                 [q EXCEPT !.pc = "converge", !.todo = @ \ {q.at},
                           !.all = @ /\ a.seen.rec # None /\ a.seen.rec.epoch >= i.new.epoch /\ ~a.seen.rec.joint])
        /\ UNCHANGED <<conf, co, known, prepared>>

\* An intent that is cleared after one pass.
ConvergeDoneHasty(n, th) ==
    /\ Lives(n, th, "converge") /\ retry[n][th].todo = {}
    /\ Becomes(n, th, NoRetry)
    /\ rec' = [rec EXCEPT ![n].commit = None]
    /\ UNCHANGED <<conf, co, known, budget, prepared>>

\* clearFailoverMembershipCommitRecovery when every target has answered as it should.
ConvergeDone(n, th) ==
    LET q == retry[n][th]
    IN  /\ Lives(n, th, "converge") /\ q.todo = {}
        /\ Becomes(n, th, NoRetry)
        /\ IF q.all
             THEN \/ rec' = [rec EXCEPT ![n].commit = None] /\ UNCHANGED budget
                  \/ Spend("losses") /\ UNCHANGED rec
             ELSE UNCHANGED <<rec, budget>>
        /\ UNCHANGED <<conf, co, known, prepared>>

\* The other thread has cleared the intent.
RetryEnds(n, th) ==
    /\ retry[n][th].pc # "idle" /\ Intent(n) = None
    /\ Becomes(n, th, NoRetry)
    /\ UNCHANGED <<conf, rec, co, known, budget, prepared>>

-----------------------------------------------------------------------------
(* Discovery and adoption                                                  *)

\* The nodes found breadth first from the seeds and the peers of n, among those
\* that answer: a node of another epoch is neither kept nor asked for its members.
Reached(n, answering) ==
    LET matching == {t \in answering \ {n} : rec[t].epoch = rec[n].epoch}
        hop(S) == S \cup UNION {rec[t].members : t \in S \cap matching}
        first == conf.seeds \cup rec[n].members
    IN  hop(hop(hop(first))) \cap matching

refreshDiscovery(n) ==
    /\ Spend("polls")
    /\ \E answering \in SUBSET Nodes, evicted \in SUBSET known[n] :
          LET found == Reached(n, answering)
          IN  /\ \A e \in evicted : ~e.fresh
              /\ known' = [known EXCEPT ![n] =
                    {e \in @ \ evicted : e.addr \notin found}
                    \cup {[addr |-> t, epoch |-> rec[t].epoch, retired |-> rec[t].retired # 0, fresh |-> TRUE] :
                            t \in found}]
    /\ UNCHANGED <<conf, rec, co, retry, prepared>>

\* An entry outlives its freshness.
Age(n) ==
    /\ \E e \in known[n] :
          /\ e.fresh
          /\ known' = [known EXCEPT ![n] = (@ \ {e}) \cup {[e EXCEPT !.fresh = FALSE]}]
    /\ UNCHANGED <<conf, rec, co, retry, budget, prepared>>

\* ADOPTDISCOVERED: the plan only adds, and goes through the protocol.
adoptDiscovered(n) ==
    LET added == {e.addr : e \in {x \in known[n] : x.fresh /\ ~x.retired /\ x.epoch = rec[n].epoch}}
                 \ rec[n].members
    IN  added # {} /\ Coordinate(n, rec[n].members \cup added)

-----------------------------------------------------------------------------
Crash(n) ==
    /\ Spend("crashes")
    /\ co' = [co EXCEPT ![n] = NoCo]
    /\ retry' = [retry EXCEPT ![n] = [th \in Threads |-> NoRetry]]
    /\ known' = [known EXCEPT ![n] = {}]
    /\ UNCHANGED <<conf, rec, prepared>>

Retry(n, th) ==
    \/ RetireQuery(n, th) \/ Reconsent(n, th) \/ Finalize(n, th) \/ CommitLocal(n, th)
    \/ ConvergeQuery(n, th) \/ ReplayPrepare(n, th) \/ CommitNext(n, th) \/ ConvergeDone(n, th)
    \/ RetryEnds(n, th)

Coordination(n) ==
    PrepareNext(n) \/ PrepareDone(n) \/ ConsentNext(n) \/ ConsentDone(n) \/ AbortNext(n) \/ AbortDone(n)

Next ==
    \E n \in Nodes :
        \/ MembershipChange(n) \/ adoptDiscovered(n) \/ Coordination(n)
        \/ StartRetry(n) \/ \E th \in Threads : Retry(n, th)
        \/ refreshDiscovery(n) \/ Age(n) \/ Crash(n)

Spec == Init /\ [][Next]_vars

\* The coordination goes on, and maintenance runs again and again.
Fairness ==
    \A n \in Nodes :
        /\ WF_vars(Coordination(n)) /\ WF_vars(StartRetry(n))
        /\ \A th \in Threads : WF_vars(Retry(n, th))

LiveSpec == Spec /\ Fairness

-----------------------------------------------------------------------------
(* Properties                                                              *)

Config(r) == [members |-> r.members, quorum |-> r.quorum]

TypeOK ==
    /\ \A n \in Nodes :
          /\ rec[n].epoch \in Nat \ {0} /\ rec[n].members \subseteq Nodes
          /\ rec[n].joint = (rec[n].pend # NoPend)
          /\ rec[n].joint => rec[n].pend.epoch > rec[n].epoch
          /\ co[n].todo \subseteq Nodes /\ co[n].consent \subseteq Nodes
          /\ \A e \in known[n] : e.addr \in Nodes \ {n}
    /\ \A what \in DOMAIN budget : budget[what] >= 0

\* Two members that have committed the same epoch agree on the members and the
\* quorum: one list is distributed per epoch.
EpochsAgree ==
    \A m, n \in Nodes : rec[m].epoch = rec[n].epoch /\ rec[n].epoch > 1 => Config(rec[m]) = Config(rec[n])

\* An epoch is committed anywhere only after a quorum of the old members has
\* prepared or consented to retire, and a quorum of the new ones has prepared.
DualMajority ==
    \A n \in Nodes : rec[n].epoch > 1 =>
        /\ rec[n].epoch \in DOMAIN prepared
        /\ LET p == prepared[rec[n].epoch]
           IN  /\ Cardinality(p.acks \cap rec[n].members) >= rec[n].quorum
               /\ Cardinality((p.acks \cup p.consent) \cap p.old.members) >= p.old.quorum

\* No node is at the new epoch before the removed members of the record have
\* retired, whatever crashed: an excluded member that consented cannot take part.
RetiredFirst ==
    \A n \in Nodes : Intent(n) # None =>
        \A m \in Nodes : rec[m].epoch >= Intent(n).new.epoch =>
            \A t \in Intent(n).retire : rec[t].retired = Intent(n).new.epoch

\* A retired node is in no configuration from its retirement on.
RetiredStaysOut ==
    \A t, n \in Nodes : rec[t].retired # 0 /\ rec[n].epoch >= rec[t].retired => t \notin rec[n].members

\* Epochs never go back and an intent, once durable, ends only when every member
\* of the new configuration has reached its epoch.
ForwardStep ==
    \A n \in Nodes :
        /\ rec'[n].epoch >= rec[n].epoch
        /\ Intent(n) # None => \/ rec'[n].commit = rec[n].commit
                               \/ \A t \in Intent(n).new.members : rec[t].epoch >= Intent(n).new.epoch
CommitForward == [][ForwardStep]_vars

\* The voters a candidate counts: its members of the same epoch, not retired.
Voters(n) == {t \in rec[n].members : rec[t].epoch = rec[n].epoch /\ rec[t].retired = 0}
Electable(n) == ~rec[n].joint /\ rec[n].retired = 0 /\ n \in Voters(n)

\* When one member is added or removed at a time, two candidates never have
\* disjoint quorums, in any mixture of nodes at the old and at the new epoch.
QuorumsMeet ==
    \A m, n \in Members0 : Electable(m) /\ Electable(n) /\ m # n =>
        \A Q \in SUBSET Voters(m) :
            m \in Q /\ Cardinality(Q) >= rec[m].quorum /\ n \notin Q
               => Cardinality(Voters(n) \ Q) < rec[n].quorum

\* A durable intent is carried out: in the end every member of the proposal has
\* its epoch and the intent is cleared.
Converges == \A n \in Nodes : Intent(n) # None ~> Intent(n) = None
=============================================================================
