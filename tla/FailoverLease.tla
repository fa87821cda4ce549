---------------------------- MODULE FailoverLease ----------------------------
(***************************************************************************)
(* Leader leases of the quorum failover: how a primary or an elected       *)
(* replica obtains and renews a majority lease, when a node fences its     *)
(* writes, how a replica is promoted, and how the leader converges the     *)
(* other members (REPARENT, DEMOTE).                                       *)
(*                                                                         *)
(* Each node has a maintenance thread (Maintain, one round at a time) that *)
(* works without the node's command lock durableMu, except to promote; RPC *)
(* handlers hold that lock.  Every handler but DEMOTE answers from local   *)
(* state and is one step; DEMOTE calls the other members while it holds    *)
(* the lock.  Elections are one step here: that a term has at most one     *)
(* winner is what FailoverVote establishes.                                *)
(*                                                                         *)
(* Time passes in units; deadlines are kept as the time left.              *)
(***************************************************************************)
EXTENDS Integers, FiniteSets

CONSTANTS
    Nodes,          \* the members of the failover group
    Primary,        \* the member that starts as master
    Quorum,         \* failover_quorum
    Candidates,     \* the members with failover_priority > 0
    None,           \* the empty run ID or address
    LeaseTTL,       \* what a member grants (3 s)
    LeaderTTL,      \* what the leader relies on (2.75 s)
    RenewWindow,    \* the end of the lease in which it is renewed (1 s)
    Deployments,    \* what one behaviour is about: auto (auto_failover_timeout_ms > 0)
                    \* and the crashers, the members that may crash and restart
    QuickRestart,   \* a process may be back before its granted lease ends
    MaxTerm,        \* bound: terms
    MaxRestarts     \* bound: restarts of one node

\* config.go accepts a quorum only from the majority of the group upwards.
ASSUME LeaseAssumption ==
    /\ IsFiniteSet(Nodes)
    /\ Primary \in Nodes /\ Candidates \subseteq Nodes
    /\ Deployments \subseteq [auto : BOOLEAN, crashers : SUBSET Nodes]
    /\ Quorum \in Nat /\ 2 * Quorum > Cardinality(Nodes)
    /\ QuickRestart \in BOOLEAN
    /\ LeaseTTL \in Nat /\ LeaderTTL \in Nat /\ RenewWindow \in Nat
    /\ LeaderTTL < LeaseTTL
    /\ MaxTerm \in Nat /\ MaxRestarts \in Nat

\* A run ID is drawn afresh by every process start of a node.
Ids == Nodes \X Nat

ASSUME NoneAssumption == None \notin Ids /\ None \notin Nodes

VARIABLES
    conf,         \* the deployment
    inc,          \* process starts so far
    role,         \* "master" or "replica"
    upstream,     \* masterHost:masterPort
    masterRunID,  \* the run ID of the stream a replica follows: its lineage
    following,    \* the follower goroutine exists
    link,         \* masterLinkStatus
    failoverTerm, \* highest election term seen (durable)
    lease,        \* the lease this node has granted
    leader,       \* the lease this node holds as leader, and (history) the
                  \* members that granted it
    round,        \* the lease round of the maintenance thread
    demote,       \* the DEMOTE handler at work, or None
    calm          \* from now on no call is lost, no link fails, no node dies

vars == <<conf, inc, role, upstream, masterRunID, following, link, failoverTerm,
          lease, leader, round, demote, calm>>
replication == <<role, upstream, masterRunID, following, link>>

Id(n) == <<n, inc[n]>>

NoLease == [term |-> 0, holder |-> None, left |-> 0]
NoLeader == [active |-> FALSE, term |-> 0, lineage |-> None, left |-> 0,
             acks |-> {}]
NoRound == [pc |-> "idle", kind |-> "renew", term |-> 0, lineage |-> None,
            todo |-> {}, acks |-> {}, age |-> 0, relinked |-> FALSE]

Leases == [term : Nat, holder : Ids \cup {None}, left : 0..LeaseTTL]
Leaders == [active : BOOLEAN, term : Nat, lineage : Ids \cup {None},
            left : 0..LeaderTTL, acks : SUBSET Nodes]
Rounds == [pc : {"idle", "won", "lease", "quorum", "stopped", "converge"},
           kind : {"establish", "renew", "promote"}, term : Nat,
           lineage : Ids \cup {None}, todo : SUBSET Nodes, acks : SUBSET Nodes,
           age : 0..LeaderTTL, relinked : BOOLEAN]
Demotions == [pc : {"verify", "apply"}, from : Nodes, id : Ids, term : Nat,
              lineage : Ids \cup {None}]

TypeOK ==
    /\ conf \in Deployments
    /\ inc \in [Nodes -> Nat]
    /\ role \in [Nodes -> {"master", "replica"}]
    /\ upstream \in [Nodes -> Nodes \cup {None}]
    /\ masterRunID \in [Nodes -> Ids \cup {None}]
    /\ following \in [Nodes -> BOOLEAN]
    /\ link \in [Nodes -> {"up", "down"}]
    /\ failoverTerm \in [Nodes -> Nat]
    /\ lease \in [Nodes -> Leases]
    /\ leader \in [Nodes -> Leaders]
    /\ round \in [Nodes -> Rounds]
    /\ demote \in [Nodes -> Demotions \cup {None}]
    /\ calm \in BOOLEAN

\* The group has just been started, its replicas in sync with the primary.
Init ==
    /\ conf \in Deployments
    /\ inc = [n \in Nodes |-> 0]
    /\ role = [n \in Nodes |-> IF n = Primary THEN "master" ELSE "replica"]
    /\ upstream = [n \in Nodes |-> IF n = Primary THEN None ELSE Primary]
    /\ masterRunID = [n \in Nodes |-> IF n = Primary THEN None ELSE <<Primary, 0>>]
    /\ following = [n \in Nodes |-> n # Primary]
    /\ link = [n \in Nodes |-> "up"]
    /\ failoverTerm = [n \in Nodes |-> 0]
    /\ lease = [n \in Nodes |-> NoLease]
    /\ leader = [n \in Nodes |-> NoLeader]
    /\ round = [n \in Nodes |-> NoRound]
    /\ demote = [n \in Nodes |-> None]
    /\ calm = FALSE

(* -------------------------------- time ---------------------------------- *)

\* Mutant: the time left runs below zero.
PassedBelow(left) == left - 1

Passed(left) == IF left > 0 THEN left - 1 ELSE 0

\* A round keeps the time at which its maintenance pass began.
Older(r) ==
    IF r.pc \in {"idle", "converge"} \/ r.age = LeaderTTL
    THEN r ELSE [r EXCEPT !.age = @ + 1]

\* In a calm group a round takes no time that counts against a lease.
Tick ==
    /\ calm => \A n \in Nodes : round[n].pc = "idle" /\ demote[n] = None
    /\ lease' = [n \in Nodes |-> [lease[n] EXCEPT !.left = Passed(@)]]
    /\ leader' = [n \in Nodes |-> [leader[n] EXCEPT !.left = Passed(@)]]
    /\ round' = [n \in Nodes |-> Older(round[n])]
    /\ UNCHANGED <<inc, replication, failoverTerm, demote, calm, conf>>

Calm ==
    /\ ~calm
    /\ calm' = TRUE
    /\ UNCHANGED <<inc, replication, failoverTerm, lease, leader, round, demote, conf>>

(* -------------------------- the write fence ------------------------------ *)

LeaderLive(n) == leader[n].active /\ leader[n].left > 0

Fenced(n) ==
    \/ leader[n].active /\ leader[n].left = 0
    \/ lease[n].left > 0 /\ lease[n].holder \notin {None, Id(n)}

Writable(n) == role[n] = "master" /\ ~Fenced(n)

(* -------------------------- granting a lease ----------------------------- *)

\* Mutant: calls are answered while a DEMOTE holds the command lock.
AnswersAlways(p) == TRUE

\* A node whose command lock a DEMOTE holds does not answer calls in time.
Answers(p) == demote[p] = None

\* The lineage a node answers for: that of its upstream, or as a master its
\* own run ID, or the one it was promoted in.
Lineage(p) ==
    IF role[p] = "replica" THEN masterRunID[p]
    ELSE IF leader[p].active THEN leader[p].lineage ELSE Id(p)

\* Lease request of leader id for term t of lineage l at node p.
Concerned(p, l, t, id) ==
    /\ t >= failoverTerm[p]
    /\ \/ Lineage(p) = l
       \/ /\ role[p] = "replica" /\ masterRunID[p] = id
          /\ lease[p].term = t /\ lease[p].holder = id

Grants(p, l, t, id) ==
    /\ Concerned(p, l, t, id)
    /\ t >= lease[p].term
    /\ ~ (t = lease[p].term /\ lease[p].left > 0 /\ lease[p].holder \notin {None, id})

\* The answer names a newer term.
Newer(p, l, t, id) ==
    t < failoverTerm[p] \/ (Concerned(p, l, t, id) /\ t < lease[p].term)

Granted(p, l, t, id) ==
    IF Grants(p, l, t, id) THEN [term |-> t, holder |-> id, left |-> LeaseTTL]
                           ELSE lease[p]

(* ----------------------------- lease rounds ------------------------------ *)

\* A round that ends without a quorum: a primary that wanted to establish
\* its lease becomes a fenced leader, a leader keeps what is left.
LeaderAfterFailure(n, kind, t, l) ==
    IF kind = "establish"
    THEN [leader EXCEPT ![n] = [active |-> TRUE, term |-> t, lineage |-> l,
                                left |-> 0, acks |-> {}]]
    ELSE leader

\* The round asks its own node first.
StartRound(n, kind, t, l) ==
    IF Newer(n, l, t, Id(n))
    THEN /\ round' = [round EXCEPT ![n] = NoRound]
         /\ leader' = LeaderAfterFailure(n, kind, t, l)
         /\ UNCHANGED lease
    ELSE /\ lease' = [lease EXCEPT ![n] = Granted(n, l, t, Id(n))]
         /\ round' = [round EXCEPT ![n] =
              [@ EXCEPT !.pc = "lease", !.kind = kind, !.term = t, !.lineage = l,
                        !.todo = Nodes \ {n},
                        !.acks = IF Grants(n, l, t, Id(n)) THEN {n} ELSE {}]]
         /\ UNCHANGED leader

Larger(a, b) == IF a > b THEN a ELSE b

\* A master without leader state takes a term above those it knows.
Establish(n) ==
    /\ round[n].pc = "idle"
    /\ ~ leader[n].active
    /\ role[n] = "master"
    /\ LET t == Larger(failoverTerm[n], lease[n].term) + 1
       IN  t <= MaxTerm /\ StartRound(n, "establish", t, Id(n))
    /\ UNCHANGED <<inc, replication, failoverTerm, demote, calm, conf>>

\* Mutant: a lease that has run out is not renewed.
RenewalDueLive(n) == leader[n].active /\ leader[n].left \in 1..RenewWindow

\* A leader renews in the last part of its lease or after it, in its term.
RenewalDue(n) == leader[n].active /\ leader[n].left <= RenewWindow

Renew(n) ==
    /\ round[n].pc = "idle"
    /\ RenewalDue(n)
    /\ StartRound(n, "renew", leader[n].term, leader[n].lineage)
    /\ UNCHANGED <<inc, replication, failoverTerm, demote, calm, conf>>

\* The replicas of the lineage n follows.
Comrades(n) == {q \in Nodes : role[q] = "replica" /\ masterRunID[q] = masterRunID[n]}

\* An election round of n.  Of the comrades that answer (seen), those in down
\* have had their link down for the timeout, which may be any time; asked get
\* the vote request, which raises their term, and answer it.
Elect(n) ==
    /\ conf.auto /\ n \in Candidates
    /\ round[n].pc = "idle"
    /\ ~ leader[n].active
    /\ role[n] = "replica" /\ link[n] = "down" /\ masterRunID[n] # None
    /\ \E seen \in SUBSET Comrades(n), t \in 1..MaxTerm :
       \E asked \in SUBSET seen, down \in SUBSET {q \in seen : link[q] = "down"} :
         /\ n \in asked /\ n \in down
         /\ calm => asked = Comrades(n) /\ \A q \in seen : link[q] = "down" => q \in down
         /\ Cardinality(down) >= Quorum
         /\ \A q \in seen : failoverTerm[q] < t
         /\ \E q \in seen : failoverTerm[q] = t - 1
         /\ failoverTerm' = [q \in Nodes |-> IF q \in asked THEN t ELSE failoverTerm[q]]
         /\ round' = IF Cardinality(asked \cap down) >= Quorum
                     THEN [round EXCEPT ![n].pc = "won", ![n].term = t]
                     ELSE round
    /\ UNCHANGED <<inc, replication, lease, leader, demote, calm, conf>>

\* The winner asks for the lease of its term, in the lineage it now follows.
StartPromotion(n) ==
    /\ round[n].pc = "won"
    /\ IF masterRunID[n] = None
       THEN round' = [round EXCEPT ![n] = NoRound] /\ UNCHANGED <<lease, leader>>
       ELSE StartRound(n, "promote", round[n].term, masterRunID[n])
    /\ UNCHANGED <<inc, replication, failoverTerm, demote, calm, conf>>

\* The peers a round may ask, by their answer to the state query.
Askable(n, p) ==
    role[p] = "replica" /\ masterRunID[p] \in {round[n].lineage, Id(n)}

Counted(r, p, grants) ==
    LET acks == IF grants THEN r.acks \cup {p} ELSE r.acks
    IN  [r EXCEPT !.todo = @ \ {p}, !.acks = acks,
                  !.pc = IF Cardinality(acks) >= Quorum THEN "quorum" ELSE "lease"]

\* Peer p is asked; its answer arrives.
AskLease(n, p) ==
    /\ round[n].pc = "lease"
    /\ p \in round[n].todo
    /\ Askable(n, p)
    /\ Answers(p)
    /\ LET l == round[n].lineage
           t == round[n].term
       IN  /\ lease' = [lease EXCEPT ![p] = Granted(p, l, t, Id(n))]
           /\ IF Newer(p, l, t, Id(n))
              THEN /\ round' = [round EXCEPT ![n] = NoRound]
                   /\ leader' = LeaderAfterFailure(n, round[n].kind, t, l)
              ELSE /\ round' = [round EXCEPT ![n] =
                                     Counted(@, p, Grants(p, l, t, Id(n)))]
                   /\ UNCHANGED leader
    /\ UNCHANGED <<inc, replication, failoverTerm, demote, calm, conf>>

\* Peer p is asked, but its answer is lost.
LoseAnswer(n, p) ==
    /\ ~calm
    /\ round[n].pc = "lease"
    /\ p \in round[n].todo
    /\ Askable(n, p)
    /\ lease' = [lease EXCEPT ![p] = Granted(p, round[n].lineage, round[n].term, Id(n))]
    /\ round' = [round EXCEPT ![n].todo = @ \ {p}]
    /\ UNCHANGED <<inc, replication, failoverTerm, leader, demote, calm, conf>>

\* The remaining peers do not answer or are not ones to ask.
FailRound(n) ==
    /\ round[n].pc = "lease"
    /\ calm => \A p \in round[n].todo : ~Askable(n, p)
    /\ leader' = LeaderAfterFailure(n, round[n].kind, round[n].term, round[n].lineage)
    /\ round' = [round EXCEPT ![n] = NoRound]
    /\ UNCHANGED <<inc, replication, failoverTerm, lease, demote, calm, conf>>

(* --------------------- what a round is followed by ----------------------- *)

\* Mutant: the deadline counts from the last answer.
TimeLeftFull(n) == LeaderTTL

\* The deadline counts from the start of the pass.
TimeLeft(n) == LeaderTTL - round[n].age

\* The leader state after a round with a quorum.
Obtained(n) ==
    [active |-> TRUE, term |-> round[n].term, lineage |-> round[n].lineage,
     left |-> TimeLeft(n), acks |-> round[n].acks]

Converging(n) == [round EXCEPT ![n] = [NoRound EXCEPT !.pc = "converge",
                                                      !.todo = Nodes \ {n}]]

\* The state is set without a look at the role, which may have changed.
Established(n) ==
    /\ round[n].pc = "quorum" /\ round[n].kind = "establish"
    /\ leader' = [leader EXCEPT ![n] = Obtained(n)]
    /\ round' = [round EXCEPT ![n] = NoRound]
    /\ UNCHANGED <<inc, replication, failoverTerm, lease, demote, calm, conf>>

Renewed(n) ==
    /\ round[n].pc = "quorum" /\ round[n].kind = "renew"
    /\ IF leader[n].active
       THEN /\ leader' = [leader EXCEPT ![n].left = TimeLeft(n),
                                        ![n].acks = round[n].acks]
            /\ round' = Converging(n)
       ELSE round' = [round EXCEPT ![n] = NoRound] /\ UNCHANGED leader
    /\ UNCHANGED <<inc, replication, failoverTerm, lease, demote, calm, conf>>

\* The follower is stopped before the promotion is decided ...
StopFollow(n) ==
    /\ round[n].pc = "quorum" /\ round[n].kind = "promote"
    /\ following' = [following EXCEPT ![n] = FALSE]
    /\ link' = [link EXCEPT ![n] = IF @ = "up" THEN "down" ELSE @]
    /\ round' = [round EXCEPT ![n].pc = "stopped"]
    /\ UNCHANGED <<inc, role, upstream, masterRunID, failoverTerm, lease, leader,
                   demote, calm, conf>>

\* The link has been down for the timeout since before the pass began.
StillDue(n) ==
    /\ role[n] = "replica" /\ link[n] = "down" /\ masterRunID[n] # None
    /\ ~ round[n].relinked

\* ... under the command lock.
Promote(n) ==
    /\ round[n].pc = "stopped"
    /\ demote[n] = None
    /\ StillDue(n)
    /\ role' = [role EXCEPT ![n] = "master"]
    /\ upstream' = [upstream EXCEPT ![n] = None]
    /\ masterRunID' = [masterRunID EXCEPT ![n] = None]
    /\ link' = [link EXCEPT ![n] = "up"]
    /\ leader' = [leader EXCEPT ![n] = Obtained(n)]
    /\ round' = IF TimeLeft(n) > 0 THEN Converging(n)
                                   ELSE [round EXCEPT ![n] = NoRound]
    /\ UNCHANGED <<inc, following, failoverTerm, lease, demote, calm, conf>>

AbandonPromotion(n) ==
    /\ round[n].pc = "stopped"
    /\ ~StillDue(n)
    /\ round' = [round EXCEPT ![n] = NoRound]
    /\ UNCHANGED <<inc, replication, failoverTerm, lease, leader, demote, calm, conf>>

(* ----------------------------- convergence ------------------------------- *)

\* A pass that began with the link down and leads to a promotion is at work.
Promoting(n) ==
    round[n].pc = "won" \/ (round[n].pc # "idle" /\ round[n].kind = "promote")

\* p starts to follow node m: startReplicaFollow.
Follow(p, m) ==
    /\ role' = [role EXCEPT ![p] = "replica"]
    /\ upstream' = [upstream EXCEPT ![p] = m]
    /\ masterRunID' = [masterRunID EXCEPT ![p] = IF upstream[p] = m THEN @ ELSE None]
    /\ following' = [following EXCEPT ![p] = TRUE]
    /\ link' = [link EXCEPT ![p] = "down"]
    /\ leader' = [leader EXCEPT ![p] = NoLeader]

\* A replica of the lineage that has granted the leader a live lease accepts
\* to follow it, provided it finds the leader to be a master.
AcceptsReparent(n, p) ==
    /\ Answers(p)
    /\ leader[n].active
    /\ leader[n].term >= failoverTerm[p]
    /\ role[p] = "replica" /\ masterRunID[p] = leader[n].lineage
    /\ lease[p].term = leader[n].term /\ lease[p].holder = Id(n) /\ lease[p].left > 0
    /\ Answers(n) /\ role[n] = "master"

Reparent(n, p) ==
    /\ round[n].pc = "converge"
    /\ p \in round[n].todo
    /\ AcceptsReparent(n, p)
    /\ Follow(p, n)
    /\ round' = [round EXCEPT ![n].todo = @ \ {p},
                              ![p].relinked = Promoting(p)]
    /\ UNCHANGED <<inc, failoverTerm, lease, demote, calm, conf>>

\* A member found to be a master is told to step down.
AcceptsDemote(n, p) ==
    /\ demote[p] = None
    /\ leader[n].active
    /\ leader[n].term >= failoverTerm[p]
    /\ role[p] = "master"

AskDemote(n, p) ==
    /\ round[n].pc = "converge"
    /\ p \in round[n].todo
    /\ AcceptsDemote(n, p)
    /\ demote' = [demote EXCEPT ![p] =
          [pc |-> "verify", from |-> n, id |-> Id(n), term |-> leader[n].term,
           lineage |-> leader[n].lineage]]
    /\ round' = [round EXCEPT ![n].todo = @ \ {p}]
    /\ UNCHANGED <<inc, replication, failoverTerm, lease, leader, calm, conf>>

\* The remaining members do not answer or have nothing to change.
ConvergeDone(n) ==
    /\ round[n].pc = "converge"
    /\ calm => \A p \in round[n].todo : ~AcceptsReparent(n, p) /\ ~AcceptsDemote(n, p)
    /\ round' = [round EXCEPT ![n] = NoRound]
    /\ UNCHANGED <<inc, replication, failoverTerm, lease, leader, demote, calm, conf>>

\* The members that can confirm the lease of the claimed leader.
Confirmers(p, d) ==
    {q \in Nodes \ {p} :
        /\ Answers(q)
        /\ \/ Id(q) = d.id
           \/ role[q] = "replica" /\ masterRunID[q] \in {d.lineage, d.id}}

\* p has the members grant the claimed leader's lease once more, and looks the
\* leader up; without a quorum, a newer term or no such master it refuses.
VerifyDemote(p) ==
    /\ demote[p] # None
    /\ demote[p].pc = "verify"
    /\ LET d == demote[p] IN
       \E G \in SUBSET Confirmers(p, d) :
         LET grants == {q \in G : Grants(q, d.lineage, d.term, d.id)}
             newer  == {q \in G : Newer(q, d.lineage, d.term, d.id)}
         IN  /\ calm => G = Confirmers(p, d)
             /\ Cardinality(grants) <= Quorum
             /\ lease' = [q \in Nodes |-> IF q \in grants
                            THEN Granted(q, d.lineage, d.term, d.id) ELSE lease[q]]
             /\ demote' = [demote EXCEPT ![p] =
                  IF /\ newer = {}
                     /\ Cardinality(grants) >= Quorum
                     /\ Answers(d.from)
                     /\ Id(d.from) = d.id /\ role[d.from] = "master"
                  THEN [d EXCEPT !.pc = "apply"] ELSE None]
    /\ UNCHANGED <<inc, replication, failoverTerm, leader, round, calm, conf>>

\* p holds a live lease of its own in another lineage.
KeepsOwnLease(p, d) == LeaderLive(p) /\ leader[p].lineage # d.lineage

ApplyDemote(p) ==
    /\ demote[p] # None
    /\ demote[p].pc = "apply"
    /\ demote' = [demote EXCEPT ![p] = None]
    /\ IF KeepsOwnLease(p, demote[p])
       THEN UNCHANGED <<replication, leader, round>>
       ELSE /\ Follow(p, demote[p].from)
            /\ round' = [round EXCEPT ![p].relinked = Promoting(p)]
    /\ UNCHANGED <<inc, failoverTerm, lease, calm, conf>>

(* ------------------------- the replication link -------------------------- *)

\* PSYNC answers with the upstream's run ID, whichever sync it grants.
Reconnect(n) ==
    /\ role[n] = "replica" /\ following[n] /\ link[n] # "up"
    /\ link' = [link EXCEPT ![n] = "up"]
    /\ masterRunID' = [masterRunID EXCEPT ![n] = Id(upstream[n])]
    /\ round' = [round EXCEPT ![n].relinked = Promoting(n)]
    /\ UNCHANGED <<inc, role, upstream, following, failoverTerm, lease, leader,
                   demote, calm, conf>>

\* The stream breaks; with the upstream restarted it breaks for certain.
LinkDown(n) ==
    /\ role[n] = "replica" /\ link[n] = "up"
    /\ ~calm \/ masterRunID[n] # Id(upstream[n])
    /\ link' = [link EXCEPT ![n] = "down"]
    /\ UNCHANGED <<inc, role, upstream, masterRunID, following, failoverTerm, lease,
                   leader, round, demote, calm, conf>>

(* --------------------------- crash and restart --------------------------- *)

\* Leases live in memory only; role, upstream and lineage are recovered from
\* the log, the term from the vote sidecar.
Restart(n) ==
    /\ ~calm
    /\ n \in conf.crashers /\ inc[n] < MaxRestarts
    /\ QuickRestart \/ lease[n].left = 0
    /\ inc' = [inc EXCEPT ![n] = @ + 1]
    /\ lease' = [lease EXCEPT ![n] = NoLease]
    /\ leader' = [leader EXCEPT ![n] = NoLeader]
    /\ round' = [round EXCEPT ![n] = NoRound]
    /\ demote' = [demote EXCEPT ![n] = None]
    /\ following' = [following EXCEPT ![n] = role[n] = "replica"]
    /\ link' = [link EXCEPT ![n] = IF role[n] = "replica" THEN "down" ELSE @]
    /\ UNCHANGED <<role, upstream, masterRunID, failoverTerm, calm, conf>>

(* ------------------------------------------------------------------------- *)

Maintain(n) ==
    \/ Establish(n)
    \/ Renew(n)
    \/ Elect(n)
    \/ StartPromotion(n)
    \/ \E p \in Nodes : AskLease(n, p) \/ LoseAnswer(n, p)
    \/ FailRound(n)
    \/ Established(n)
    \/ Renewed(n)
    \/ StopFollow(n)
    \/ Promote(n)
    \/ AbandonPromotion(n)
    \/ \E p \in Nodes : Reparent(n, p) \/ AskDemote(n, p)
    \/ ConvergeDone(n)

Handle(n) == VerifyDemote(n) \/ ApplyDemote(n)

Next ==
    \/ Tick
    \/ \E n \in Nodes : \/ Maintain(n) \/ Handle(n)
                        \/ Reconnect(n) \/ LinkDown(n)
                        \/ Restart(n)

Spec == Init /\ [][Next]_vars

\* Time passes, threads run, followers reconnect, and the group gets calm.
Fairness ==
    /\ SF_vars(Tick)
    /\ WF_vars(Calm)
    /\ \A n \in Nodes : /\ WF_vars(Maintain(n)) /\ WF_vars(Handle(n))
                        /\ WF_vars(Reconnect(n)) /\ WF_vars(LinkDown(n))

LiveSpec == Init /\ [][Next \/ Calm]_vars /\ Fairness

(* ------------------------------ properties ------------------------------- *)

\* Member q stands behind the lease of term t that n relies on for the time
\* left: it keeps that lease, or one of a later term, at least as long.
Backs(q, n, t, left) ==
    /\ lease[q].left >= left
    /\ lease[q].term > t \/ (lease[q].term = t /\ lease[q].holder = Id(n))

\* A live leader is backed by a quorum all along: the members' leases outlast
\* the deadline the leader counts from the start of its maintenance pass,
\* whatever calls were lost or slow (acquireFailoverLeaseRound).
LeaseBacked ==
    \A n \in Nodes : LeaderLive(n) =>
        /\ Cardinality(leader[n].acks) >= Quorum
        /\ \A q \in leader[n].acks : Backs(q, n, leader[n].term, leader[n].left)

\* Two nodes never hold a live leader lease of one term, although a primary
\* picks its term without an election (requestFailoverLease).
SameTermExclusive ==
    \A m, n \in Nodes : m # n /\ LeaderLive(m) /\ LeaderLive(n)
                        => leader[m].term # leader[n].term

\* Demotions never leave the group without a master, although a node decides
\* to step down on answers that may be outdated when it does
\* (requestFailoverDemote).
MasterExists == \E n \in Nodes : role[n] = "master"

\* Once the group is calm a node with a live lease accepts writes again and
\* again: after lost quorums and restarts the primary reacquires its lease
\* (maintainFailoverLeaderLease).
Recovers == []<>(\E n \in Nodes : Writable(n) /\ LeaderLive(n))

\* What a node counts on: the lease it holds, and the one a round of its own
\* has collected so far.
Claims(n) ==
    {c \in {[term |-> leader[n].term, left |-> leader[n].left, acks |-> leader[n].acks]} :
        LeaderLive(n)}
    \cup
    {c \in {[term |-> round[n].term, left |-> TimeLeft(n), acks |-> round[n].acks]} :
        round[n].pc \in {"lease", "quorum", "stopped"} /\ TimeLeft(n) > 0}

\* The members counted keep what they granted for as long as it is relied on.
ClaimsBacked ==
    \A n \in Nodes : \A c \in Claims(n) : \A q \in c.acks : Backs(q, n, c.term, c.left)

\* In one term a member is counted by one node only.
ClaimsDisjoint ==
    \A m \in Nodes : \A c \in Claims(m) : \A n \in Nodes \ {m} : \A d \in Claims(n) :
        c.term = d.term => c.acks \cap d.acks = {}

\* A round past the quorum has counted one, and so has a live leader; a
\* renewal is one of the leader's term.
QuorumCounted ==
    \A n \in Nodes :
        /\ round[n].pc \in {"quorum", "stopped"} => Cardinality(round[n].acks) >= Quorum
        /\ LeaderLive(n) => Cardinality(leader[n].acks) >= Quorum
        /\ /\ round[n].pc \in {"lease", "quorum"} /\ round[n].kind = "renew"
           /\ leader[n].active
           => leader[n].term = round[n].term

\* A replica has an address to follow.
UpstreamKnown == \A n \in Nodes : role[n] = "replica" => upstream[n] \in Nodes

\* Some master is not about to step down.
MasterStays ==
    \E n \in Nodes : role[n] = "master" /\ (demote[n] = None \/ demote[n].pc = "verify")

\* The inductive invariant behind LeaseBacked, SameTermExclusive and
\* MasterExists, for members that restart only after their granted lease ended.
IInv ==
    /\ TypeOK /\ UpstreamKnown
    /\ ClaimsBacked /\ ClaimsDisjoint /\ QuorumCounted /\ MasterStays

\* What a leader or a round of its relies on is granted by a quorum and ends
\* before the grants do, and two nodes never hold a live lease of one term
\* (acquireFailoverLeaseRound, requestFailoverLease).
LeasesSound == IInv /\ SameTermExclusive

\* "conflicting leader leases are rejected while an existing lease is valid":
\* no two nodes hold a live leader lease at the same time.
LeaderExclusive ==
    \A m, n \in Nodes : LeaderLive(m) /\ LeaderLive(n) => m = n

\* "a writable primary/master must hold a valid majority-backed lease"
\* (failoverWriteFenceStatus).
WritableHoldsLease == \A n \in Nodes : Writable(n) => LeaderLive(n)

\* "the same leader may renew its lease": a replica in sync with the leader
\* that knows no later term and no other live lease grants the renewal
\* (requestFailoverLease).
RenewalGranted ==
    \A n, p \in Nodes :
        /\ leader[n].active
        /\ role[p] = "replica" /\ masterRunID[p] = Id(n) /\ link[p] = "up"
        /\ failoverTerm[p] <= leader[n].term
        /\ lease[p].term <= leader[n].term
        /\ lease[p].left = 0
        => Grants(p, leader[n].lineage, leader[n].term, Id(n))

\* REPARENT goes to "replicas that still report the failed primary's
\* replication lineage": never to one that is following the leader already
\* (convergeFailoverReplicas).
ReparentMoves ==
    \A n, p \in Nodes :
        round[n].pc = "converge" /\ p \in round[n].todo /\ AcceptsReparent(n, p)
        => upstream[p] # n
=============================================================================
