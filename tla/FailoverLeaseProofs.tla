------------------------ MODULE FailoverLeaseProofs -------------------------
(***************************************************************************)
(* Type correctness of FailoverLease; the group keeps a master, and its    *)
(* leases are sound as long as a process that restarts is back only after  *)
(* the lease it granted has ended.  For every group, quorum, deployment,   *)
(* lease time and bound.  The invariant is IInv: a granted lease takes no  *)
(* backing from a live claim, and a second node of a term gets it only     *)
(* where nobody relies on the first.                                       *)
(***************************************************************************)
EXTENDS FailoverLease, TLAPS

(* -------------------------------- types ---------------------------------- *)

\* The parts of a member's state.
LEMMA Typed ==
    ASSUME TypeOK, NEW n \in Nodes
    PROVE  /\ Id(n) \in Ids /\ Id(n) # None
           /\ lease[n] \in Leases /\ leader[n] \in Leaders /\ round[n] \in Rounds
           /\ failoverTerm[n] \in Nat /\ masterRunID[n] \in Ids \cup {None}
BY NoneAssumption DEF TypeOK, Id, Ids

\* The empty values of the state are well typed.
LEMMA Constructed ==
    /\ NoLease \in Leases /\ NoLeader \in Leaders /\ NoRound \in Rounds
    /\ \A n \in Nodes : [NoRound EXCEPT !.pc = "converge", !.todo = Nodes \ {n}] \in Rounds
<1>1. NoLease \in Leases /\ NoLeader \in Leaders
  BY LeaseAssumption DEF NoLease, NoLeader, Leases, Leaders
<1>2. NoRound \in Rounds
  BY LeaseAssumption DEF NoRound, Rounds
<1>3. \A n \in Nodes : [NoRound EXCEPT !.pc = "converge", !.todo = Nodes \ {n}] \in Rounds
  BY Zenon, <1>2 DEF Rounds
<1> QED BY Zenon, <1>1, <1>2, <1>3

\* A fresh round is idle, a fresh leader holds nothing.
LEMMA Blank ==
    /\ NoRound.pc = "idle" /\ ~NoLeader.active
    /\ \A n \in Nodes : [NoRound EXCEPT !.pc = "converge", !.todo = Nodes \ {n}].pc = "converge"
BY Zenon DEF NoRound, NoLeader

\* A lease after a request is a lease.
LEMMA GrantedTyped ==
    ASSUME TypeOK, NEW p \in Nodes, NEW l, NEW t \in Nat, NEW id \in Ids
    PROVE  Granted(p, l, t, id) \in Leases
BY Typed, LeaseAssumption DEF Granted, Leases

\* A leader after a failed round is a leader.
LEMMA FailureTyped ==
    ASSUME TypeOK, NEW n \in Nodes, NEW kind, NEW t \in Nat, NEW l \in Ids \cup {None}
    PROVE  LeaderAfterFailure(n, kind, t, l) \in [Nodes -> Leaders]
<1>1. [active |-> TRUE, term |-> t, lineage |-> l, left |-> 0, acks |-> {}] \in Leaders
  BY LeaseAssumption DEF Leaders
<1> QED BY Zenon, <1>1 DEF LeaderAfterFailure, TypeOK

\* A round that starts keeps the state well typed.
LEMMA StartTyped ==
    ASSUME TypeOK, NEW n \in Nodes, NEW kind \in {"establish", "renew", "promote"},
           NEW t \in Nat, NEW l \in Ids \cup {None}, StartRound(n, kind, t, l)
    PROVE  /\ lease' \in [Nodes -> Leases]
           /\ leader' \in [Nodes -> Leaders]
           /\ round' \in [Nodes -> Rounds]
<1>1. Granted(n, l, t, Id(n)) \in Leases
  BY Typed, GrantedTyped
<1>2. ASSUME NEW acks \in SUBSET Nodes
      PROVE  [round[n] EXCEPT !.pc = "lease", !.kind = kind, !.term = t, !.lineage = l,
                              !.todo = Nodes \ {n}, !.acks = acks] \in Rounds
  <2>1. round[n] \in Rounds
    BY Typed
  <2> QED BY Zenon, <2>1 DEF Rounds
<1>3. (IF Grants(n, l, t, Id(n)) THEN {n} ELSE {}) \in SUBSET Nodes
  OBVIOUS
<1>4. CASE Newer(n, l, t, Id(n))
  <2>1. LeaderAfterFailure(n, kind, t, l) \in [Nodes -> Leaders]
    BY FailureTyped
  <2> QED BY Zenon, <1>4, <2>1, Constructed DEF StartRound, TypeOK
<1>5. CASE ~Newer(n, l, t, Id(n))
  BY ZenonT(40), <1>1, <1>2, <1>3, <1>5 DEF StartRound, TypeOK
<1> QED BY <1>4, <1>5

\* A lease obtained is a leader's, for at most its full time.
LEMMA ObtainedTyped ==
    ASSUME TypeOK, NEW n \in Nodes
    PROVE  Obtained(n) \in Leaders /\ TimeLeft(n) \in 0..LeaderTTL
<1>1. round[n] \in Rounds
  BY Typed
<1>2. TimeLeft(n) \in 0..LeaderTTL
  BY <1>1, LeaseAssumption DEF TimeLeft, Rounds
<1> QED BY Zenon, <1>1, <1>2 DEF Obtained, Rounds, Leaders

\* A member that follows another keeps the state well typed.
LEMMA FollowTyped ==
    ASSUME TypeOK, NEW p \in Nodes, NEW m \in Nodes, Follow(p, m)
    PROVE  /\ role' \in [Nodes -> {"master", "replica"}]
           /\ upstream' \in [Nodes -> Nodes \cup {None}]
           /\ masterRunID' \in [Nodes -> Ids \cup {None}]
           /\ following' \in [Nodes -> BOOLEAN]
           /\ link' \in [Nodes -> {"up", "down"}]
           /\ leader' \in [Nodes -> Leaders]
BY Zenon, Constructed DEF Follow, TypeOK

\* The first state is well typed.
LEMMA TypeInit == Init => TypeOK /\ UpstreamKnown
<1> SUFFICES ASSUME Init PROVE TypeOK /\ UpstreamKnown
  OBVIOUS
<1>1. lease \in [Nodes -> Leases] /\ leader \in [Nodes -> Leaders] /\ round \in [Nodes -> Rounds]
  BY Zenon, Constructed DEF Init
<1>2. <<Primary, 0>> \in Ids /\ Primary \in Nodes
  BY Zenon, LeaseAssumption DEF Ids
<1>3. masterRunID \in [Nodes -> Ids \cup {None}]
  BY Zenon, <1>2 DEF Init
<1>4. /\ role \in [Nodes -> {"master", "replica"}] /\ upstream \in [Nodes -> Nodes \cup {None}]
      /\ following \in [Nodes -> BOOLEAN] /\ UpstreamKnown
  BY Zenon, <1>2 DEF Init, UpstreamKnown
<1> QED BY Zenon, <1>1, <1>3, <1>4 DEF Init, TypeOK

\* Every step keeps the state well typed.
LEMMA TypeStep == TypeOK /\ UpstreamKnown /\ [Next]_vars => TypeOK'
<1> SUFFICES ASSUME TypeOK, UpstreamKnown, [Next]_vars PROVE TypeOK'
  OBVIOUS
<1>1. CASE Tick
  <2>1. \A n \in Nodes : /\ [lease[n] EXCEPT !.left = Passed(@)] \in Leases
                         /\ [leader[n] EXCEPT !.left = Passed(@)] \in Leaders
    BY Typed, LeaseAssumption DEF Leases, Leaders, Passed
  <2>2. \A n \in Nodes : Older(round[n]) \in Rounds
    BY Typed, LeaseAssumption DEF Rounds, Older
  <2> QED BY Zenon, <1>1, <2>1, <2>2 DEF Tick, TypeOK, replication
<1>2. ASSUME NEW n \in Nodes, Establish(n) PROVE TypeOK'
  <2> DEFINE t == Larger(failoverTerm[n], lease[n].term) + 1
  <2>1. t \in Nat
    BY Typed DEF Larger, Leases
  <2>2. StartRound(n, "establish", t, Id(n)) /\ Id(n) \in Ids \cup {None}
    BY Zenon, <1>2, Typed DEF Establish
  <2> HIDE DEF t
  <2> QED BY Zenon, <1>2, <2>1, <2>2, StartTyped DEF Establish, TypeOK, replication
<1>3. ASSUME NEW n \in Nodes, Renew(n) PROVE TypeOK'
  <2>1. leader[n].term \in Nat /\ leader[n].lineage \in Ids \cup {None}
    BY Zenon, Typed DEF Leaders
  <2> QED BY Zenon, <1>3, <2>1, StartTyped DEF Renew, TypeOK, replication
<1>4. ASSUME NEW n \in Nodes, Elect(n) PROVE TypeOK'
  <2>1. PICK t \in 1..MaxTerm, asked \in SUBSET Nodes :
          /\ failoverTerm' = [q \in Nodes |-> IF q \in asked THEN t ELSE failoverTerm[q]]
          /\ round' = round \/ round' = [round EXCEPT ![n].pc = "won", ![n].term = t]
    BY ZenonT(40), <1>4 DEF Elect, Comrades
  <2>2. t \in Nat
    BY LeaseAssumption
  <2>3. [round[n] EXCEPT !.pc = "won", !.term = t] \in Rounds
    BY ZenonT(40), <2>2, Typed DEF Rounds
  <2>4. round' \in [Nodes -> Rounds]
    BY Zenon, <2>1, <2>3 DEF TypeOK
  <2>5. failoverTerm' \in [Nodes -> Nat]
    BY Zenon, <2>1, <2>2 DEF TypeOK
  <2> QED BY Zenon, <1>4, <2>4, <2>5 DEF Elect, TypeOK, replication
<1>5. ASSUME NEW n \in Nodes, StartPromotion(n) PROVE TypeOK'
  <2>1. round[n].term \in Nat /\ masterRunID[n] \in Ids \cup {None}
    BY Zenon, Typed DEF Rounds
  <2>2. CASE masterRunID[n] = None
    BY Zenon, <1>5, <2>2, Constructed DEF StartPromotion, TypeOK, replication
  <2>3. CASE masterRunID[n] # None
    BY Zenon, <1>5, <2>1, <2>3, StartTyped DEF StartPromotion, TypeOK, replication
  <2> QED BY <2>2, <2>3
<1>6. ASSUME NEW n \in Nodes, NEW p \in Nodes, AskLease(n, p) PROVE TypeOK'
  <2> DEFINE l == round[n].lineage
             t == round[n].term
  <2>1. t \in Nat /\ l \in Ids \cup {None} /\ Id(n) \in Ids
    BY Zenon, Typed DEF Rounds
  <2>2. Granted(p, l, t, Id(n)) \in Leases
    BY <2>1, GrantedTyped
  <2>3. ASSUME NEW g \in BOOLEAN PROVE Counted(round[n], p, g) \in Rounds
    <3> DEFINE acks == IF g THEN round[n].acks \cup {p} ELSE round[n].acks
               pc == IF Cardinality(acks) >= Quorum THEN "quorum" ELSE "lease"
    <3>1. round[n] \in Rounds
      BY Typed
    <3>2. acks \in SUBSET Nodes /\ pc \in {"quorum", "lease"}
      BY Zenon, <3>1 DEF Rounds
    <3>3. Counted(round[n], p, g) = [round[n] EXCEPT !.todo = @ \ {p}, !.acks = acks, !.pc = pc]
      BY Zenon DEF Counted
    <3> HIDE DEF acks, pc
    <3> QED BY ZenonT(40), <3>1, <3>2, <3>3 DEF Rounds
  <2>4. lease' \in [Nodes -> Leases]
    BY Zenon, <1>6, <2>2 DEF AskLease, TypeOK
  <2>5. Grants(p, l, t, Id(n)) \in BOOLEAN
    BY Zenon DEF Grants
  <2>6. round' \in [Nodes -> Rounds] /\ leader' \in [Nodes -> Leaders]
    <3>1. CASE Newer(p, l, t, Id(n))
      <4>1. LeaderAfterFailure(n, round[n].kind, t, l) \in [Nodes -> Leaders]
        BY Zenon, <2>1, FailureTyped
      <4> QED BY Zenon, <1>6, <3>1, <4>1, Constructed DEF AskLease, TypeOK
    <3>2. CASE ~Newer(p, l, t, Id(n))
      BY Zenon, <1>6, <2>3, <2>5, <3>2 DEF AskLease, TypeOK
    <3> QED BY <3>1, <3>2
  <2> QED BY Zenon, <1>6, <2>4, <2>6 DEF AskLease, TypeOK, replication
<1>7. ASSUME NEW n \in Nodes, NEW p \in Nodes, LoseAnswer(n, p) PROVE TypeOK'
  <2>1. Granted(p, round[n].lineage, round[n].term, Id(n)) \in Leases
    BY Zenon, Typed, GrantedTyped DEF Rounds
  <2>2. [round[n] EXCEPT !.todo = @ \ {p}] \in Rounds
    BY Typed DEF Rounds
  <2> QED BY Zenon, <1>7, <2>1, <2>2 DEF LoseAnswer, TypeOK, replication
<1>8. ASSUME NEW n \in Nodes, FailRound(n) PROVE TypeOK'
  <2>1. round[n].term \in Nat /\ round[n].lineage \in Ids \cup {None}
    BY Zenon, Typed DEF Rounds
  <2> QED BY Zenon, <1>8, <2>1, FailureTyped, Constructed DEF FailRound, TypeOK, replication
<1>9. ASSUME NEW n \in Nodes, Established(n) PROVE TypeOK'
  BY Zenon, <1>9, ObtainedTyped, Constructed DEF Established, TypeOK, replication
<1>10. ASSUME NEW n \in Nodes, Renewed(n) PROVE TypeOK'
  <2>1. [leader[n] EXCEPT !.left = TimeLeft(n), !.acks = round[n].acks] \in Leaders
    <3>1. round[n] \in Rounds /\ leader[n] \in Leaders /\ TimeLeft(n) \in 0..LeaderTTL
      BY Typed, ObtainedTyped
    <3>2. round[n].acks \in SUBSET Nodes
      BY Zenon, <3>1 DEF Rounds
    <3> QED BY Zenon, <3>1, <3>2 DEF Leaders
  <2>2. leader' \in [Nodes -> Leaders] /\ round' \in [Nodes -> Rounds]
    BY ZenonT(40), <1>10, <2>1, Constructed DEF Renewed, Converging, TypeOK
  <2> QED BY Zenon, <1>10, <2>2 DEF Renewed, TypeOK, replication
<1>11. ASSUME NEW n \in Nodes, StopFollow(n) PROVE TypeOK'
  <2>1. [round[n] EXCEPT !.pc = "stopped"] \in Rounds
    BY Typed DEF Rounds
  <2> QED BY Zenon, <1>11, <2>1 DEF StopFollow, TypeOK
<1>12. ASSUME NEW n \in Nodes, Promote(n) PROVE TypeOK'
  <2>1. leader' \in [Nodes -> Leaders] /\ round' \in [Nodes -> Rounds]
    BY Zenon, <1>12, ObtainedTyped, Constructed DEF Promote, Converging, TypeOK
  <2> QED BY Zenon, <1>12, <2>1 DEF Promote, TypeOK
<1>13. ASSUME NEW n \in Nodes, AbandonPromotion(n) \/ ConvergeDone(n) PROVE TypeOK'
  BY Zenon, <1>13, Constructed DEF AbandonPromotion, ConvergeDone, TypeOK, replication
<1>14. ASSUME NEW n \in Nodes, NEW p \in Nodes, Reparent(n, p) PROVE TypeOK'
  <2>1. /\ \A m \in Nodes, T \in SUBSET Nodes : [round[m] EXCEPT !.todo = T] \in Rounds
        /\ \A r \in Rounds, b \in BOOLEAN : [r EXCEPT !.relinked = b] \in Rounds
    BY Typed DEF Rounds
  <2> DEFINE f == [round EXCEPT ![n].todo = @ \ {p}]
  <2>2. f \in [Nodes -> Rounds]
    <3>1. round[n].todo \ {p} \in SUBSET Nodes
      BY Zenon, Typed DEF Rounds
    <3> QED BY Zenon, <2>1, <3>1 DEF TypeOK
  <2>3. round' = [f EXCEPT ![p].relinked = Promoting(p)]
    BY Zenon, <1>14 DEF Reparent
  <2>4. Promoting(p) \in BOOLEAN
    BY Zenon DEF Promoting
  <2> HIDE DEF f
  <2>5. round' \in [Nodes -> Rounds]
    BY Zenon, <2>1, <2>2, <2>3, <2>4
  <2> QED BY Zenon, <1>14, <2>5, FollowTyped DEF Reparent, TypeOK
<1>15. ASSUME NEW n \in Nodes, NEW p \in Nodes, AskDemote(n, p) PROVE TypeOK'
  <2>1. [pc |-> "verify", from |-> n, id |-> Id(n), term |-> leader[n].term,
         lineage |-> leader[n].lineage] \in Demotions
    BY Zenon, Typed DEF Leaders, Demotions
  <2>2. [round[n] EXCEPT !.todo = @ \ {p}] \in Rounds
    BY Typed DEF Rounds
  <2> QED BY Zenon, <1>15, <2>1, <2>2 DEF AskDemote, TypeOK, replication
<1>16. ASSUME NEW p \in Nodes, VerifyDemote(p) PROVE TypeOK'
  <2> DEFINE d == demote[p]
  <2>1. d \in Demotions
    BY Zenon, <1>16 DEF VerifyDemote, TypeOK
  <2>2. [d EXCEPT !.pc = "apply"] \in Demotions
    BY Zenon, <2>1 DEF Demotions
  <2>3. \A q \in Nodes : Granted(q, d.lineage, d.term, d.id) \in Leases
    BY Zenon, <2>1, GrantedTyped DEF Demotions
  <2>4. demote' \in [Nodes -> Demotions \cup {None}]
    BY Zenon, <1>16, <2>2 DEF VerifyDemote, TypeOK
  <2>5. lease' \in [Nodes -> Leases]
    BY <1>16, <2>3 DEF VerifyDemote, TypeOK
  <2> QED BY Zenon, <1>16, <2>4, <2>5 DEF VerifyDemote, TypeOK, replication
<1>17. ASSUME NEW p \in Nodes, ApplyDemote(p) PROVE TypeOK'
  <2>1. demote[p].from \in Nodes
    BY Zenon, <1>17 DEF ApplyDemote, TypeOK, Demotions
  <2>2. demote' \in [Nodes -> Demotions \cup {None}]
    BY Zenon, <1>17 DEF ApplyDemote, TypeOK
  <2>3. [round[p] EXCEPT !.relinked = Promoting(p)] \in Rounds
    <3>1. round[p] \in Rounds /\ Promoting(p) \in BOOLEAN
      BY Zenon, Typed DEF Promoting
    <3> QED BY Zenon, <3>1 DEF Rounds
  <2>4. CASE KeepsOwnLease(p, demote[p])
    BY Zenon, <1>17, <2>2, <2>4 DEF ApplyDemote, TypeOK, replication
  <2>5. CASE ~KeepsOwnLease(p, demote[p])
    BY <1>17, <2>1, <2>2, <2>3, <2>5, FollowTyped DEF ApplyDemote, TypeOK
  <2> QED BY <2>4, <2>5
<1>18. ASSUME NEW n \in Nodes, Reconnect(n) PROVE TypeOK'
  <2>1. Id(upstream[n]) \in Ids
    BY Zenon, <1>18, Typed DEF Reconnect, UpstreamKnown
  <2>2. [round[n] EXCEPT !.relinked = Promoting(n)] \in Rounds
    <3>1. round[n] \in Rounds /\ Promoting(n) \in BOOLEAN
      BY Typed DEF Promoting
    <3> QED BY <3>1 DEF Rounds
  <2> QED BY Zenon, <1>18, <2>1, <2>2 DEF Reconnect, TypeOK
<1>19. ASSUME NEW n \in Nodes, LinkDown(n) PROVE TypeOK'
  BY Zenon, <1>19 DEF LinkDown, TypeOK
<1>20. ASSUME NEW n \in Nodes, Restart(n) PROVE TypeOK'
  <2>1. /\ inc' \in [Nodes -> Nat] /\ lease' \in [Nodes -> Leases]
        /\ leader' \in [Nodes -> Leaders] /\ round' \in [Nodes -> Rounds]
    <3>1. /\ inc' = [inc EXCEPT ![n] = @ + 1] /\ lease' = [lease EXCEPT ![n] = NoLease]
          /\ leader' = [leader EXCEPT ![n] = NoLeader] /\ round' = [round EXCEPT ![n] = NoRound]
      BY Zenon, <1>20 DEF Restart
    <3>2. inc' \in [Nodes -> Nat]
      BY <3>1 DEF TypeOK
    <3>3. lease' \in [Nodes -> Leases] /\ leader' \in [Nodes -> Leaders]
      BY Zenon, <3>1, Constructed DEF TypeOK
    <3>4. round' \in [Nodes -> Rounds]
      BY Zenon, <3>1, Constructed DEF TypeOK
    <3> QED BY <3>2, <3>3, <3>4
  <2>2. link' \in [Nodes -> {"up", "down"}]
    <3>1. (IF role[n] = "replica" THEN "down" ELSE link[n]) \in {"up", "down"}
      BY Zenon DEF TypeOK
    <3> QED BY Zenon, <1>20, <3>1 DEF Restart, TypeOK
  <2>3. demote' \in [Nodes -> Demotions \cup {None}]
    BY Zenon, <1>20 DEF Restart, TypeOK
  <2>4. following' \in [Nodes -> BOOLEAN]
    <3>1. (role[n] = "replica") \in BOOLEAN
      OBVIOUS
    <3> DEFINE b == role[n] = "replica"
    <3>2. following' = [following EXCEPT ![n] = b] /\ b \in BOOLEAN
      BY Zenon, <1>20, <3>1 DEF Restart
    <3> HIDE DEF b
    <3> QED BY Zenon, <3>2 DEF TypeOK
  <2> QED BY Zenon, <1>20, <2>1, <2>2, <2>3, <2>4 DEF Restart, TypeOK
<1>21. CASE UNCHANGED vars
  BY Zenon, <1>21 DEF vars, TypeOK
<1> QED
  BY Zenon, <1>1, <1>2, <1>3, <1>4, <1>5, <1>6, <1>7, <1>8, <1>9, <1>10, <1>11, <1>12, <1>13,
     <1>14, <1>15, <1>16, <1>17, <1>18, <1>19, <1>20, <1>21 DEF Next, Maintain, Handle

(* -------------------------------- claims --------------------------------- *)

\* n relies on member q for term t, for the time left.
Relies(n, q, t, left) ==
    \/ /\ LeaderLive(n) /\ q \in leader[n].acks
       /\ t = leader[n].term /\ left = leader[n].left
    \/ /\ round[n].pc \in {"lease", "quorum", "stopped"} /\ q \in round[n].acks
       /\ TimeLeft(n) > 0
       /\ t = round[n].term /\ left = TimeLeft(n)

Backed ==
    \A n, q \in Nodes, t, left \in Nat : Relies(n, q, t, left) => Backs(q, n, t, left)

Exclusive ==
    \A m, n, q \in Nodes, t, a, b \in Nat :
        Relies(m, q, t, a) /\ Relies(n, q, t, b) => m = n

\* The claims of IInv, put member by member.
LEMMA ClaimsForm ==
    TypeOK => (ClaimsBacked <=> Backed) /\ (ClaimsDisjoint <=> Exclusive)
<1> SUFFICES ASSUME TypeOK
             PROVE  (ClaimsBacked <=> Backed) /\ (ClaimsDisjoint <=> Exclusive)
  OBVIOUS
<1>1. ASSUME NEW n \in Nodes
      PROVE  /\ leader[n].acks \in SUBSET Nodes /\ leader[n].term \in Nat /\ leader[n].left \in Nat
             /\ round[n].acks \in SUBSET Nodes /\ round[n].term \in Nat /\ TimeLeft(n) \in Nat
  BY Typed, ObtainedTyped DEF Leaders, Rounds
<1>2. ASSUME NEW n \in Nodes, NEW c \in Claims(n)
      PROVE  /\ c.term \in Nat /\ c.left \in Nat /\ c.acks \in SUBSET Nodes
             /\ \A q \in c.acks : Relies(n, q, c.term, c.left)
  BY <1>1, <1>2 DEF Claims, Relies
<1>3. ASSUME NEW n \in Nodes, NEW q, NEW t, NEW left, Relies(n, q, t, left)
      PROVE  \E c \in Claims(n) : q \in c.acks /\ c.term = t /\ c.left = left
  <2>1. CASE LeaderLive(n) /\ q \in leader[n].acks /\ t = leader[n].term /\ left = leader[n].left
    <3> DEFINE c == [term |-> leader[n].term, left |-> leader[n].left, acks |-> leader[n].acks]
    <3>1. c \in Claims(n)
      BY Zenon, <2>1 DEF Claims
    <3> QED BY <2>1, <3>1
  <2>2. CASE /\ round[n].pc \in {"lease", "quorum", "stopped"} /\ q \in round[n].acks
             /\ TimeLeft(n) > 0 /\ t = round[n].term /\ left = TimeLeft(n)
    <3> DEFINE c == [term |-> round[n].term, left |-> TimeLeft(n), acks |-> round[n].acks]
    <3>1. c \in Claims(n)
      BY Zenon, <2>2 DEF Claims
    <3> QED BY <2>2, <3>1
  <2> QED BY Zenon, <1>3, <2>1, <2>2 DEF Relies
<1>4. ClaimsBacked => Backed
  BY <1>3 DEF ClaimsBacked, Backed
<1>5. Backed => ClaimsBacked
  BY Zenon, <1>2 DEF ClaimsBacked, Backed
<1>6. ClaimsDisjoint => Exclusive
  <2> SUFFICES ASSUME ClaimsDisjoint, NEW m \in Nodes, NEW n \in Nodes, NEW q \in Nodes,
                      NEW t \in Nat, NEW a \in Nat, NEW b \in Nat,
                      Relies(m, q, t, a), Relies(n, q, t, b), m # n
               PROVE  FALSE
    BY Zenon DEF Exclusive
  <2>1. PICK c \in Claims(m) : q \in c.acks /\ c.term = t
    BY <1>3
  <2>2. PICK d \in Claims(n) : q \in d.acks /\ d.term = t
    BY <1>3
  <2> QED BY Zenon, <2>1, <2>2 DEF ClaimsDisjoint
<1>7. Exclusive => ClaimsDisjoint
  <2> SUFFICES ASSUME Exclusive, NEW m \in Nodes, NEW n \in Nodes \ {m},
                      NEW c \in Claims(m), NEW d \in Claims(n), c.term = d.term,
                      NEW q \in c.acks, q \in d.acks
               PROVE  FALSE
    BY Zenon DEF ClaimsDisjoint
  <2>1. Relies(m, q, c.term, c.left) /\ Relies(n, q, c.term, d.left)
    BY <1>2
  <2>2. q \in Nodes /\ c.term \in Nat /\ c.left \in Nat /\ d.left \in Nat
    BY <1>2
  <2> QED BY Zenon, <2>1, <2>2 DEF Exclusive
<1> QED BY Zenon, <1>4, <1>5, <1>6, <1>7

\* The request of id for term t is granted by q in this step.
GrantedTo(q, t, id) ==
    /\ lease'[q] = [term |-> t, holder |-> id, left |-> LeaseTTL]
    /\ t >= lease[q].term
    /\ ~ (t = lease[q].term /\ lease[q].left > 0 /\ lease[q].holder \notin {None, id})

\* The leases of a step without a clock tick or a restart.
LeasesGranted ==
    \A q \in Nodes : lease'[q] = lease[q] \/ \E t \in Nat, id \in Ids : GrantedTo(q, t, id)

\* What n relies on after the step it relied on before, or was just granted.
ClaimsFounded(n) ==
    \A q \in Nodes, t, left \in Nat :
        Relies(n, q, t, left)' =>
            \/ \E before \in Nat : before >= left /\ Relies(n, q, t, before)
            \/ GrantedTo(q, t, Id(n))

\* A grant takes no backing from a live claim, and goes to a second node of a
\* term only where nobody relies on the first (requestFailoverLease).
LEMMA ClaimsStep ==
    ASSUME TypeOK, TypeOK', Backed, Exclusive, inc' = inc, LeasesGranted,
           \A n \in Nodes : ClaimsFounded(n)
    PROVE  Backed' /\ Exclusive'
<1>1. ASSUME NEW n \in Nodes, NEW q \in Nodes, NEW t \in Nat, NEW left \in Nat,
             Relies(n, q, t, left)
      PROVE  left > 0 /\ left <= LeaderTTL /\ Backs(q, n, t, left)
  <2>1. leader[n].left \in 0..LeaderTTL /\ TimeLeft(n) \in 0..LeaderTTL
    BY Zenon, Typed, ObtainedTyped DEF Leaders
  <2> QED BY <1>1, <2>1, LeaseAssumption DEF Relies, LeaderLive, Backed
<1>2. \A n \in Nodes : Id(n) \in Ids /\ Id(n) # None /\ Id(n)' = Id(n)
  BY Zenon, Typed DEF Id
<1>3. \A q \in Nodes : lease[q] \in Leases
  BY Typed
<1>4. ASSUME NEW n \in Nodes, NEW q \in Nodes, NEW t \in Nat, NEW left \in Nat,
             Relies(n, q, t, left)
      PROVE  Backs(q, n, t, left)'
  <2>1. left > 0 /\ left < LeaseTTL /\ Backs(q, n, t, left)
    BY <1>1, <1>4, LeaseAssumption
  <2>2. CASE lease'[q] = lease[q]
    BY Zenon, <1>2, <2>1, <2>2 DEF Backs
  <2>3. ASSUME NEW u \in Nat, NEW id \in Ids, GrantedTo(q, u, id)
        PROVE  Backs(q, n, t, left)'
    <3>1. lease[q].term \in Nat /\ lease[q].left \in Nat
      BY <1>3, LeaseAssumption DEF Leases
    <3>2. lease'[q].term = u /\ lease'[q].holder = id /\ lease'[q].left = LeaseTTL
      BY <2>3 DEF GrantedTo
    <3>3. u > t \/ (u = t /\ id = Id(n))
      BY <1>2, <2>1, <2>3, <3>1 DEF GrantedTo, Backs
    <3> QED BY <1>2, <2>1, <3>2, <3>3, LeaseAssumption DEF Backs
  <2> QED BY Zenon, <2>2, <2>3 DEF LeasesGranted
<1>5. ASSUME NEW n \in Nodes, NEW q \in Nodes, NEW t \in Nat, NEW left \in Nat,
             Relies(n, q, t, left)'
      PROVE  Backs(q, n, t, left)'
  <2>1. left <= LeaderTTL
    <3>1. (leader[n].left \in 0..LeaderTTL /\ TimeLeft(n) \in 0..LeaderTTL)'
      <4>1. leader'[n] \in Leaders /\ round'[n] \in Rounds
        BY Zenon DEF TypeOK
      <4> QED BY <4>1, LeaseAssumption DEF Leaders, Rounds, TimeLeft
    <3> QED BY <1>5, <3>1, LeaseAssumption DEF Relies
  <2>2. ASSUME NEW before \in Nat, before >= left, Relies(n, q, t, before)
        PROVE  Backs(q, n, t, left)'
    <3>1. Backs(q, n, t, before)'
      BY <1>4, <2>2
    <3>2. lease'[q].left \in Nat
      BY LeaseAssumption DEF TypeOK, Leases
    <3> QED BY <2>2, <3>1, <3>2 DEF Backs
  <2>3. ASSUME GrantedTo(q, t, Id(n)) PROVE Backs(q, n, t, left)'
    BY <1>2, <2>1, <2>3, LeaseAssumption DEF GrantedTo, Backs
  <2> QED BY Zenon, <1>5, <2>2, <2>3 DEF ClaimsFounded
<1>6. ASSUME NEW m \in Nodes, NEW n \in Nodes, NEW q \in Nodes, NEW t \in Nat,
             NEW a \in Nat, Relies(m, q, t, a), GrantedTo(q, t, Id(n))
      PROVE  m = n
  <2>1. a > 0 /\ Backs(q, m, t, a)
    BY <1>1, <1>6
  <2>2. lease[q].term \in Nat /\ lease[q].left \in Nat
    BY <1>3, LeaseAssumption DEF Leases
  <2>3. Id(m) = Id(n)
    BY <1>2, <1>6, <2>1, <2>2 DEF GrantedTo, Backs
  <2> QED BY Zenon, <2>3 DEF Id
<1>7. ASSUME NEW m \in Nodes, NEW n \in Nodes, NEW q \in Nodes, NEW t \in Nat,
             GrantedTo(q, t, Id(m)), GrantedTo(q, t, Id(n))
      PROVE  m = n
  BY <1>7 DEF GrantedTo, Id
<1>8. ASSUME NEW m \in Nodes, NEW n \in Nodes, NEW q \in Nodes, NEW t \in Nat,
             NEW a \in Nat, NEW b \in Nat, Relies(m, q, t, a)', Relies(n, q, t, b)'
      PROVE  m = n
  <2>1. (\E c \in Nat : Relies(m, q, t, c)) \/ GrantedTo(q, t, Id(m))
    BY Zenon, <1>8 DEF ClaimsFounded
  <2>2. (\E c \in Nat : Relies(n, q, t, c)) \/ GrantedTo(q, t, Id(n))
    BY Zenon, <1>8 DEF ClaimsFounded
  <2> QED BY Zenon, <1>6, <1>7, <2>1, <2>2 DEF Exclusive
<1> QED BY Zenon, <1>5, <1>8 DEF Backed, Exclusive

\* The lease n holds, or the round it is in, counts no more than before.
LeaderKept(n) == LeaderLive(n)' => leader'[n] = leader[n]
RoundKept(n) ==
    round'[n].pc \in {"lease", "quorum", "stopped"} =>
        /\ round[n].pc \in {"lease", "quorum", "stopped"}
        /\ round'[n].term = round[n].term
        /\ round'[n].acks = round[n].acks
        /\ round'[n].age = round[n].age

\* Whether the link came up during the pass does not matter to the claims.
LEMMA RelinkKeeps ==
    ASSUME TypeOK, NEW f \in [Nodes -> Rounds], NEW p \in Nodes, NEW b,
           \A m \in Nodes : /\ f[m].pc = round[m].pc /\ f[m].term = round[m].term
                            /\ f[m].acks = round[m].acks /\ f[m].age = round[m].age,
           round' = [f EXCEPT ![p].relinked = b]
    PROVE  \A m \in Nodes : /\ RoundKept(m) /\ round'[m].acks = round[m].acks
                            /\ round'[m].pc = round[m].pc /\ round'[m].kind = f[m].kind
                            /\ round'[m].term = round[m].term
BY DEF RoundKept, Rounds

\* Claims left alone are founded.
LEMMA KeptFounded ==
    ASSUME TypeOK, NEW n \in Nodes, LeaderKept(n), RoundKept(n)
    PROVE  ClaimsFounded(n)
<1>1. \A q \in Nodes, t, left \in Nat : Relies(n, q, t, left)' => Relies(n, q, t, left)
  BY Zenon DEF LeaderKept, RoundKept, Relies, LeaderLive, TimeLeft
<1> QED BY <1>1 DEF ClaimsFounded

\* A lease changes only by being granted to the one that asked.
LEMMA GrantFounded ==
    ASSUME TypeOK, NEW p \in Nodes, NEW l, NEW t \in Nat, NEW id \in Ids,
           lease'[p] = Granted(p, l, t, id)
    PROVE  /\ lease'[p] = lease[p] \/ GrantedTo(p, t, id)
           /\ Grants(p, l, t, id) => GrantedTo(p, t, id)
BY Zenon DEF Granted, Grants, GrantedTo

\* What a step that starts a round leaves of the claims.
LEMMA StartFounded ==
    ASSUME TypeOK, NEW n \in Nodes, NEW kind, NEW t \in Nat, NEW l, StartRound(n, kind, t, l)
    PROVE  LeasesGranted /\ \A m \in Nodes : ClaimsFounded(m)
<1>1. Id(n) \in Ids
  BY Typed
<1>2. CASE Newer(n, l, t, Id(n))
  <2>1. \A m \in Nodes : LeaderKept(m) /\ RoundKept(m)
    BY <1>2, Blank DEF StartRound, LeaderAfterFailure, LeaderKept, RoundKept, LeaderLive, TypeOK
  <2> QED BY Zenon, <1>2, <2>1, KeptFounded DEF StartRound, LeasesGranted
<1>3. CASE ~Newer(n, l, t, Id(n))
  <2>1. /\ lease' = [lease EXCEPT ![n] = Granted(n, l, t, Id(n))]
        /\ leader' = leader
        /\ round' = [round EXCEPT ![n] =
              [@ EXCEPT !.pc = "lease", !.kind = kind, !.term = t, !.lineage = l,
                        !.todo = Nodes \ {n},
                        !.acks = IF Grants(n, l, t, Id(n)) THEN {n} ELSE {}]]
    BY Zenon, <1>3 DEF StartRound
  <2>2. lease'[n] = Granted(n, l, t, Id(n)) /\ \A q \in Nodes \ {n} : lease'[q] = lease[q]
    BY Zenon, <2>1 DEF TypeOK
  <2>3. LeasesGranted
    BY Zenon, <1>1, <2>2, GrantFounded DEF LeasesGranted
  <2>4. \A m \in Nodes \ {n} : ClaimsFounded(m)
    BY Zenon, <2>1, KeptFounded DEF LeaderKept, RoundKept, TypeOK
  <2>5. /\ round'[n].acks = IF Grants(n, l, t, Id(n)) THEN {n} ELSE {}
        /\ round'[n].term = t
    BY <2>1 DEF TypeOK, Rounds
  <2>6. ASSUME NEW q \in Nodes, NEW u \in Nat, NEW left \in Nat, Relies(n, q, u, left)'
        PROVE  Relies(n, q, u, left) \/ GrantedTo(q, u, Id(n))
    <3>1. CASE q \in round'[n].acks /\ u = round'[n].term
      BY Zenon, <1>1, <2>2, <2>5, <3>1, GrantFounded
    <3>2. CASE ~(q \in round'[n].acks /\ u = round'[n].term)
      BY Zenon, <2>1, <2>6, <3>2 DEF Relies, LeaderLive
    <3> QED BY <3>1, <3>2
  <2>7. ClaimsFounded(n)
    BY <2>6 DEF ClaimsFounded
  <2> QED BY <2>3, <2>4, <2>7
<1> QED BY <1>2, <1>3

(* ------------------------- claims, step by step -------------------------- *)

\* A step other than a clock tick or a restart grants leases only on request,
\* and what a node counts on it has been granted.
LEMMA Founded ==
    ASSUME TypeOK, QuorumCounted, Next, ~Tick, \A n \in Nodes : ~Restart(n)
    PROVE  inc' = inc /\ LeasesGranted /\ \A n \in Nodes : ClaimsFounded(n)
<1>1. ASSUME NEW n \in Nodes, Establish(n) \/ Renew(n) \/ StartPromotion(n)
      PROVE  inc' = inc /\ LeasesGranted /\ \A m \in Nodes : ClaimsFounded(m)
  <2>1. Larger(failoverTerm[n], lease[n].term) + 1 \in Nat
        /\ leader[n].term \in Nat /\ round[n].term \in Nat
    BY Typed DEF Larger, Leases, Leaders, Rounds
  <2>2. CASE Establish(n)
    BY Zenon, <2>1, <2>2, StartFounded DEF Establish
  <2>3. CASE Renew(n)
    BY Zenon, <2>1, <2>3, StartFounded DEF Renew
  <2>4. CASE StartPromotion(n) /\ masterRunID[n] # None
    BY Zenon, <2>1, <2>4, StartFounded DEF StartPromotion
  <2>5. CASE StartPromotion(n) /\ masterRunID[n] = None
    <3>1. \A m \in Nodes : LeaderKept(m) /\ RoundKept(m)
      BY Zenon, <2>5, Blank DEF StartPromotion, LeaderKept, RoundKept, TypeOK
    <3> QED BY Zenon, <2>5, <3>1, KeptFounded DEF StartPromotion, LeasesGranted
  <2> QED BY Zenon, <1>1, <2>2, <2>3, <2>4, <2>5
<1>2. ASSUME NEW n \in Nodes, Elect(n)
      PROVE  inc' = inc /\ LeasesGranted /\ \A m \in Nodes : ClaimsFounded(m)
  <2>1. PICK t \in Nat : round' = round \/ round' = [round EXCEPT ![n].pc = "won", ![n].term = t]
    BY <1>2, LeaseAssumption DEF Elect
  <2>2. \A m \in Nodes : RoundKept(m)
    <3>1. round \in [Nodes -> Rounds]
      BY Zenon DEF TypeOK
    <3>2. \A m \in Nodes : round'[m] = round[m] \/ round'[m].pc = "won"
      BY Zenon, <2>1, <3>1 DEF Rounds
    <3> QED BY Zenon, <3>2 DEF RoundKept
  <2>3. lease' = lease /\ leader' = leader /\ inc' = inc
    BY Zenon, <1>2 DEF Elect
  <2> QED BY Zenon, <2>2, <2>3, KeptFounded DEF LeaderKept, LeasesGranted
<1>3. ASSUME NEW n \in Nodes, NEW p \in Nodes, AskLease(n, p)
      PROVE  inc' = inc /\ LeasesGranted /\ \A m \in Nodes : ClaimsFounded(m)
  <2> DEFINE l == round[n].lineage
             t == round[n].term
             g == Grants(p, l, t, Id(n))
  <2>1. t \in Nat /\ Id(n) \in Ids /\ round[n] \in Rounds
    BY Zenon, Typed DEF Rounds
  <2>2. lease'[p] = Granted(p, l, t, Id(n)) /\ \A q \in Nodes \ {p} : lease'[q] = lease[q]
    BY Zenon, <1>3 DEF AskLease, TypeOK
  <2>3. LeasesGranted
    BY Zenon, <2>1, <2>2, GrantFounded DEF LeasesGranted
  <2>4. CASE Newer(p, l, t, Id(n))
    <3>1. \A m \in Nodes : LeaderKept(m) /\ RoundKept(m)
      BY <1>3, <2>4, Blank DEF AskLease, LeaderAfterFailure, LeaderKept, RoundKept, LeaderLive, TypeOK
    <3> QED BY Zenon, <1>3, <2>3, <3>1, KeptFounded DEF AskLease
  <2>5. CASE ~Newer(p, l, t, Id(n))
    <3>1. leader' = leader /\ inc' = inc
          /\ round' = [round EXCEPT ![n] = Counted(@, p, g)]
      BY Zenon, <1>3, <2>5 DEF AskLease
    <3>2. \A m \in Nodes \ {n} : ClaimsFounded(m)
      BY Zenon, <3>1, KeptFounded DEF LeaderKept, RoundKept, TypeOK
    <3>3. /\ round'[n].term = t /\ round'[n].age = round[n].age
          /\ round'[n].acks = IF g THEN round[n].acks \cup {p} ELSE round[n].acks
          /\ round[n].pc = "lease"
      <4>1. /\ Counted(round[n], p, g).term = t /\ Counted(round[n], p, g).age = round[n].age
            /\ Counted(round[n], p, g).acks = IF g THEN round[n].acks \cup {p} ELSE round[n].acks
        BY Zenon, <2>1 DEF Counted, Rounds
      <4>2. round'[n] = Counted(round[n], p, g)
        BY Zenon, <3>1 DEF TypeOK
      <4> QED BY Zenon, <1>3, <4>1, <4>2 DEF AskLease
    <3>4. g => GrantedTo(p, t, Id(n))
      BY Zenon, <2>1, <2>2, GrantFounded
    <3> HIDE DEF g
    <3>5. ASSUME NEW q \in Nodes, NEW u \in Nat, NEW left \in Nat, Relies(n, q, u, left)'
          PROVE  Relies(n, q, u, left) \/ GrantedTo(q, u, Id(n))
      BY <3>1, <3>3, <3>4, <3>5 DEF Relies, LeaderLive, TimeLeft
    <3>6. ClaimsFounded(n)
      BY <3>5 DEF ClaimsFounded
    <3> QED BY Zenon, <2>3, <3>1, <3>2, <3>6
  <2> QED BY <2>4, <2>5
<1>4. ASSUME NEW n \in Nodes, NEW p \in Nodes, LoseAnswer(n, p)
      PROVE  inc' = inc /\ LeasesGranted /\ \A m \in Nodes : ClaimsFounded(m)
  <2>1. round[n].term \in Nat /\ Id(n) \in Ids
    BY Zenon, Typed DEF Rounds
  <2>2. /\ lease'[p] = Granted(p, round[n].lineage, round[n].term, Id(n))
        /\ \A q \in Nodes \ {p} : lease'[q] = lease[q]
    BY Zenon, <1>4 DEF LoseAnswer, TypeOK
  <2>3. LeasesGranted
    BY Zenon, <2>1, <2>2, GrantFounded DEF LeasesGranted
  <2>4. \A m \in Nodes : LeaderKept(m) /\ RoundKept(m)
    BY <1>4 DEF LoseAnswer, LeaderKept, RoundKept, TypeOK, Rounds
  <2> QED BY Zenon, <1>4, <2>3, <2>4, KeptFounded DEF LoseAnswer
<1>5. ASSUME NEW n \in Nodes, FailRound(n)
      PROVE  inc' = inc /\ LeasesGranted /\ \A m \in Nodes : ClaimsFounded(m)
  <2>1. \A m \in Nodes : LeaderKept(m) /\ RoundKept(m)
    BY <1>5, Blank DEF FailRound, LeaderAfterFailure, LeaderKept, RoundKept, LeaderLive, TypeOK
  <2> QED BY Zenon, <1>5, <2>1, KeptFounded DEF FailRound, LeasesGranted
<1>6. ASSUME NEW n \in Nodes, Established(n) \/ Renewed(n) \/ Promote(n)
      PROVE  inc' = inc /\ LeasesGranted /\ \A m \in Nodes : ClaimsFounded(m)
  <2>1. lease' = lease /\ inc' = inc
    BY Zenon, <1>6 DEF Established, Renewed, Promote
  <2>2. /\ \A m \in Nodes \ {n} : leader'[m] = leader[m] /\ round'[m] = round[m]
        /\ round'[n].pc \in {"idle", "converge"}
    <3>1. NoRound.pc = "idle" /\ [NoRound EXCEPT !.pc = "converge", !.todo = Nodes \ {n}].pc = "converge"
      BY Blank
    <3>2. CASE Established(n)
      BY Zenon, <3>1, <3>2 DEF Established, TypeOK
    <3>3. CASE Renewed(n)
      BY ZenonT(40), <3>1, <3>3 DEF Renewed, Converging, TypeOK
    <3>4. CASE Promote(n)
      BY Zenon, <3>1, <3>4 DEF Promote, Converging, TypeOK
    <3> QED BY Zenon, <1>6, <3>2, <3>3, <3>4
  <2>3. round[n].pc \in {"quorum", "stopped"}
    BY Zenon, <1>6 DEF Established, Renewed, Promote
  <2>4. LeaderLive(n)' => /\ leader'[n].term = round[n].term /\ leader'[n].acks = round[n].acks
                          /\ leader'[n].left = TimeLeft(n)
    <3>1. CASE Established(n)
      BY Zenon, <3>1 DEF Established, Obtained, TypeOK
    <3>2. CASE Renewed(n) /\ leader[n].active
      <4>1. leader[n].term = round[n].term
        BY Zenon, <3>2 DEF Renewed, QuorumCounted
      <4> QED BY <3>2, <4>1 DEF Renewed, TypeOK, Leaders
    <3>3. CASE Renewed(n) /\ ~leader[n].active
      BY Zenon, <3>3 DEF Renewed, LeaderLive
    <3>4. CASE Promote(n)
      BY Zenon, <3>4 DEF Promote, Obtained, TypeOK
    <3> QED BY Zenon, <1>6, <3>1, <3>2, <3>3, <3>4
  <2>5. \A q \in Nodes, t, left \in Nat : Relies(n, q, t, left)' => Relies(n, q, t, left)
    BY Zenon, <2>2, <2>3, <2>4 DEF Relies, LeaderLive
  <2>6. ClaimsFounded(n)
    BY <2>5 DEF ClaimsFounded
  <2>7. \A m \in Nodes \ {n} : ClaimsFounded(m)
    BY Zenon, <2>2, KeptFounded DEF LeaderKept, RoundKept
  <2> QED BY Zenon, <2>1, <2>6, <2>7 DEF LeasesGranted
<1>7. ASSUME NEW n \in Nodes, StopFollow(n) \/ AbandonPromotion(n) \/ ConvergeDone(n)
      PROVE  inc' = inc /\ LeasesGranted /\ \A m \in Nodes : ClaimsFounded(m)
  <2>1. lease' = lease /\ inc' = inc /\ leader' = leader
    BY Zenon, <1>7 DEF StopFollow, AbandonPromotion, ConvergeDone
  <2>2. \A m \in Nodes : RoundKept(m)
    <3>1. CASE StopFollow(n)
      <4>1. round' = [round EXCEPT ![n].pc = "stopped"] /\ round[n].pc = "quorum"
        BY Zenon, <3>1 DEF StopFollow
      <4> QED BY <4>1 DEF RoundKept, TypeOK, Rounds
    <3>2. CASE AbandonPromotion(n) \/ ConvergeDone(n)
      BY Zenon, <3>2, Blank DEF AbandonPromotion, ConvergeDone, RoundKept, TypeOK
    <3> QED BY <1>7, <3>1, <3>2
  <2> QED BY Zenon, <2>1, <2>2, KeptFounded DEF LeaderKept, LeasesGranted
<1>8. ASSUME NEW n \in Nodes, NEW p \in Nodes, Reparent(n, p) \/ AskDemote(n, p)
      PROVE  inc' = inc /\ LeasesGranted /\ \A m \in Nodes : ClaimsFounded(m)
  <2>1. lease' = lease /\ inc' = inc
    BY Zenon, <1>8 DEF Reparent, AskDemote
  <2>2. \A m \in Nodes : LeaderKept(m)
    BY <1>8, Blank DEF Reparent, AskDemote, Follow, LeaderKept, LeaderLive, TypeOK
  <2>3. \A m \in Nodes : RoundKept(m)
    <3> DEFINE f == [round EXCEPT ![n].todo = @ \ {p}]
               b == Promoting(p)
    <3>1. /\ f \in [Nodes -> Rounds]
          /\ \A m \in Nodes : /\ f[m].pc = round[m].pc /\ f[m].term = round[m].term
                               /\ f[m].acks = round[m].acks /\ f[m].age = round[m].age
      <4>1. round \in [Nodes -> Rounds]
        BY Zenon DEF TypeOK
      <4> QED BY <4>1 DEF Rounds
    <3>2. round' = [f EXCEPT ![p].relinked = b] \/ round' = f
      BY Zenon, <1>8 DEF Reparent, AskDemote
    <3> HIDE DEF f, b
    <3>3. CASE round' = f
      BY Zenon, <3>1, <3>3 DEF RoundKept
    <3>4. CASE round' = [f EXCEPT ![p].relinked = b]
      BY Zenon, <3>1, <3>4, RelinkKeeps
    <3> QED BY <3>2, <3>3, <3>4
  <2> QED BY Zenon, <2>1, <2>2, <2>3, KeptFounded DEF LeasesGranted
<1>9. ASSUME NEW p \in Nodes, VerifyDemote(p)
      PROVE  inc' = inc /\ LeasesGranted /\ \A m \in Nodes : ClaimsFounded(m)
  <2> DEFINE d == demote[p]
  <2>1. d.term \in Nat /\ d.id \in Ids
    BY Zenon, <1>9 DEF VerifyDemote, TypeOK, Demotions
  <2>2. \A q \in Nodes : lease'[q] = lease[q] \/ lease'[q] = Granted(q, d.lineage, d.term, d.id)
    BY Zenon, <1>9 DEF VerifyDemote
  <2>3. LeasesGranted
    BY Zenon, <2>1, <2>2, GrantFounded DEF LeasesGranted
  <2>4. inc' = inc /\ leader' = leader /\ round' = round
    BY Zenon, <1>9 DEF VerifyDemote
  <2> QED BY Zenon, <2>3, <2>4, KeptFounded DEF LeaderKept, RoundKept
<1>10. ASSUME NEW p \in Nodes, ApplyDemote(p)
       PROVE  inc' = inc /\ LeasesGranted /\ \A m \in Nodes : ClaimsFounded(m)
  <2>1. lease' = lease /\ inc' = inc
    BY Zenon, <1>10 DEF ApplyDemote
  <2>2. \A m \in Nodes : LeaderKept(m)
    BY <1>10, Blank DEF ApplyDemote, Follow, LeaderKept, LeaderLive, TypeOK
  <2>3. \A m \in Nodes : RoundKept(m)
    <3> DEFINE b == Promoting(p)
    <3>1. round' = round \/ round' = [round EXCEPT ![p].relinked = b]
      BY Zenon, <1>10 DEF ApplyDemote
    <3> HIDE DEF b
    <3>2. CASE round' = round
      BY Zenon, <3>2 DEF RoundKept
    <3>3. round \in [Nodes -> Rounds]
      BY Zenon DEF TypeOK
    <3> QED BY Zenon, <3>1, <3>2, <3>3, RelinkKeeps
  <2> QED BY Zenon, <2>1, <2>2, <2>3, KeptFounded DEF LeasesGranted
<1>11. ASSUME NEW n \in Nodes, Reconnect(n) \/ LinkDown(n)
       PROVE  inc' = inc /\ LeasesGranted /\ \A m \in Nodes : ClaimsFounded(m)
  <2>1. lease' = lease /\ inc' = inc /\ leader' = leader
    BY Zenon, <1>11 DEF Reconnect, LinkDown
  <2>2. \A m \in Nodes : RoundKept(m)
    <3> DEFINE b == Promoting(n)
    <3>1. round' = round \/ round' = [round EXCEPT ![n].relinked = b]
      BY Zenon, <1>11 DEF Reconnect, LinkDown
    <3> HIDE DEF b
    <3>2. CASE round' = round
      BY <3>2 DEF RoundKept
    <3>3. round \in [Nodes -> Rounds]
      BY DEF TypeOK
    <3> QED BY <3>1, <3>2, <3>3, RelinkKeeps
  <2> QED BY <2>1, <2>2, KeptFounded DEF LeaderKept, LeasesGranted
<1> QED
  BY Zenon, <1>1, <1>2, <1>3, <1>4, <1>5, <1>6, <1>7, <1>8, <1>9, <1>10, <1>11 DEF Next, Maintain, Handle

\* Time takes as much from what a node relies on as from what backs it
\* (acquireFailoverLeaseRound counts from the start of the pass).
LEMMA TickClaims ==
    ASSUME TypeOK, Backed, Exclusive, Tick
    PROVE  Backed' /\ Exclusive'
<1>1. ASSUME NEW q \in Nodes
      PROVE  /\ lease'[q].term = lease[q].term /\ lease'[q].holder = lease[q].holder
             /\ lease'[q].left = Passed(lease[q].left) /\ lease[q].left \in Nat
  <2>1. lease[q] \in Leases
    BY Typed
  <2>2. lease'[q] = [lease[q] EXCEPT !.left = Passed(@)]
    BY Zenon DEF Tick
  <2> QED BY <2>1, <2>2, LeaseAssumption DEF Leases
<1>2. ASSUME NEW n \in Nodes, NEW q \in Nodes, NEW t \in Nat, NEW left \in Nat,
             Relies(n, q, t, left)'
      PROVE  Relies(n, q, t, left + 1)
  <2>1. leader[n] \in Leaders /\ round[n] \in Rounds
    BY Typed
  <2>2. leader'[n] = [leader[n] EXCEPT !.left = Passed(@)] /\ round'[n] = Older(round[n])
    BY Zenon DEF Tick
  <2>3. CASE /\ LeaderLive(n)' /\ q \in leader'[n].acks
             /\ t = leader'[n].term /\ left = leader'[n].left
    <3>1. /\ leader'[n].active = leader[n].active /\ leader'[n].acks = leader[n].acks
          /\ leader'[n].term = leader[n].term /\ leader'[n].left = Passed(leader[n].left)
          /\ leader[n].left \in Nat
      BY <2>1, <2>2, LeaseAssumption DEF Leaders
    <3> QED BY <2>3, <3>1 DEF Relies, LeaderLive, Passed
  <2>4. CASE /\ round'[n].pc \in {"lease", "quorum", "stopped"} /\ q \in round'[n].acks
             /\ TimeLeft(n)' > 0
             /\ t = round'[n].term /\ left = TimeLeft(n)'
    <3>1. /\ round'[n].pc = round[n].pc /\ round'[n].acks = round[n].acks
          /\ round'[n].term = round[n].term
          /\ round[n].age \in Nat
          /\ round'[n].age = IF round[n].pc \in {"idle", "converge"} \/ round[n].age = LeaderTTL
                             THEN round[n].age ELSE round[n].age + 1
      BY <2>1, <2>2, LeaseAssumption DEF Rounds, Older
    <3> QED BY <2>4, <3>1, LeaseAssumption DEF Relies, TimeLeft
  <2> QED BY Zenon, <1>2, <2>3, <2>4 DEF Relies
<1>3. ASSUME NEW n \in Nodes, NEW q \in Nodes, NEW t \in Nat, NEW left \in Nat,
             Relies(n, q, t, left)'
      PROVE  Backs(q, n, t, left)'
  <2>1. Backs(q, n, t, left + 1)
    BY <1>2, <1>3 DEF Backed
  <2>2. Id(n)' = Id(n)
    BY Zenon DEF Tick, Id
  <2> QED BY <1>1, <2>1, <2>2 DEF Backs, Passed
<1>4. ASSUME NEW m \in Nodes, NEW n \in Nodes, NEW q \in Nodes, NEW t \in Nat,
             NEW a \in Nat, NEW b \in Nat, Relies(m, q, t, a)', Relies(n, q, t, b)'
      PROVE  m = n
  <2>1. Relies(m, q, t, a + 1) /\ Relies(n, q, t, b + 1)
    BY <1>2, <1>4
  <2> QED BY <2>1 DEF Exclusive
<1> QED BY Zenon, <1>3, <1>4 DEF Backed, Exclusive

\* Nobody relies on a member whose lease has ended, so that it may forget it.
LEMMA RestartClaims ==
    ASSUME ~QuickRestart, TypeOK, Backed, Exclusive, NEW n \in Nodes, Restart(n)
    PROVE  Backed' /\ Exclusive'
<1>1. /\ lease[n].left = 0
      /\ inc' = [inc EXCEPT ![n] = @ + 1] /\ lease' = [lease EXCEPT ![n] = NoLease]
      /\ leader' = [leader EXCEPT ![n] = NoLeader] /\ round' = [round EXCEPT ![n] = NoRound]
  BY Zenon DEF Restart
<1>2. \A m \in Nodes \ {n} : /\ Id(m)' = Id(m) /\ lease'[m] = lease[m]
                             /\ leader'[m] = leader[m] /\ round'[m] = round[m]
  BY Zenon, <1>1 DEF TypeOK, Id
<1>3. ~leader'[n].active /\ round'[n].pc = "idle"
  BY Zenon, <1>1, Blank DEF TypeOK
<1>4. ASSUME NEW m \in Nodes, NEW q \in Nodes, NEW t \in Nat, NEW left \in Nat,
             Relies(m, q, t, left)'
      PROVE  Relies(m, q, t, left) /\ m # n /\ q # n
  <2>1. m # n
    BY Zenon, <1>3, <1>4 DEF Relies, LeaderLive
  <2>2. Relies(m, q, t, left) /\ left > 0
    BY Zenon, <1>2, <1>4, <2>1 DEF Relies, LeaderLive, TimeLeft
  <2>3. lease[q].left >= left
    BY Zenon, <2>2 DEF Backed, Backs
  <2> QED BY <1>1, <2>1, <2>2, <2>3
<1>5. Backed'
  BY <1>2, <1>4 DEF Backed, Backs
<1>6. Exclusive'
  BY <1>4 DEF Exclusive
<1> QED BY <1>5, <1>6

\* Every step keeps live claims backed and those of a term disjoint.
LEMMA ClaimsKept ==
    ASSUME ~QuickRestart, IInv, [Next]_vars, TypeOK'
    PROVE  ClaimsBacked' /\ ClaimsDisjoint'
<1>1. Backed /\ Exclusive /\ TypeOK /\ QuorumCounted
  BY Zenon, ClaimsForm DEF IInv
<1>2. Backed' /\ Exclusive'
  <2>1. CASE Tick
    BY <1>1, <2>1, TickClaims
  <2>2. ASSUME NEW n \in Nodes, Restart(n) PROVE Backed' /\ Exclusive'
    BY <1>1, <2>2, RestartClaims
  <2>3. CASE Next /\ ~Tick /\ \A n \in Nodes : ~Restart(n)
    <3>1. inc' = inc /\ LeasesGranted /\ \A n \in Nodes : ClaimsFounded(n)
      BY <1>1, <2>3, Founded
    <3> QED BY <1>1, <3>1, ClaimsStep
  <2>4. CASE UNCHANGED vars
    <3>1. inc' = inc /\ LeasesGranted
      BY Zenon, <2>4 DEF vars, LeasesGranted
    <3>2. \A n \in Nodes : LeaderKept(n) /\ RoundKept(n)
      BY Zenon, <2>4 DEF vars, LeaderKept, RoundKept
    <3> QED BY Zenon, <1>1, <3>1, <3>2, KeptFounded, ClaimsStep
  <2> QED BY Zenon, <2>1, <2>2, <2>3, <2>4
<1>3. (TypeOK => (ClaimsBacked <=> Backed) /\ (ClaimsDisjoint <=> Exclusive))'
  BY ClaimsForm, PTL
<1> QED BY <1>2, <1>3

(* -------------------------------- quorums -------------------------------- *)

Counts(n) ==
    /\ round[n].pc \in {"quorum", "stopped"} => Cardinality(round[n].acks) >= Quorum
    /\ LeaderLive(n) => Cardinality(leader[n].acks) >= Quorum
    /\ round[n].pc \in {"lease", "quorum"} /\ round[n].kind = "renew" /\ leader[n].active
       => leader[n].term = round[n].term

SameCount(n) ==
    /\ \/ leader'[n] = leader[n]
       \/ ~leader'[n].active
       \/ ~LeaderLive(n)' /\ round'[n].pc \notin {"lease", "quorum"}
    /\ \/ round'[n].pc \notin {"lease", "quorum", "stopped"}
       \/ /\ round'[n].pc = round[n].pc /\ round'[n].kind = round[n].kind
          /\ round'[n].term = round[n].term /\ round'[n].acks = round[n].acks

\* Counts left alone still hold.
LEMMA SameCounts ==
    ASSUME NEW n \in Nodes, Counts(n), SameCount(n)
    PROVE  Counts(n)'
BY Zenon DEF Counts, SameCount, LeaderLive

\* A round that starts counts nobody but itself.
LEMMA StartCounts ==
    ASSUME TypeOK, \A m \in Nodes : Counts(m), NEW n \in Nodes, NEW kind, NEW t, NEW l,
           kind = "renew" => t = leader[n].term, StartRound(n, kind, t, l)
    PROVE  \A m \in Nodes : Counts(m)'
<1>1. CASE Newer(n, l, t, Id(n))
  <2>1. \A m \in Nodes : SameCount(m)
    BY <1>1, Blank DEF StartRound, LeaderAfterFailure, SameCount, LeaderLive, TypeOK
  <2> QED BY <2>1, SameCounts
<1>2. CASE ~Newer(n, l, t, Id(n))
  <2>1. /\ leader' = leader
        /\ \E acks : round' = [round EXCEPT ![n] =
              [@ EXCEPT !.pc = "lease", !.kind = kind, !.term = t, !.lineage = l,
                        !.todo = Nodes \ {n}, !.acks = acks]]
    BY Zenon, <1>2 DEF StartRound
  <2>2. /\ round'[n].pc = "lease" /\ round'[n].kind = kind /\ round'[n].term = t
        /\ \A m \in Nodes \ {n} : round'[m] = round[m]
    BY <2>1 DEF TypeOK, Rounds
  <2>3. \A m \in Nodes \ {n} : Counts(m)'
    BY Zenon, <2>1, <2>2, SameCounts DEF SameCount
  <2>4. Counts(n)'
    BY Zenon, <2>1, <2>2 DEF Counts, LeaderLive
  <2> QED BY <2>3, <2>4
<1> QED BY <1>1, <1>2

\* A quorum is counted before it is relied on, and a renewal renews the
\* leader's own term (maintainFailoverLeaderLease).
LEMMA CountsStep ==
    ASSUME TypeOK, QuorumCounted, [Next]_vars
    PROVE  QuorumCounted'
<1>1. \A m \in Nodes : Counts(m)
  BY Zenon DEF QuorumCounted, Counts
<1>2. SUFFICES \A m \in Nodes : Counts(m)'
  BY Zenon DEF QuorumCounted, Counts
<1>3. SUFFICES ASSUME ~(\A m \in Nodes : SameCount(m)) PROVE \A m \in Nodes : Counts(m)'
  BY <1>1, SameCounts
<1>4. round \in [Nodes -> Rounds] /\ leader \in [Nodes -> Leaders]
  BY Zenon DEF TypeOK
<1>5. CASE Tick
  <2> SUFFICES ASSUME NEW m \in Nodes PROVE Counts(m)'
    OBVIOUS
  <2>1. leader'[m] = [leader[m] EXCEPT !.left = Passed(@)] /\ round'[m] = Older(round[m])
    BY Zenon, <1>5 DEF Tick
  <2>2. /\ leader'[m].active = leader[m].active /\ leader'[m].acks = leader[m].acks
        /\ leader'[m].term = leader[m].term /\ leader'[m].left = Passed(leader[m].left)
        /\ leader[m].left \in Nat
    BY <1>4, <2>1, LeaseAssumption DEF Leaders
  <2>3. /\ round'[m].pc = round[m].pc /\ round'[m].acks = round[m].acks
        /\ round'[m].term = round[m].term /\ round'[m].kind = round[m].kind
    BY <1>4, <2>1 DEF Rounds, Older
  <2> QED BY <1>1, <2>2, <2>3 DEF Counts, LeaderLive, Passed
<1>6. ASSUME NEW n \in Nodes, Establish(n) \/ Renew(n)
      PROVE  \A m \in Nodes : Counts(m)'
  BY Zenon, <1>1, <1>6, StartCounts DEF Establish, Renew
<1>7. ASSUME NEW n \in Nodes, StartPromotion(n)
      PROVE  \A m \in Nodes : Counts(m)'
  <2>1. CASE masterRunID[n] = None
    BY Zenon, <1>3, <1>4, <1>7, <2>1, Blank DEF StartPromotion, SameCount
  <2>2. CASE masterRunID[n] # None
    BY Zenon, <1>1, <1>7, <2>2, StartCounts DEF StartPromotion
  <2> QED BY <2>1, <2>2
<1>8. ASSUME NEW n \in Nodes, Elect(n) PROVE FALSE
  <2>1. PICK t \in Nat : round' = round \/ round' = [round EXCEPT ![n].pc = "won", ![n].term = t]
    BY <1>8, LeaseAssumption DEF Elect
  <2>2. \A m \in Nodes : round'[m] = round[m] \/ round'[m].pc = "won"
    BY ZenonT(40), <1>4, <2>1 DEF Rounds
  <2> QED BY Zenon, <1>3, <1>8, <2>2 DEF Elect, SameCount
<1>9. ASSUME NEW n \in Nodes, NEW p \in Nodes, AskLease(n, p)
      PROVE  \A m \in Nodes : Counts(m)'
  <2> DEFINE l == round[n].lineage
             t == round[n].term
             g == Grants(p, l, t, Id(n))
  <2>1. CASE Newer(p, l, t, Id(n))
    BY <1>3, <1>4, <1>9, <2>1, Blank DEF AskLease, LeaderAfterFailure, SameCount, LeaderLive
  <2>2. CASE ~Newer(p, l, t, Id(n))
    <3>1. leader' = leader /\ round' = [round EXCEPT ![n] = Counted(@, p, g)]
      BY Zenon, <1>9, <2>2 DEF AskLease
    <3> DEFINE r == Counted(round[n], p, g)
    <3>2. /\ r.pc \in {"lease", "quorum"} /\ r.kind = round[n].kind /\ r.term = round[n].term
          /\ r.pc = "quorum" => Cardinality(r.acks) >= Quorum
      BY <1>4 DEF Counted, Rounds
    <3>3. round'[n] = r /\ \A m \in Nodes \ {n} : round'[m] = round[m]
      BY <1>4, <3>1
    <3>4. round[n].pc = "lease"
      BY Zenon, <1>9 DEF AskLease
    <3> HIDE DEF r
    <3>5. Counts(n)'
      BY Zenon, <1>1, <3>1, <3>2, <3>3, <3>4 DEF Counts, LeaderLive
    <3>6. \A m \in Nodes \ {n} : Counts(m)'
      BY Zenon, <1>1, <3>1, <3>3, SameCounts DEF SameCount
    <3> QED BY <3>5, <3>6
  <2> QED BY <2>1, <2>2
<1>10. ASSUME NEW n \in Nodes, NEW p \in Nodes, LoseAnswer(n, p) PROVE FALSE
  <2>1. round' = [round EXCEPT ![n].todo = @ \ {p}] /\ leader' = leader
    BY Zenon, <1>10 DEF LoseAnswer
  <2>2. \A m \in Nodes : /\ round'[m].pc = round[m].pc /\ round'[m].kind = round[m].kind
                          /\ round'[m].term = round[m].term /\ round'[m].acks = round[m].acks
    BY <1>4, <2>1 DEF Rounds
  <2> QED BY Zenon, <1>3, <2>1, <2>2 DEF SameCount
<1>11. ASSUME NEW n \in Nodes, FailRound(n) PROVE FALSE
  BY <1>3, <1>4, <1>11, Blank DEF FailRound, LeaderAfterFailure, SameCount, LeaderLive
<1>12. ASSUME NEW n \in Nodes, Established(n) \/ Renewed(n) \/ Promote(n)
       PROVE  \A m \in Nodes : Counts(m)'
  <2>1. /\ \A m \in Nodes \ {n} : leader'[m] = leader[m] /\ round'[m] = round[m]
        /\ round'[n].pc \in {"idle", "converge"}
    <3>1. NoRound.pc = "idle" /\ [NoRound EXCEPT !.pc = "converge", !.todo = Nodes \ {n}].pc = "converge"
      BY Blank
    <3>2. CASE Established(n)
      BY Zenon, <1>4, <3>1, <3>2 DEF Established
    <3>3. CASE Renewed(n)
      BY Zenon, <1>4, <3>1, <3>3 DEF Renewed, Converging
    <3>4. CASE Promote(n)
      BY Zenon, <1>4, <3>1, <3>4 DEF Promote, Converging
    <3> QED BY Zenon, <1>12, <3>2, <3>3, <3>4
  <2>2. leader'[n] = leader[n] \/ leader'[n].acks = round[n].acks
    <3>1. CASE Established(n)
      BY Zenon, <1>4, <3>1 DEF Established, Obtained
    <3>2. CASE Renewed(n)
      BY <1>4, <3>2 DEF Renewed, Leaders
    <3>3. CASE Promote(n)
      BY Zenon, <1>4, <3>3 DEF Promote, Obtained
    <3> QED BY Zenon, <1>12, <3>1, <3>2, <3>3
  <2>3. Cardinality(round[n].acks) >= Quorum
    BY Zenon, <1>1, <1>12 DEF Counts, Established, Renewed, Promote
  <2>4. Counts(n)'
    BY Zenon, <1>1, <2>1, <2>2, <2>3 DEF Counts, LeaderLive
  <2>5. \A m \in Nodes \ {n} : Counts(m)'
    BY Zenon, <1>1, <2>1, SameCounts DEF SameCount
  <2> QED BY <2>4, <2>5
<1>13. ASSUME NEW n \in Nodes, StopFollow(n)
       PROVE  \A m \in Nodes : Counts(m)'
  <2>1. round' = [round EXCEPT ![n].pc = "stopped"] /\ leader' = leader /\ round[n].pc = "quorum"
    BY Zenon, <1>13 DEF StopFollow
  <2>2. /\ round'[n].pc = "stopped" /\ round'[n].acks = round[n].acks
        /\ \A m \in Nodes \ {n} : round'[m] = round[m]
    BY Zenon, <1>4, <2>1 DEF Rounds
  <2>3. Counts(n)'
    BY Zenon, <1>1, <2>1, <2>2 DEF Counts, LeaderLive
  <2>4. \A m \in Nodes \ {n} : Counts(m)'
    BY Zenon, <1>1, <2>1, <2>2, SameCounts DEF SameCount
  <2> QED BY <2>3, <2>4
<1>14. ASSUME NEW n \in Nodes, AbandonPromotion(n) \/ ConvergeDone(n) \/ Restart(n) PROVE FALSE
  <2>1. leader' = leader \/ leader' = [leader EXCEPT ![n] = NoLeader]
    BY Zenon, <1>14 DEF AbandonPromotion, ConvergeDone, Restart
  <2>2. round' = [round EXCEPT ![n] = NoRound]
    BY Zenon, <1>14 DEF AbandonPromotion, ConvergeDone, Restart
  <2> QED BY Zenon, <1>3, <1>4, <2>1, <2>2, Blank DEF SameCount
<1>15. ASSUME NEW n \in Nodes, NEW p \in Nodes, NEW b, NEW T,
              \/ leader' = leader
              \/ leader' = [leader EXCEPT ![p] = NoLeader],
              \/ round' = round
              \/ round' = [round EXCEPT ![n].todo = T]
              \/ round' = [round EXCEPT ![p].relinked = b]
              \/ round' = [round EXCEPT ![n].todo = T, ![p].relinked = b]
       PROVE  FALSE
  <2>1. \A m \in Nodes : leader'[m] = leader[m] \/ ~leader'[m].active
    BY <1>4, <1>15 DEF NoLeader
  <2>2. \A m \in Nodes : /\ round'[m].pc = round[m].pc /\ round'[m].kind = round[m].kind
                          /\ round'[m].term = round[m].term /\ round'[m].acks = round[m].acks
    BY <1>4, <1>15 DEF Rounds
  <2> QED BY Zenon, <1>3, <2>1, <2>2 DEF SameCount
<1>16. ASSUME NEW n \in Nodes, NEW p \in Nodes, Reparent(n, p) \/ AskDemote(n, p) PROVE FALSE
  <2> DEFINE b == Promoting(p)
             T == round[n].todo \ {p}
  <2>1. leader' = leader \/ leader' = [leader EXCEPT ![p] = NoLeader]
    BY Zenon, <1>16 DEF Reparent, AskDemote, Follow
  <2>2. \/ round' = [round EXCEPT ![n].todo = T]
        \/ round' = [round EXCEPT ![n].todo = T, ![p].relinked = b]
    BY Zenon, <1>16 DEF Reparent, AskDemote
  <2> HIDE DEF b, T
  <2> QED BY <1>15, <2>1, <2>2
<1>17. ASSUME NEW p \in Nodes, VerifyDemote(p) \/ ApplyDemote(p) \/ Reconnect(p) \/ LinkDown(p)
       PROVE  FALSE
  <2> DEFINE b == Promoting(p)
  <2>1. leader' = leader \/ leader' = [leader EXCEPT ![p] = NoLeader]
    BY Zenon, <1>17 DEF VerifyDemote, ApplyDemote, Reconnect, LinkDown, Follow
  <2>2. round' = round \/ round' = [round EXCEPT ![p].relinked = b]
    BY Zenon, <1>17 DEF VerifyDemote, ApplyDemote, Reconnect, LinkDown
  <2> HIDE DEF b
  <2> QED BY Zenon, <1>15, <2>1, <2>2
<1>18. CASE UNCHANGED vars
  BY Zenon, <1>3, <1>18 DEF vars, SameCount
<1> QED
  BY Zenon, <1>5, <1>6, <1>7, <1>8, <1>9, <1>10, <1>11, <1>12, <1>13, <1>14, <1>16, <1>17, <1>18
  DEF Next, Maintain, Handle

(* -------------------------------- masters -------------------------------- *)

\* A replica follows somebody, and a node steps down only when another master
\* answered it that was not stepping down (requestFailoverDemote).
LEMMA MastersStep ==
    ASSUME TypeOK, UpstreamKnown, MasterStays, [Next]_vars
    PROVE  UpstreamKnown' /\ MasterStays'
<1>1. PICK s \in Nodes : role[s] = "master" /\ (demote[s] = None \/ demote[s].pc = "verify")
  BY Zenon DEF MasterStays
<1>2. ASSUME NEW n \in Nodes, NEW p \in Nodes,
             \/ Tick \/ Establish(n) \/ Renew(n) \/ Elect(n) \/ StartPromotion(n)
             \/ AskLease(n, p) \/ LoseAnswer(n, p) \/ FailRound(n) \/ Established(n)
             \/ Renewed(n) \/ StopFollow(n) \/ AbandonPromotion(n) \/ ConvergeDone(n)
             \/ Reconnect(n) \/ LinkDown(n) \/ UNCHANGED vars
      PROVE  UpstreamKnown' /\ MasterStays'
  <2>1. role' = role /\ upstream' = upstream /\ demote' = demote
    BY Zenon, <1>2 DEF Tick, Establish, Renew, Elect, StartPromotion, AskLease, LoseAnswer, FailRound,
                Established, Renewed, StopFollow, AbandonPromotion, ConvergeDone, Reconnect,
                LinkDown, replication, vars
  <2> QED BY Zenon, <2>1 DEF UpstreamKnown, MasterStays
<1>3. ASSUME NEW n \in Nodes, Promote(n) PROVE UpstreamKnown' /\ MasterStays'
  BY Zenon, <1>1, <1>3 DEF Promote, UpstreamKnown, MasterStays, TypeOK
<1>4. ASSUME NEW n \in Nodes, NEW p \in Nodes, Reparent(n, p)
      PROVE  UpstreamKnown' /\ MasterStays'
  BY Zenon, <1>1, <1>4 DEF Reparent, AcceptsReparent, Follow, UpstreamKnown, MasterStays, TypeOK
<1>5. ASSUME NEW n \in Nodes, NEW p \in Nodes, AskDemote(n, p)
      PROVE  UpstreamKnown' /\ MasterStays'
  <2>1. role' = role /\ upstream' = upstream
    BY Zenon, <1>5 DEF AskDemote, replication
  <2>2. demote'[s] = demote[s] \/ demote'[s].pc = "verify"
    BY Zenon, <1>1, <1>5 DEF AskDemote, TypeOK
  <2> QED BY Zenon, <1>1, <2>1, <2>2 DEF UpstreamKnown, MasterStays
<1>6. ASSUME NEW p \in Nodes, VerifyDemote(p) PROVE UpstreamKnown' /\ MasterStays'
  <2> DEFINE d == demote[p]
  <2>1. role' = role /\ upstream' = upstream
    BY Zenon, <1>6 DEF VerifyDemote, replication
  <2>2. \/ demote' = [demote EXCEPT ![p] = None]
        \/ /\ demote' = [demote EXCEPT ![p] = [d EXCEPT !.pc = "apply"]]
           /\ demote[d.from] = None /\ role[d.from] = "master"
    BY Zenon, <1>6 DEF VerifyDemote, Answers
  <2>3. d \in Demotions /\ d # None
    BY Zenon, <1>6 DEF VerifyDemote, TypeOK
  <2>4. CASE demote' = [demote EXCEPT ![p] = None]
    BY Zenon, <1>1, <2>1, <2>4 DEF UpstreamKnown, MasterStays, TypeOK
  <2>5. CASE /\ demote' = [demote EXCEPT ![p] = [d EXCEPT !.pc = "apply"]]
             /\ demote[d.from] = None /\ role[d.from] = "master"
    <3>1. d.from \in Nodes /\ d.from # p
      BY Zenon, <2>3, <2>5 DEF Demotions
    <3>2. demote'[d.from] = None
      BY Zenon, <2>5, <3>1 DEF TypeOK
    <3> QED BY Zenon, <2>1, <2>5, <3>1, <3>2 DEF UpstreamKnown, MasterStays
  <2> QED BY <2>2, <2>4, <2>5
<1>7. ASSUME NEW p \in Nodes, ApplyDemote(p) PROVE UpstreamKnown' /\ MasterStays'
  <2>1. p # s /\ demote[p].from \in Nodes
    BY Zenon, <1>1, <1>7 DEF ApplyDemote, TypeOK, Demotions
  <2>2. demote'[s] = demote[s]
    BY Zenon, <1>7, <2>1 DEF ApplyDemote, TypeOK
  <2>3. role'[s] = role[s]
    BY <1>7, <2>1 DEF ApplyDemote, Follow, replication, TypeOK
  <2>4. UpstreamKnown'
    BY <1>7, <2>1 DEF ApplyDemote, Follow, replication, TypeOK, UpstreamKnown
  <2> QED BY Zenon, <1>1, <2>2, <2>3, <2>4 DEF MasterStays
<1>8. ASSUME NEW n \in Nodes, Restart(n) PROVE UpstreamKnown' /\ MasterStays'
  <2>1. role' = role /\ upstream' = upstream /\ demote' = [demote EXCEPT ![n] = None]
    BY Zenon, <1>8 DEF Restart
  <2>2. demote'[s] = demote[s] \/ demote'[s] = None
    BY Zenon, <1>1, <2>1 DEF TypeOK
  <2> QED BY Zenon, <1>1, <2>1, <2>2 DEF UpstreamKnown, MasterStays
<1> QED
  BY Zenon, <1>1, <1>2, <1>3, <1>4, <1>5, <1>6, <1>7, <1>8 DEF Next, Maintain, Handle

(* ------------------------------ the theorems ------------------------------ *)

\* The first state satisfies the invariant.
LEMMA LeaseInit == Init => IInv
<1> SUFFICES ASSUME Init PROVE IInv
  OBVIOUS
<1>1. TypeOK /\ UpstreamKnown
  BY TypeInit
<1>2. \A n \in Nodes : ~LeaderLive(n) /\ round[n].pc = "idle" /\ demote[n] = None
  BY Zenon, Blank DEF Init, LeaderLive
<1>3. ClaimsBacked /\ ClaimsDisjoint
  BY Zenon, <1>2 DEF ClaimsBacked, ClaimsDisjoint, Claims
<1>4. QuorumCounted
  BY Zenon, <1>2 DEF QuorumCounted
<1>5. MasterStays
  BY Zenon, <1>2, LeaseAssumption DEF MasterStays, Init
<1> QED BY Zenon, <1>1, <1>3, <1>4, <1>5 DEF IInv

\* Every step keeps the invariant.
LEMMA LeaseStep ==
    ASSUME ~QuickRestart, IInv, [Next]_vars
    PROVE  IInv'
<1>1. TypeOK'
  BY Zenon, TypeStep DEF IInv
<1>2. ClaimsBacked' /\ ClaimsDisjoint'
  BY <1>1, ClaimsKept
<1>3. QuorumCounted'
  BY Zenon, CountsStep DEF IInv
<1>4. UpstreamKnown' /\ MasterStays'
  BY Zenon, MastersStep DEF IInv
<1> QED BY Zenon, <1>1, <1>2, <1>3, <1>4 DEF IInv

INSTANCE FiniteSetTheorems

\* Two quorums of the group share a member: failover_quorum is a majority.
LEMMA QuorumsMeet ==
    ASSUME NEW A \in SUBSET Nodes, NEW B \in SUBSET Nodes,
           Cardinality(A) >= Quorum, Cardinality(B) >= Quorum
    PROVE  A \cap B # {}
<1>1. IsFiniteSet(A) /\ IsFiniteSet(B) /\ A \cup B \in SUBSET Nodes
  BY LeaseAssumption, FS_Subset
<1>2. Cardinality(A \cup B) = Cardinality(A) + Cardinality(B) - Cardinality(A \cap B)
  BY <1>1, FS_Union
<1>3. Cardinality(A \cup B) <= Cardinality(Nodes)
  BY <1>1, LeaseAssumption, FS_Subset
<1>4. Cardinality(A) \in Nat /\ Cardinality(B) \in Nat /\ Cardinality(Nodes) \in Nat
  BY <1>1, LeaseAssumption, FS_CardinalityType
<1>5. SUFFICES ASSUME A \cap B = {} PROVE FALSE
  OBVIOUS
<1>6. Cardinality(A \cap B) = 0
  BY <1>5, FS_EmptySet
<1> QED BY <1>2, <1>3, <1>4, <1>6, LeaseAssumption

\* The invariant makes the leases sound.
LEMMA LeaseSuffices == IInv => LeasesSound
<1> SUFFICES ASSUME IInv PROVE LeasesSound
  OBVIOUS
<1>1. SameTermExclusive
  <2> SUFFICES ASSUME NEW m \in Nodes, NEW n \in Nodes, m # n, LeaderLive(m), LeaderLive(n),
                      leader[m].term = leader[n].term
               PROVE  FALSE
    BY Zenon DEF SameTermExclusive
  <2>1. leader[m].acks \cap leader[n].acks # {}
    <3>1. leader[m].acks \in SUBSET Nodes /\ leader[n].acks \in SUBSET Nodes
      BY Zenon, Typed DEF IInv, Leaders
    <3>2. Cardinality(leader[m].acks) >= Quorum /\ Cardinality(leader[n].acks) >= Quorum
      BY Zenon DEF IInv, QuorumCounted
    <3> QED BY <3>1, <3>2, QuorumsMeet
  <2> DEFINE c == [term |-> leader[m].term, left |-> leader[m].left, acks |-> leader[m].acks]
             d == [term |-> leader[n].term, left |-> leader[n].left, acks |-> leader[n].acks]
  <2>2. c \in Claims(m) /\ d \in Claims(n)
    BY Zenon DEF Claims
  <2>3. c.acks \cap d.acks = {}
    BY Zenon, <2>2 DEF IInv, ClaimsDisjoint
  <2> QED BY <2>1, <2>3
<1> QED BY Zenon, <1>1 DEF LeasesSound

\* The invariant holds of every reachable state.
LEMMA LeaseInvariant ==
    ASSUME ~QuickRestart
    PROVE  Spec => []IInv
<1>1. Init => IInv
  BY LeaseInit
<1>2. IInv /\ [Next]_vars => IInv'
  BY LeaseStep
<1> QED BY <1>1, <1>2, PTL DEF Spec

\* As long as no process is back before the lease it granted has ended, what
\* a leader relies on is granted by a quorum for longer than it relies on it,
\* and no two nodes hold a live lease of one term, however slow or lost the
\* calls and whoever was elected or demoted meanwhile
\* (acquireFailoverLeaseRound, requestFailoverLease).
THEOREM LeasesSoundAlways ==
    ASSUME ~QuickRestart
    PROVE  Spec => []LeasesSound
BY LeaseInvariant, LeaseSuffices, PTL

\* Demotions never leave the group without a master, even if processes restart
\* at once (requestFailoverDemote).
THEOREM MasterAlways == Spec => []MasterExists
<1> DEFINE Stays == TypeOK /\ UpstreamKnown /\ MasterStays
<1>1. Init => Stays
  BY Zenon, LeaseInit DEF IInv
<1>2. Stays /\ [Next]_vars => Stays'
  BY TypeStep, MastersStep
<1>3. Stays => MasterExists
  BY Zenon DEF MasterStays, MasterExists
<1> QED BY <1>1, <1>2, <1>3, PTL DEF Spec
=============================================================================
