----------------------------- MODULE ClusterPlan -----------------------------
(***************************************************************************)
(* The pure part of cluster mode (internal/server/cluster.go,              *)
(* cluster_membership.go): which slot a key hashes to, how a slot map is   *)
(* cut into ranges, and which slots REBALANCE and REMOVE plan to move.     *)
(*                                                                         *)
(* Slots are 0 .. SlotCount - 1 and addresses are integers, because both   *)
(* planners sort them.  An owner map is a function from the slots to the   *)
(* addresses and None.  A move is a range of slots with a source and a     *)
(* target.                                                                 *)
(***************************************************************************)
EXTENDS Integers, Sequences, FiniteSets, FiniteSetsExt, SequencesExt, TLC

CONSTANTS SlotCount, None

Slots == 0 .. SlotCount - 1

-----------------------------------------------------------------------------
(* Keys.                                                                   *)

\* The first place of an open or a close brace at or after i, or 0.
FirstAt(key, ch, i) ==
    LET at == {j \in i .. Len(key) : key[j] = ch} IN IF at = {} THEN 0 ELSE Min(at)

\* A hash tag that an empty pair of braces opens.
clusterHashKeyEmpty(key) ==
    LET open == FirstAt(key, "{", 1) close == FirstAt(key, "}", open + 1) IN
    IF open = 0 \/ close = 0 THEN key ELSE SubSeq(key, open + 1, close - 1)

\* The part of a key that is hashed: what is between the first open brace and the
\* first close brace after it, unless one is missing or nothing is between them.
clusterHashKey(key) ==
    LET open == FirstAt(key, "{", 1) close == FirstAt(key, "}", open + 1) IN
    IF open = 0 \/ close \in {0, open + 1} THEN key ELSE SubSeq(key, open + 1, close - 1)

\* Keys that agree on a non-empty tag (a first pair of braces around the same bytes) are
\* hashed by that tag whatever surrounds it, and every other key by all of itself: what
\* CROSSSLOT and multi-key commands rely on (clusterHashKey, cluster.go).
TagRule(before, tag, after) ==
    LET key == before \o <<"{">> \o tag \o <<"}">> \o after
        Free(s, ch) == ch \notin Range(s) IN
    (Free(before, "{") /\ Free(tag, "}"))
        => clusterHashKey(key) = IF tag = <<>> THEN key ELSE tag

-----------------------------------------------------------------------------
(* Slot maps.                                                              *)

Owned(owners, n) == {s \in DOMAIN owners : owners[s] = n}
clusterOwners(owners) == Range(owners) \ {None}
Assigned(owners) == {s \in DOMAIN owners : owners[s] # None}

\* Runs that forget the one that is open when the slots end.
RunsUnflushed(f) ==
    {<<i, j>> \in (DOMAIN f) \X (DOMAIN f) :
        /\ i <= j /\ f[i] # None
        /\ \A s \in i .. j : f[s] = f[i]
        /\ i - 1 \in DOMAIN f => f[i - 1] # f[i]
        /\ j + 1 \in DOMAIN f /\ f[j + 1] # f[i]}

\* The maximal runs of consecutive slots that f maps to one label other than None.
Runs(f) ==
    {<<i, j>> \in (DOMAIN f) \X (DOMAIN f) :
        /\ i <= j /\ f[i] # None
        /\ \A s \in i .. j : f[s] = f[i]
        /\ i - 1 \in DOMAIN f => f[i - 1] # f[i]
        /\ j + 1 \in DOMAIN f => f[j + 1] # f[i]}

\* CLUSTER SLOTS: a range for every run of slots with the same owner.
clusterSlotRanges(owners) == {[start |-> r[1], end |-> r[2], owner |-> owners[r[1]]] : r \in Runs(owners)}

\* CLUSTER NODES and SHARDS: the ranges of one owner.
clusterNodeSlotRanges(owners, n) ==
    {[start |-> r[1], end |-> r[2]] : r \in Runs([s \in DOMAIN owners |-> IF owners[s] = n THEN n ELSE None])}

\* The ranges of CLUSTER SLOTS and of CLUSTER NODES describe the owner map and nothing
\* else: a client that caches them routes every slot as the node does.
RangesExact(owners) ==
    /\ \A s \in DOMAIN owners :
          {r.owner : r \in {r \in clusterSlotRanges(owners) : s \in r.start .. r.end}} = {owners[s]} \ {None}
    /\ \A n \in clusterOwners(owners) :
          UNION {r.start .. r.end : r \in clusterNodeSlotRanges(owners, n)} = Owned(owners, n)

-----------------------------------------------------------------------------
(* REBALANCE PLAN.                                                         *)

\* Every node with the same share and the first ones with one more: wrong by one node.
TargetsOver(nodes) ==
    LET k == Cardinality(nodes) IN
    [n \in nodes |-> SlotCount \div k + (IF Cardinality({m \in nodes : m < n}) <= SlotCount % k THEN 1 ELSE 0)]

\* How many slots each of the nodes should own.
Targets(nodes) ==
    LET k == Cardinality(nodes) IN
    [n \in nodes |-> SlotCount \div k + (IF Cardinality({m \in nodes : m < n}) < SlotCount % k THEN 1 ELSE 0)]

\* How many slots n owns too many, and (negative) too few.
Surplus(owners, nodes, n) == Cardinality(Owned(owners, n)) - Targets(nodes)[n]

\* The slots the donors give away: the donors in order, of each its highest slots.
Given(owners, nodes) ==
    LET donors == {n \in nodes : Surplus(owners, nodes, n) > 0}
        Of(n) == SubSeq(Reverse(SetToSortSeq(Owned(owners, n), <)), 1, Surplus(owners, nodes, n)) IN
    FlattenSeq([i \in 1 .. Cardinality(donors) |-> Of(SetToSortSeq(donors, <)[i])])

\* Who takes them: the receivers in order, each as often as it has too few.
Takers(owners, nodes) ==
    LET takers == {n \in nodes : Surplus(owners, nodes, n) < 0}
        Of(n) == [i \in 1 .. -Surplus(owners, nodes, n) |-> n] IN
    FlattenSeq([i \in 1 .. Cardinality(takers) |-> Of(SetToSortSeq(takers, <)[i])])

\* The moves of an assignment of slots to targets: its runs, cut where the source changes.
Moves(owners, target) ==
    LET pair == [s \in Slots |-> IF s \in DOMAIN target THEN <<owners[s], target[s]>> ELSE None] IN
    {[start |-> r[1], end |-> r[2], source |-> pair[r[1]][1], target |-> pair[r[1]][2]] : r \in Runs(pair)}

\* planClusterRebalance over the nodes that can hold slots: None when it refuses, because
\* a slot has no owner or the donors give less than the receivers lack.
planClusterRebalance(owners, nodes) ==
    IF Assigned(owners) # Slots THEN None
    ELSE IF Cardinality(nodes) < 2 THEN {}
    ELSE LET give == Given(owners, nodes) take == Takers(owners, nodes) IN
         IF Len(give) < Len(take) THEN None
         ELSE Moves(owners, [s \in {give[i] : i \in 1 .. Len(take)} |->
                                take[CHOOSE i \in 1 .. Len(take) : give[i] = s]])

\* The owner map once the moves are done.
Applied(owners, moves) ==
    [s \in Slots |-> LET at == {m \in moves : s \in m.start .. m.end} IN
                     IF at = {} THEN owners[s] ELSE (CHOOSE m \in at : TRUE).target]

MovedSlots(moves) == UNION {m.start .. m.end : m \in moves}

\* The plan of a map whose owners can all hold slots balances it: every node ends with its
\* target, the targets differ by at most one, every move starts at the owner of its slots,
\* no slot is in two moves, and no node both gives and takes, so that no slot moves that
\* need not (planClusterRebalance, cluster.go:967).
PlanBalances(owners, nodes) ==
    LET moves == planClusterRebalance(owners, nodes)
        after == Applied(owners, moves)
        Count(n) == Cardinality(Owned(after, n)) IN
    (Assigned(owners) = Slots /\ clusterOwners(owners) \subseteq nodes) =>
        /\ moves # None
        /\ nodes # {} => \A n, m \in nodes : Count(n) - Count(m) \in -1 .. 1
        /\ \A m \in moves : \A s \in m.start .. m.end : owners[s] = m.source
        /\ Cardinality(MovedSlots(moves)) = FoldSet(LAMBDA m, acc : acc + m.end - m.start + 1, 0, moves)
        /\ {m.source : m \in moves} \cap {m.target : m \in moves} = {}

-----------------------------------------------------------------------------
(* CLUSTER REMOVE.                                                         *)

\* The remaining node that owns fewest slots, the first of several.
Emptiest(remaining, count) ==
    CHOOSE n \in remaining : \A m \in remaining : <<count[n], n>> = <<count[m], m>> \/ count[n] < count[m]
                                                  \/ (count[n] = count[m] /\ n < m)

\* An evacuation that does not count what it has placed.
AssignOfFirst(owners, remaining, slots) ==
    LET count == [n \in remaining |-> Cardinality(Owned(owners, n))] IN
    [s \in Range(slots) |-> Emptiest(remaining, count)]

\* The slots in order, each to the node that then owns fewest.
Assign(owners, remaining, slots) ==
    LET step(acc, s) == [acc EXCEPT !.to = @ @@ (s :> Emptiest(remaining, acc.count)),
                                    !.count[Emptiest(remaining, acc.count)] = @ + 1] IN
    FoldLeft(step, [to |-> <<>>, count |-> [n \in remaining |-> Cardinality(Owned(owners, n))]], slots).to

\* planClusterNodeRemoval over the known nodes: None when the node is unknown or the last.
planClusterNodeRemoval(owners, known, gone) ==
    IF gone \notin known \/ known = {gone} THEN None
    ELSE Moves(owners, Assign(owners, known \ {gone}, SetToSortSeq(Owned(owners, gone), <)))

\* The plan of a removal moves every slot of the removed node and no other, and leaves
\* the nodes that took slots with at most one slot more than any node that remains
\* (planClusterNodeRemoval, cluster_membership.go:496).
RemovalEvacuates(owners, known, gone) ==
    LET moves == planClusterNodeRemoval(owners, known, gone)
        after == Applied(owners, moves)
        Count(n) == Cardinality(Owned(after, n)) IN
    (moves # None /\ clusterOwners(owners) \subseteq known) =>
        /\ MovedSlots(moves) = Owned(owners, gone)
        /\ \A m \in moves : m.source = gone /\ m.target # gone
        /\ \A t \in {m.target : m \in moves}, n \in known \ {gone} : Count(t) <= Count(n) + 1
=============================================================================
