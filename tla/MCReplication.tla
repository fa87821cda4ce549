--------------------------- MODULE MCReplication ---------------------------
(* Deployments of Replication for TLC: a pair and a chain of three nodes.  *)
EXTENDS Replication, TLC

CONSTANTS p, r, q, k1, k2, c1, c2

\* A primary p and its replica r; q is not used.
Pair == [upstream |-> (p :> None) @@ (r :> p) @@ (q :> None), keys |-> {k1, k2}, clients |-> {c1},
         journal |-> TRUE, attached |-> TRUE, targeted |-> {p}, moves |-> {},
         crashers |-> {}, rewriters |-> {}, backlog |-> 1,
         maxWrites |-> 3, maxDrops |-> 1, maxRestarts |-> 0, maxMoves |-> 0]

\* A replica that restarts, crashed or stopped, while two clients write.
Restarts == [Pair EXCEPT !.clients = {c1, c2}, !.crashers = {r}, !.maxRestarts = 2]

\* A chain: q follows r, r follows p; r restarts, p rewrites its AOF.
Chain == [Pair EXCEPT !.upstream = (p :> None) @@ (r :> p) @@ (q :> r), !.keys = {k1},
                      !.crashers = {r}, !.rewriters = {p}, !.maxRestarts = 1, !.maxWrites = 2,
                      !.maxDrops = 0]

\* r is promoted, p demoted to follow it, and clients write to r.
Handover == [Pair EXCEPT !.journal = FALSE, !.moves = {<<r, None>>, <<p, r>>},
                         !.maxMoves = 3, !.targeted = {r}, !.maxWrites = 2]

\* The write paths without an AOF, while the first replica attaches.
Paths == [Pair EXCEPT !.journal = FALSE, !.attached = FALSE, !.clients = {c1, c2}, !.backlog = 2]

Sound == {Restarts, Chain, Handover, Paths}

\* A pair whose connection breaks twice.
Live == {[Pair EXCEPT !.maxDrops = 2]}

\* A write in execution on the primary while its first replica attaches.
Attaching == {[Pair EXCEPT !.attached = FALSE, !.maxWrites = 2, !.maxDrops = 0]}
=============================================================================
