------------------------------- MODULE MCAof -------------------------------
(* Deployments of AofLog for TLC.                                          *)
EXTENDS AofLog, TLC

CONSTANTS c1, c2, k1, k2

Symmetry == Permutations({c1, c2}) \cup Permutations({k1, k2})

None6 == [b \in Bounded |-> 0]

\* No failures, no jobs: the deployments below change what they are about.
Quiet(p, kinds, max) ==
    [policy |-> p, policies |-> {}, kinds |-> kinds, saves |-> {}, writesFail |-> FALSE,
     dirFails |-> FALSE, queueCap |-> 2, max |-> max @@ None6]

\* Two policy changes around fast and batched writes, a rewrite and a crash.
Switching ==
    [Quiet("everysec", {"fast", "batch"},
           [w |-> 3, config |-> 2, rewrite |-> 1, crash |-> 1])
        EXCEPT !.policies = {"always", "everysec", "no"}]

\* Every write path under always, writes and syncs of the AOF failing anywhere.
Failing ==
    [Quiet("always", {"fast", "set", "batch", "exec"},
           [w |-> 3, rewrite |-> 1, crash |-> 1, stop |-> 1])
        EXCEPT !.writesFail = TRUE]

\* The policy no, and a switch to everysec, with failures.
Direct ==
    [Quiet("no", {"fast", "exec"},
           [w |-> 2, config |-> 1, rewrite |-> 1, crash |-> 1, stop |-> 1])
        EXCEPT !.policies = {"everysec"}, !.writesFail = TRUE]

\* Two rewrites and two saves, queued behind each other or periodic.
Jobbing ==
    [Quiet("always", {"fast", "set"},
           [w |-> 2, save |-> 2, rewrite |-> 2, crash |-> 1, stop |-> 1])
        EXCEPT !.saves = {"bgsave", "periodic", "stop"}]

Sound == {Switching, Failing, Direct, Jobbing}

\* A queue of one frame, failures, a policy change, a rewrite and a queued save.
Returning ==
    {[Quiet("everysec", {"fast", "exec"},
            [w |-> 2, config |-> 1, rewrite |-> 1, save |-> 1])
        EXCEPT !.policies = {"always"}, !.writesFail = TRUE, !.saves = {"bgsave"},
               !.queueCap = 1]}

\* The directory sync after the rename of a rewritten AOF fails.
Orphaned ==
    {[Quiet("always", {"fast"}, [w |-> 1, rewrite |-> 1]) EXCEPT !.dirFails = TRUE]}

\* Deployments in which RecoveryIsPrefix, and UndoneStaysUndone, do not hold.
Torn ==
    {[Quiet("everysec", {"set", "exec"}, [w |-> 2, save |-> 1]) EXCEPT !.saves = {"bgsave"}]}
HalfSaved ==
    {[Quiet("always", {"exec"}, [w |-> 1, save |-> 1]) EXCEPT !.saves = {"periodic"}]}
Undone ==
    {[Quiet("always", {"exec"}, [w |-> 1]) EXCEPT !.writesFail = TRUE]}
=============================================================================
