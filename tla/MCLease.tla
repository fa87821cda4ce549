------------------------------ MODULE MCLease ------------------------------
(* FailoverLease for TLC; the configurations give the constants.           *)
EXTENDS FailoverLease

\* A group that elects, and one without elections whose members restart.
ElectsOrRestarts ==
    {[auto |-> TRUE, crashers |-> {}], [auto |-> FALSE, crashers |-> Nodes]}

Elects == {[auto |-> TRUE, crashers |-> {}]}
=============================================================================
