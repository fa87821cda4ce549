------------------------------- MODULE MCVote -------------------------------
EXTENDS FailoverVote

CONSTANTS c1, c2, c3   \* priorities of the three nodes

MCNodes == 1..3
MCPriority == <<c1, c2, c3>>
=============================================================================
