-------------------------- MODULE MCAgentApprovals --------------------------
EXTENDS AgentApprovals, TLC

CONSTANTS a1, a2, r1, d1, d2, w

\* All approvals belong to one run: the run parks again and again.
OneRun == [a \in Approvals |-> r1]

Symmetry == Permutations({a1, a2}) \cup Permutations({d1, d2})
=============================================================================
