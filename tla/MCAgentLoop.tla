----------------------------- MODULE MCAgentLoop -----------------------------
\* Small instances of AgentLoop.
EXTENDS AgentLoop, TLC

CONSTANTS p1, p2, t1, s1, s2

MCSymmetry == Permutations(Slots)
=============================================================================
