---------------------------- MODULE MCSealRotation ----------------------------
\* Small instances of SealRotation.
EXTENDS SealRotation, TLC

CONSTANTS h1, h2, r1, r2, s1, s2

MCHandlers == {h1, h2}
MCSecrets == {s1, s2}
MCRotators == {r1, r2}
MCSymmetry == Permutations(MCHandlers) \cup Permutations(MCSecrets) \cup Permutations(MCRotators)
MCNoFaults == {}
MCAllFaults == {"rename", "commit"}
MCRenameFails == {"rename"}
MCCommitFails == {"commit"}
=============================================================================
