---------------------------- MODULE MCEnrollment ----------------------------
\* One device, of each target kind in turn.
EXTENDS Enrollment, TLC

CONSTANT d1

MCFleets == {d1 :> k : k \in {"disk", "cloud", "filesystem", "b2"}}
=============================================================================
