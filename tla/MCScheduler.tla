----------------------------- MODULE MCScheduler -----------------------------
(* Small instances of Scheduler for TLC. *)
EXTENDS Scheduler

CONSTANTS reap, mirror, ag

\* Two kinds with different intervals.
MCEvery == [k \in {reap, mirror} |-> IF k = reap THEN 3 ELSE 2]

MCKinds == {reap, mirror}

MCReapOnly == [k \in {reap} |-> 2]
=============================================================================
