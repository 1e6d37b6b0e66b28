--------------------------- MODULE MCMaintenance ---------------------------
(* Scenarios: three full cycles over one content, which is what dropping an   *)
(* entry takes, and cycles that rewrite two contents in packs of their own.   *)
EXTENDS Maintenance, TLC

CONSTANTS c1, c2

Stored(k) == [pack |-> k, deleted |-> FALSE, time |-> 1]

ThreeCycles == [epochs |-> TRUE, short |-> FALSE, runs |-> <<"full", "full", "full">>, files |-> {c1},
                index |-> (c1 :> Stored(1) @@ c2 :> Absent), snapshots |-> {}, length |-> 1, end |-> 8]
Rewrites(runs) == [epochs |-> FALSE, short |-> TRUE, runs |-> runs, files |-> {c1},
                   index |-> (c1 :> Stored(1) @@ c2 :> Stored(2)), snapshots |-> {{c1}}, length |-> 2, end |-> 7]
MCPlans == {ThreeCycles, Rewrites(<<"full", "quick", "quick">>), Rewrites(<<"quick", "full">>)}

(* A content that is new to the repository, and two quick cycles.             *)
MCNewContent == {[Rewrites(<<"quick", "quick">>) EXCEPT !.short = FALSE, !.snapshots = {},
                    !.index = c1 :> Absent @@ c2 :> Stored(1), !.length = 0, !.end = 8]}
============================================================================
