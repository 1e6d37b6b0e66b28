--------------------------- MODULE MCObjectStore ---------------------------
(* A small instance of ObjectStore for TLC. *)
EXTENDS ObjectStore, TLC

CONSTANTS a, s     \* a plain key, and a session marker, which the Fleet server writes and deletes too
CONSTANTS c1, c2, p1, p2

MCRank == (s :> 1) @@ (a :> 2)
Symmetry == Permutations({c1, c2}) \cup Permutations(Procs)
=============================================================================
