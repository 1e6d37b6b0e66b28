--------------------------- MODULE MCEpochManager ---------------------------
(* A small instance of EpochManager for TLC. *)
EXTENDS EpochManager, TLC

CONSTANTS m, w, x     \* the maintainer and two more clients

Plan(maintenance, one, two, compacted, n, k) ==
  [ops |-> (m :> maintenance) @@ (w :> one) @@ (x :> two), slow |-> {},
   compacted |-> compacted, writes |-> n, sets |-> k]

Cleaning == Plan({"single", "superseded"}, {"read", "write", "abort"}, {}, 0, 1, 1)
Reading == Plan({"advance", "superseded"}, {"read"}, {"write"}, 0, 1, 0)
Lagging == [Plan({"advance", "single"}, {"write"}, {"read"}, 1, 1, 2) EXCEPT !.slow = {w}]
Ranging == Plan({"advance", "single", "range"}, {"read"}, {}, 1, 0, 4)
Marking == Plan({"advance", "markers"}, {"write"}, {}, 0, 1, 0)
Deleting == Plan({"markers", "watermark"}, {"write"}, {}, 0, 1, 0)

MCPlans == {Cleaning, Reading, Lagging, Ranging, Marking, Deleting}
=============================================================================
