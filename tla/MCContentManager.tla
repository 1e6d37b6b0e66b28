-------------------------- MODULE MCContentManager --------------------------
(* Small instances of ContentManager.                                         *)
EXTENDS ContentManager

CONSTANTS p1, p2, p3, new1, new2, new3, kept, gone

MCPrefixes == {"p", "q"}
MCPrefixOf == [x \in Contents |-> IF x = new2 THEN "q" ELSE "p"]

(* kept is in the index, gone is there and deleted, the others are new.       *)
MCExisting ==
  [x \in Contents |-> IF x = kept THEN [pack |-> 0, deleted |-> FALSE, time |-> Now]
                      ELSE IF x = gone THEN [pack |-> 0, deleted |-> TRUE, time |-> Now]
                      ELSE Absent]

Do(kind, x) == [kind |-> kind, content |-> x]
Flush == Do("flush", new1)
Threads(x, y, z) == [p \in Procs |-> CASE p = p1 -> x [] p = p2 -> y [] p = p3 -> z]

MCPlans == {
  Threads(<<Do("write", new1)>>, <<Do("write", new1)>>, <<Flush>>),
  Threads(<<Do("write", new1), Flush>>, <<Do("write", new2)>>, <<Flush>>),
  Threads(<<Do("write", new1)>>, <<Do("write", new3)>>, <<Do("write", new2), Flush>>),
  Threads(<<Do("write", new1), Do("delete", new1)>>, <<Do("write", new3)>>, <<Flush>>),
  Threads(<<Do("delete", kept)>>, <<Do("rewrite", gone)>>, <<Do("write", new1), Flush>>),
  Threads(<<Do("undelete", gone)>>, <<Do("write", gone)>>, <<Do("rewrite", kept), Flush>>),
  Threads(<<Do("write", new1)>>, <<Do("hold", new1)>>, <<Flush, Flush>>)}
=============================================================================
