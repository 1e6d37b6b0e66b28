----------------------------- MODULE AppendOnly -----------------------------
(***************************************************************************)
(* What the gateway's object store promises a device: an object it was     *)
(* told is stored stays, with the bytes it sent, whatever other requests   *)
(* do, and once it is durable whatever crashes of the server do.  Exempt   *)
(* are the names a device may delete (session markers) and the names the   *)
(* Fleet server itself writes and deletes as the owner of the repository.  *)
(***************************************************************************)
CONSTANTS Keys, Contents, Missing,
          Deletable,     \* keys the delete rule lets a device delete
          Owned          \* keys the Fleet server replaces or deletes

VARIABLES stored,        \* the objects, as any request sees them
          promised,      \* the pairs <<key, content>> answered with success
          durable        \* those of them that a crash cannot lose

vars == <<stored, promised, durable>>

Plain == Keys \ (Deletable \cup Owned)

Init ==
  /\ stored = [k \in Keys |-> Missing]
  /\ promised = {} /\ durable = {}

Store(k, c) ==
  /\ stored[k] = Missing
  /\ stored' = [stored EXCEPT ![k] = c]
  /\ UNCHANGED <<promised, durable>>

Promise(k, c) ==
  /\ k \in Plain /\ stored[k] = c
  /\ promised' = promised \cup {<<k, c>>}
  /\ durable' \in {durable, durable \cup {<<k, c>>}}
  /\ UNCHANGED stored

\* More of what was promised, and is there, becomes durable.
Settle ==
  /\ durable \subseteq durable'
  /\ \A p \in durable' \ durable : p \in promised /\ stored[p[1]] = p[2]
  /\ UNCHANGED <<stored, promised>>

Delete(k) ==
  /\ k \in Deletable \cup Owned
  /\ stored' = [stored EXCEPT ![k] = Missing]
  /\ UNCHANGED <<promised, durable>>

Replace(k, c) ==
  /\ k \in Owned
  /\ stored' = [stored EXCEPT ![k] = c]
  /\ UNCHANGED <<promised, durable>>

\* A crash of the server may lose an object that is not durable, and bring back a deleted or
\* replaced one.
Crash ==
  /\ stored' \in [Keys -> Contents \cup {Missing}]
  /\ \A k \in Plain : \/ stored'[k] = stored[k]
                      \/ stored'[k] = Missing /\ \A c \in Contents : <<k, c>> \notin durable
  /\ UNCHANGED <<promised, durable>>

Next ==
  \/ \E k \in Keys, c \in Contents : Store(k, c) \/ Promise(k, c) \/ Replace(k, c)
  \/ \E k \in Keys : Delete(k)
  \/ Settle
  \/ Crash

Spec == Init /\ [][Next]_vars

\* Every durable object is stored with the promised content.
Kept == \A p \in durable : stored[p[1]] = p[2]
=============================================================================
