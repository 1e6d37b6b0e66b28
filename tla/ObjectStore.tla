----------------------------- MODULE ObjectStore -----------------------------
(***************************************************************************)
(* The gateway's object store: the put, delete and list requests of one    *)
(* device (fleet/gateway/handler.go), the same operations by the Fleet     *)
(* server as owner of the repository (blobadapter.go), and the two back    *)
(* ends they reach: a directory on the Fleet's disk (local.go) and an S3   *)
(* bucket with conditional writes (cloud.go).                              *)
(*                                                                         *)
(* The file system is external.  A name linked, renamed or removed is seen *)
(* at once by every process, but after a crash a directory entry may hold  *)
(* any value it had since the directory was last synced.  A sync may be    *)
(* refused, and that of a new directory does not cover its own entry in    *)
(* the root, which reaches the disk in the kernel's own time.              *)
(***************************************************************************)
EXTENDS Integers, Sequences, FiniteSets, FiniteSetsExt

CONSTANTS
  Keys, Contents, Missing, Deletable, Owned,
  Broken,      \* a body cut short, longer than declared, or with the wrong Content-MD5
  Rank,        \* the lexicographic order of the keys
  PageSize,    \* maxKeys
  Procs,       \* requests being served at one time
  Backends     \* subset of {"local", "cloud"}

ASSUME StoreValid ==
  /\ IsFiniteSet(Keys) /\ Rank \in [Keys -> Nat] /\ \A k, l \in Keys : Rank[k] = Rank[l] => k = l
  /\ PageSize \in Nat \ {0} /\ Backends \subseteq {"local", "cloud"}
  /\ Deletable \subseteq Keys /\ Owned \subseteq Keys /\ Missing \notin Contents
  /\ Broken \notin Contents

VARIABLES
  backend,     \* what the target is stored on
  obj,         \* the objects, as every process sees them
  persist,     \* per key, the values a crash may leave
  temps,       \* per request, its file under .tmp until Commit: "none", "new" or "old" (past tempSweepAge)
  req,         \* per request slot, the put or delete being served
  listing,     \* per request slot, the listing being served
  acked,       \* history: puts of plain keys answered with success
  dir,         \* the device's directory: "none", "new" (its entry is not on disk yet) or "kept"
  unsafe       \* history: puts of plain keys that were not on disk after their syncDir, and still are not

vars == <<backend, obj, persist, temps, req, listing, acked, dir, unsafe>>
entry == <<dir, unsafe>>

Plain == Keys \ (Deletable \cup Owned)
Idle == [op |-> "idle", pc |-> "idle", key |-> Missing, body |-> Missing, over |-> FALSE]
Put(k, b, over) == [op |-> "put", pc |-> "body", key |-> k, body |-> b, over |-> over]
Remove(k) == [op |-> "delete", pc |-> "stat", key |-> k, body |-> Missing, over |-> FALSE]
NoList == [pc |-> "idle", after |-> -1, names |-> {}, found |-> <<>>, steady |-> {}]

At(p, op, pc) == req[p].op = op /\ req[p].pc = pc
Step(p, pc) == req' = [req EXCEPT ![p] = [@ EXCEPT !.pc = pc]]
Answer(p) == req' = [req EXCEPT ![p] = Idle]
Present == {k \in Keys : obj[k] # Missing}

Init ==
  /\ backend \in Backends
  /\ obj = [k \in Keys |-> Missing]
  /\ persist = [k \in Keys |-> {Missing}]
  /\ temps = [p \in Procs |-> "none"]
  /\ req = [p \in Procs |-> Idle]
  /\ listing = [p \in Procs |-> NoList]
  /\ acked = {}
  /\ dir = "none" /\ unsafe = {}

\* What the gateway lets a device delete: session markers and nothing else.
MayDelete(k) == k \in Deletable

Free(p) == req[p] = Idle /\ listing[p] = NoList

\* A device's request is dispatched.  Its puts never overwrite.
DeviceAsks(p) ==
  /\ Free(p)
  /\ \/ \E k \in Keys, b \in Contents \cup {Broken} : req' = [req EXCEPT ![p] = Put(k, b, FALSE)]
     \/ \E k \in Keys : MayDelete(k) /\ req' = [req EXCEPT ![p] = Remove(k)]
  /\ UNCHANGED <<backend, obj, persist, temps, listing, acked, entry>>

\* The Fleet server's own PutBlob (overwriting unless DoNotRecreate) and DeleteBlob.
OwnerAsks(p) ==
  /\ Free(p)
  /\ \E k \in Owned :
       \/ \E b \in Contents, over \in BOOLEAN : req' = [req EXCEPT ![p] = Put(k, b, over)]
       \/ req' = [req EXCEPT ![p] = Remove(k)]
  /\ UNCHANGED <<backend, obj, persist, temps, listing, acked, entry>>

\* A name now has another value: on disk a crash may still show the old one.
Change(k, v) ==
  /\ obj' = [obj EXCEPT ![k] = v]
  /\ persist' = [persist EXCEPT ![k] = IF backend = "local" THEN @ \cup {v} ELSE {v}]

(***************************************************************************)
(* local.Put: a temp file, its body checked and synced, then a rename or a *)
(* link that fails if the name exists, then a sync of the directory, which *)
(* is best effort.                                                         *)
(***************************************************************************)
\* createTemp and writeTemp.  A sweep may take the file while it is written: it is
\* missed only at the commit.
WriteTemp(p) ==
  /\ backend = "local" /\ At(p, "put", "body")
  /\ IF req[p].body = Broken
     THEN Answer(p) /\ UNCHANGED temps
     ELSE Step(p, "commit") /\ temps' = [temps EXCEPT ![p] = "new"]
  /\ UNCHANGED <<backend, obj, persist, listing, acked, entry>>

\* Mutant: every put renames over the name.
CommitRenames(p) ==
  LET gone == temps[p] = "none" IN
  /\ At(p, "put", "commit")
  /\ IF gone THEN Answer(p) /\ UNCHANGED <<obj, persist>>
     ELSE Step(p, "sync") /\ Change(req[p].key, req[p].body)
  /\ temps' = [temps EXCEPT ![p] = "none"]
  /\ dir' = IF dir = "none" THEN "new" ELSE dir
  /\ UNCHANGED <<backend, listing, acked, unsafe>>

\* MkdirAll, then the name.  The link fails with ErrExists when the name is taken; both fail when a sweep took the temp.
Commit(p) ==
  LET k == req[p].key
      fails == temps[p] = "none" \/ (~req[p].over /\ obj[k] # Missing)
  IN /\ At(p, "put", "commit")
     /\ IF fails THEN Answer(p) /\ UNCHANGED <<obj, persist>>
        ELSE Step(p, "sync") /\ Change(k, req[p].body)
     /\ temps' = [temps EXCEPT ![p] = "none"]
     /\ dir' = IF dir = "none" THEN "new" ELSE dir
     /\ UNCHANGED <<backend, listing, acked, unsafe>>

\* The key and body of a put, if the key is plain.
Pair(p) == {<<k, req[p].body>> : k \in {req[p].key} \cap Plain}

\* Mutant: the directory is not synced.
SyncDirNone(p) ==
  /\ At(p, "put", "sync")
  /\ Step(p, "stat")
  /\ UNCHANGED <<backend, obj, persist, temps, listing, acked, entry>>

\* syncDir: its errors are dropped, so the put goes on whether or not it did anything.
SyncDir(p) ==
  /\ At(p, "put", "sync")
  /\ persist' \in {persist, [k \in Keys |-> {obj[k]}]}
  /\ unsafe' = {u \in unsafe \cup Pair(p) : dir # "kept" \/ persist'[u[1]] # {u[2]}}
  /\ Step(p, "stat")
  /\ UNCHANGED <<backend, obj, temps, listing, acked, dir>>

\* Success is history when the key is one nobody may touch again.
Acknowledge(p) == acked' = acked \cup Pair(p)

\* The final Stat fails if the name is gone again.
Stat(p) ==
  /\ At(p, "put", "stat")
  /\ IF obj[req[p].key] = Missing THEN UNCHANGED acked ELSE Acknowledge(p)
  /\ Answer(p)
  /\ UNCHANGED <<backend, obj, persist, temps, listing, entry>>

(***************************************************************************)
(* cloud.Put: the body is spooled, then one conditional PUT, which the     *)
(* client library replays when it gets no answer.                          *)
(***************************************************************************)
Spool(p) ==
  /\ backend = "cloud" /\ At(p, "put", "body")
  /\ IF req[p].body = Broken THEN Answer(p) ELSE Step(p, "send")
  /\ UNCHANGED <<backend, obj, persist, temps, listing, acked, entry>>

\* A taken name is answered 412, and 409 to the device.
Send(p) ==
  /\ At(p, "put", "send")
  /\ IF ~req[p].over /\ obj[req[p].key] # Missing
     THEN Answer(p) /\ UNCHANGED <<obj, persist>>
     ELSE Change(req[p].key, req[p].body) /\ Step(p, "sent")
  /\ UNCHANGED <<backend, temps, listing, acked, entry>>

\* The answer arrives, or is lost and the request is replayed or given up.
Sent(p) ==
  /\ At(p, "put", "sent")
  /\ \/ Acknowledge(p) /\ Answer(p)
     \/ UNCHANGED acked /\ (Step(p, "send") \/ Answer(p))
  /\ UNCHANGED <<backend, obj, persist, temps, listing, entry>>

(***************************************************************************)
(* Delete: a stat, then the removal.  Nothing is synced.                   *)
(***************************************************************************)
DeleteStat(p) ==
  /\ At(p, "delete", "stat")
  /\ IF obj[req[p].key] = Missing THEN Answer(p) ELSE Step(p, "remove")
  /\ UNCHANGED <<backend, obj, persist, temps, listing, acked, entry>>

\* A removed key is no longer one that every listing under way must show.
DeleteRemove(p) ==
  LET k == req[p].key IN
  /\ At(p, "delete", "remove")
  /\ IF obj[k] = Missing THEN UNCHANGED <<obj, persist>> ELSE Change(k, Missing)
  /\ Answer(p)
  /\ listing' = [q \in Procs |-> [listing[q] EXCEPT !.steady = @ \ {k}]]
  /\ UNCHANGED <<backend, temps, acked, entry>>

(***************************************************************************)
(* Listing, page by page.  On disk a page reads the directory, then stats  *)
(* each entry and skips what is gone; it is truncated when an entry beyond *)
(* the page was found.                                                     *)
(***************************************************************************)
Last(s) == s[Len(s)]
Ordered(S) == CHOOSE s \in [1 .. Cardinality(S) -> S] :
                \A i, j \in 1 .. Cardinality(S) : i < j => Rank[s[i]] < Rank[s[j]]

ListStart(p) ==
  /\ Free(p)
  /\ listing' = [listing EXCEPT ![p] = [pc |-> "read", after |-> -1, names |-> {}, found |-> <<>>,
                                        steady |-> Present]]
  /\ UNCHANGED <<backend, obj, persist, temps, req, acked, entry>>

ListRead(p) ==
  /\ listing[p].pc = "read"
  /\ listing' = [listing EXCEPT ![p] = [pc |-> "info", after |-> @.after, found |-> @.found, steady |-> @.steady,
                                        names |-> {k \in Present : Rank[k] > listing[p].after}]]
  /\ UNCHANGED <<backend, obj, persist, temps, req, acked, entry>>

\* Mutant: a page is the last one when it is not full after skipping what is gone.
ListInfoShort(p) ==
  LET names == listing[p].names
      first == SubSeq(Ordered(names), 1, Min({PageSize, Cardinality(names)}))
      page == IF backend = "local" THEN SelectSeq(first, LAMBDA k : k \in Present) ELSE first
  IN /\ listing[p].pc = "info"
     /\ listing' = [listing EXCEPT ![p] = [pc |-> IF Len(page) = PageSize THEN "read" ELSE "done",
                                           after |-> IF page = <<>> THEN @.after ELSE Rank[Last(page)],
                                           names |-> {}, found |-> @.found \o page, steady |-> @.steady]]
     /\ UNCHANGED <<backend, obj, persist, temps, req, acked, entry>>

ListInfo(p) ==
  LET names == listing[p].names
      entries == Ordered(IF backend = "local" THEN names \cap Present ELSE names)
      truncated == Len(entries) > PageSize
      page == IF truncated THEN SubSeq(entries, 1, PageSize) ELSE entries
  IN /\ listing[p].pc = "info"
     /\ listing' = [listing EXCEPT ![p] = [pc |-> IF truncated THEN "read" ELSE "done",
                                           after |-> IF page = <<>> THEN @.after ELSE Rank[Last(page)],
                                           names |-> {}, found |-> @.found \o page, steady |-> @.steady]]
     /\ UNCHANGED <<backend, obj, persist, temps, req, acked, entry>>

ListDone(p) ==
  /\ listing[p].pc = "done"
  /\ listing' = [listing EXCEPT ![p] = NoList]
  /\ UNCHANGED <<backend, obj, persist, temps, req, acked, entry>>

\* A put has been at it for longer than tempSweepAge.
Age(p) ==
  /\ temps[p] = "new"
  /\ temps' = [temps EXCEPT ![p] = "old"]
  /\ UNCHANGED <<backend, obj, persist, req, listing, acked, entry>>

\* Another store is opened on the same directory (hosted provisioning does) and sweeps.
sweepTemp ==
  /\ \E p \in Procs : temps[p] = "old"
  /\ temps' = [p \in Procs |-> IF temps[p] = "old" THEN "none" ELSE temps[p]]
  /\ UNCHANGED <<backend, obj, persist, req, listing, acked, entry>>

\* The kernel writes the root directory back.
WriteBack ==
  /\ dir = "new" /\ dir' = "kept"
  /\ UNCHANGED <<backend, obj, persist, temps, req, listing, acked, unsafe>>

\* The server loses power; a bucket keeps what it has, a new directory may be gone with all it
\* held.  Nobody knows the names of the temp files that are left, so they are not modelled further.
Crash ==
  /\ \/ dir = "new" /\ dir' = "none" /\ obj' = [k \in Keys |-> Missing]
     \/ /\ dir' = IF dir = "new" THEN "kept" ELSE dir
        /\ obj' \in {f \in [Keys -> Contents \cup {Missing}] : \A k \in Keys : f[k] \in persist[k]}
  /\ persist' = [k \in Keys |-> {obj'[k]}]
  /\ req' = [p \in Procs |-> Idle]
  /\ listing' = [p \in Procs |-> NoList]
  /\ temps' = [p \in Procs |-> "none"]
  /\ UNCHANGED <<backend, acked, unsafe>>

PutStep(p) == \/ WriteTemp(p) \/ Commit(p) \/ SyncDir(p) \/ Stat(p)
              \/ Spool(p) \/ Send(p) \/ Sent(p)

Next ==
  \/ \E p \in Procs :
       \/ DeviceAsks(p) \/ OwnerAsks(p) \/ PutStep(p)
       \/ DeleteStat(p) \/ DeleteRemove(p)
       \/ ListStart(p) \/ ListRead(p) \/ ListInfo(p) \/ ListDone(p)
       \/ Age(p)
  \/ sweepTemp \/ WriteBack
  \/ Crash

Spec == Init /\ [][Next]_vars

-----------------------------------------------------------------------------
(* Properties. *)

TypeOK ==
  /\ backend \in Backends
  /\ obj \in [Keys -> Contents \cup {Missing}]
  /\ persist \in [Keys -> SUBSET (Contents \cup {Missing})]
  /\ temps \in [Procs -> {"none", "new", "old"}]
  /\ acked \subseteq Plain \X Contents /\ unsafe \subseteq Plain \X Contents
  /\ dir \in {"none", "new", "kept"} /\ (backend = "cloud" => dir = "none")
  /\ \A k \in Keys : obj[k] \in persist[k]

\* The store keeps the promise of AppendOnly: no request or sweep changes or loses an object of a
\* plain key, no crash loses one that reached the disk after it was answered with success, and of
\* two puts of one key only the one whose bytes are stored is.
AO == INSTANCE AppendOnly WITH stored <- obj, promised <- acked, durable <- acked \ unsafe
Implements == AO!Spec

\* A pair of key and content that a crash leaves as it is.
Safe(a) == persist[a[1]] = {a[2]} /\ (backend = "local" => dir = "kept")

\* "so a crash cannot lose an object that Put already reported as stored. Best effort": a success
\* that was answered is all that a crash can leave under its key, unless the sync of its directory
\* did nothing or the directory's own entry was not on disk by then - and also in those cases once
\* a later put has synced the directory.
Durable == \A a \in acked \ unsafe : Safe(a)

\* A listing that is over shows its keys once, in order, and every key that was there from its
\* first page to its last, however many puts and deletes came between the pages.
ListComplete ==
  \A p \in Procs : listing[p].pc = "done" =>
    LET f == listing[p].found IN
    /\ \A i, j \in 1 .. Len(f) : i < j => Rank[f[i]] < Rank[f[j]]
    /\ listing[p].steady \subseteq {f[i] : i \in 1 .. Len(f)}
=============================================================================
