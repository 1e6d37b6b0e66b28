-------------------------- MODULE ObjectStoreProofs --------------------------
(***************************************************************************)
(* Proofs about ObjectStore: for any number of keys, contents and requests *)
(* at one time, on either back end, the store implements AppendOnly and    *)
(* its listings are complete.                                              *)
(***************************************************************************)
EXTENDS ObjectStore, FiniteSetTheorems, WellFoundedInduction, TLAPS

Request == [op: {"idle", "put", "delete"},
            pc: {"idle", "body", "commit", "sync", "stat", "send", "sent", "remove"},
            key: Keys \cup {Missing}, body: Contents \cup {Broken, Missing}, over: BOOLEAN]

\* What is known of a request from the way it was asked and how far it got.
Asked(r) ==
  /\ r.op = "put" => /\ r.key \in Keys
                     /\ r.over => r.key \in Owned
                     /\ r.body \in Contents \cup {Broken}
                     /\ r.pc \in {"commit", "sync", "stat", "send", "sent"} => r.body \in Contents
                     /\ r.pc \in {"send", "sent"} => backend = "cloud"
                     /\ r.pc \in {"commit", "sync", "stat"} => backend = "local"
  /\ r.op = "delete" => r.key \in Deletable \cup Owned

\* A put of a plain key that got past its commit has its bytes under the key, and from the
\* directory sync on they survive a crash or are on record as unsafe.
Placed(r) ==
  r.op = "put" /\ r.key \in Plain =>
    /\ r.pc \in {"sync", "stat", "sent"} => obj[r.key] = r.body
    /\ r.pc = "stat" => <<r.key, r.body>> \in unsafe \/ Safe(<<r.key, r.body>>)
    /\ r.pc = "sent" => Safe(<<r.key, r.body>>)

\* A crash shows a plain key as it is or as never written; a bucket shows it as it is.
Whole == \A k \in Plain : persist[k] \subseteq {obj[k], Missing}

Requests == \A p \in Procs : Asked(req[p]) /\ Placed(req[p])

IInv == TypeOK /\ req \in [Procs -> Request] /\ Requests /\ Whole /\ Durable

-----------------------------------------------------------------------------
\* The parts of the state an action may change for a plain key: a taken one keeps its bytes, what
\* a crash can leave of it only shrinks to them, and what was on record as unsafe is, or is safe.
Kept == /\ \A k \in Plain : obj[k] # Missing =>
             /\ obj'[k] = obj[k]
             /\ persist'[k] = persist[k] \/ persist'[k] = {obj[k]}
        /\ dir = "kept" => dir' = "kept"
        /\ \A u \in unsafe : u \in unsafe' \/ Safe(u)'

\* A safe pair of a plain key stays safe.
LEMMA StaysSafe ==
  ASSUME IInv, Kept, UNCHANGED backend, NEW k \in Plain, NEW c \in Contents, Safe(<<k, c>>)
  PROVE  Safe(<<k, c>>)'
<1>1. persist[k] = {c} /\ obj[k] \in persist[k] BY DEF Safe, IInv, TypeOK, Plain
<1>2. obj[k] = c /\ c # Missing BY <1>1, StoreValid, Zenon
<1>3. persist'[k] = {c} BY <1>1, <1>2, Zenon DEF Kept
<1>4. QED BY <1>3 DEF Safe, Kept

\* A step that keeps the taken plain keys leaves what is known of the other requests true.
LEMMA OthersPlaced ==
  ASSUME IInv, Kept, UNCHANGED backend, NEW q \in Procs, req'[q] = req[q]
  PROVE  Asked(req[q])' /\ Placed(req[q])'
<1>1. Asked(req[q]) /\ Placed(req[q])
  BY Zenon DEF IInv, Requests
<1>2. Asked(req[q])'
  BY <1>1, Zenon DEF Asked
<1>3. ASSUME req[q].op = "put", req[q].key \in Plain, req[q].pc \in {"sync", "stat", "sent"}
      PROVE  obj'[req[q].key] = req[q].body
  <2>1. obj[req[q].key] = req[q].body /\ req[q].body \in Contents BY <1>1, <1>3, Zenon DEF Placed, Asked
  <2>2. obj[req[q].key] # Missing BY <2>1, StoreValid, Zenon
  <2>3. QED BY <1>3, <2>1, <2>2, Zenon DEF Kept
<1>4. ASSUME req[q].op = "put", req[q].key \in Plain, req[q].pc \in {"stat", "sent"}
      PROVE  /\ Safe(<<req[q].key, req[q].body>>) => Safe(<<req[q].key, req[q].body>>)'
             /\ <<req[q].key, req[q].body>> \in unsafe
                  => <<req[q].key, req[q].body>> \in unsafe' \/ Safe(<<req[q].key, req[q].body>>)'
  <2>1. req[q].body \in Contents BY <1>1, <1>4, Zenon DEF Asked
  <2>2. QED BY <1>4, <2>1, StaysSafe, Zenon DEF Kept
<1> DEFINE k == req[q].key
           b == req[q].body
<1>5. /\ req'[q].op = req[q].op /\ req'[q].pc = req[q].pc /\ req'[q].key = k /\ req'[q].body = b
      /\ Safe(<<req[q].key, req[q].body>>)' = Safe(<<k, b>>)'
  BY Zenon
<1>6. Placed(req[q])' BY <1>1, <1>3, <1>4, Zenon DEF Placed
<1>7. QED BY <1>2, <1>6, Zenon

\* A step that keeps the taken plain keys and acknowledges nothing keeps every promise.
LEMMA PromisesKept ==
  ASSUME IInv, Kept, UNCHANGED <<backend, acked>>
  PROVE  Durable'
<1>1. SUFFICES ASSUME NEW a \in acked, a \notin unsafe' PROVE Safe(a)' BY Zenon DEF Durable
<1>2. PICK k \in Plain, c \in Contents : a = <<k, c>> BY DEF IInv, TypeOK
<1>3. CASE a \in unsafe BY <1>1, <1>3, Zenon DEF Kept
<1>4. CASE a \notin unsafe
  <2>1. Safe(<<k, c>>) BY <1>2, <1>4, Zenon DEF IInv, Durable
  <2>2. QED BY <1>2, <2>1, StaysSafe, Zenon
<1>5. QED BY <1>3, <1>4, Zenon

\* Init establishes the invariant.
LEMMA InitInv == Init => IInv
<1>1. SUFFICES ASSUME Init PROVE IInv BY Zenon
<1>2. TypeOK BY <1>1, Zenon DEF Init, TypeOK
<1>3. req \in [Procs -> Request] BY <1>1, Zenon DEF Init, Request, Idle
<1>4. Requests BY <1>1, Zenon DEF Init, Requests, Asked, Placed, Idle
<1>5. Whole BY <1>1, Zenon DEF Init, Whole, Plain
<1>6. Durable BY <1>1, Zenon DEF Init, Durable
<1>7. QED BY <1>2, <1>3, <1>4, <1>5, <1>6, Zenon DEF IInv

\* A step of one request: it is enough to look at that request, the types and the plain keys.
LEMMA OneRequest ==
  ASSUME IInv, Kept, UNCHANGED <<backend, acked>>, TypeOK', Whole',
         NEW p \in Procs, NEW r \in Request, req' = [req EXCEPT ![p] = r],
         Asked(r)', Placed(r)'
  PROVE  IInv'
<1>1. req \in [Procs -> Request] BY Zenon DEF IInv
<1>2. req' \in [Procs -> Request] BY <1>1, Zenon
<1>3. ASSUME NEW q \in Procs PROVE (Asked(req[q]) /\ Placed(req[q]))'
  <2>1. CASE q = p
    <3>1. req'[q] = r BY <1>1, <2>1, Zenon
    <3>2. QED BY <3>1, Zenon DEF Asked, Placed
  <2>2. CASE q # p
    <3>1. req'[q] = req[q] BY <1>1, <2>2, Zenon
    <3>2. QED BY <3>1, OthersPlaced, Zenon
  <2>3. QED BY <2>1, <2>2, Zenon
<1>4. Requests' BY <1>3, Zenon DEF Requests
<1>5. Durable' BY PromisesKept, Zenon
<1>6. QED BY <1>2, <1>4, <1>5, Zenon DEF IInv

\* The same when no object changes.
LEMMA OnlyRequest ==
  ASSUME IInv, UNCHANGED <<backend, obj, persist, acked, dir, unsafe>>, temps' \in [Procs -> {"none", "new", "old"}],
         NEW p \in Procs, NEW r \in Request, req' = [req EXCEPT ![p] = r],
         Asked(r), Placed(r)
  PROVE  IInv'
<1>1. Kept BY DEF Kept
<1>2. TypeOK' BY Zenon DEF IInv, TypeOK
<1>3. Whole' BY Zenon DEF IInv, Whole
<1>4. Asked(r)' /\ Placed(r)' BY Zenon DEF Asked, Placed, Safe
<1>5. QED BY <1>1, <1>2, <1>3, <1>4, OneRequest, Zenon

\* The idle request is a request of which nothing is claimed.
LEMMA IdleRequest == Idle \in Request /\ Asked(Idle) /\ Placed(Idle)
BY Zenon DEF Idle, Request, Asked, Placed

\* Dispatching a request of a device or of the Fleet server.
LEMMA AsksInv == ASSUME IInv, NEW p \in Procs, DeviceAsks(p) \/ OwnerAsks(p) PROVE IInv'
<1>1. temps' \in [Procs -> {"none", "new", "old"}]
  BY Zenon DEF IInv, TypeOK, DeviceAsks, OwnerAsks
<1>2. UNCHANGED <<backend, obj, persist, acked, dir, unsafe>> BY Zenon DEF DeviceAsks, OwnerAsks, entry
<1>3. ASSUME NEW k \in Keys, NEW b \in Contents \cup {Broken}, NEW over \in BOOLEAN,
             over => k \in Owned, req' = [req EXCEPT ![p] = Put(k, b, over)]
      PROVE  IInv'
  <2>1. Put(k, b, over) \in Request BY Zenon DEF Put, Request
  <2>2. Asked(Put(k, b, over)) /\ Placed(Put(k, b, over)) BY <1>3, Zenon DEF Put, Asked, Placed
  <2>3. QED BY <1>1, <1>2, <1>3, <2>1, <2>2, OnlyRequest, Zenon
<1>4. ASSUME NEW k \in Deletable \cup Owned, req' = [req EXCEPT ![p] = Remove(k)]
      PROVE  IInv'
  <2>1. Remove(k) \in Request BY StoreValid, Zenon DEF Remove, Request
  <2>2. Asked(Remove(k)) /\ Placed(Remove(k)) BY Zenon DEF Remove, Asked, Placed
  <2>3. QED BY <1>1, <1>2, <1>4, <2>1, <2>2, OnlyRequest, Zenon
<1>5. QED BY <1>3, <1>4, StoreValid, Zenon DEF DeviceAsks, OwnerAsks, MayDelete

\* Moving a request to another step changes its pc alone.
LEMMA StepRequest ==
  ASSUME IInv, NEW p \in Procs, req[p].op = "put" \/ req[p].op = "delete",
         NEW pc \in {"commit", "sync", "stat", "send", "sent", "remove"}, Step(p, pc)
  PROVE  \E r \in Request :
         /\ req' = [req EXCEPT ![p] = r]
         /\ r.op = req[p].op /\ r.key = req[p].key /\ r.body = req[p].body
         /\ r.over = req[p].over /\ r.pc = pc
<1>1. req[p] \in Request BY Zenon DEF IInv
<1>2. [req[p] EXCEPT !.pc = pc] \in Request BY <1>1, Zenon DEF Request
<1>3. WITNESS [req[p] EXCEPT !.pc = pc] \in Request
<1>4. QED BY <1>1, Zenon DEF Step, Request, IInv

\* Answering a request without touching an object.
LEMMA AnswerInv ==
  ASSUME IInv, UNCHANGED <<backend, obj, persist, acked, dir, unsafe>>, temps' \in [Procs -> {"none", "new", "old"}],
         NEW p \in Procs, Answer(p)
  PROVE  IInv'
BY OnlyRequest, IdleRequest, Zenon DEF Answer

\* Setting or clearing the temp file of a request keeps its type.
LEMMA TempsType ==
  ASSUME IInv, NEW p \in Procs, NEW t \in {"none", "new", "old"},
         temps' = [temps EXCEPT ![p] = t] \/ UNCHANGED temps
  PROVE  temps' \in [Procs -> {"none", "new", "old"}]
BY Zenon DEF IInv, TypeOK

\* Writing, checking and syncing the temp file.
LEMMA WriteTempInv == ASSUME IInv, NEW p \in Procs, WriteTemp(p) PROVE IInv'
<1>1. temps' \in [Procs -> {"none", "new", "old"}] BY TempsType, Zenon DEF WriteTemp
<1>2. Asked(req[p]) BY Zenon DEF IInv, Requests
<1>3. CASE Answer(p) BY <1>1, <1>3, AnswerInv, Zenon DEF WriteTemp, entry
<1>4. CASE req[p].body # Broken /\ Step(p, "commit")
  <2>1. PICK r \in Request : /\ req' = [req EXCEPT ![p] = r]
                             /\ r.op = req[p].op /\ r.key = req[p].key /\ r.body = req[p].body
                             /\ r.over = req[p].over /\ r.pc = "commit"
    BY <1>4, StepRequest, Zenon DEF WriteTemp, At
  <2>2. Asked(r) /\ Placed(r) BY <1>2, <1>4, <2>1, Zenon DEF Asked, Placed, WriteTemp, At
  <2>3. QED BY <1>1, <2>1, <2>2, OnlyRequest, Zenon DEF WriteTemp, entry
<1>5. QED BY <1>3, <1>4, Zenon DEF WriteTemp

\* Spooling and checking the body of a put to a bucket.
LEMMA SpoolInv == ASSUME IInv, NEW p \in Procs, Spool(p) PROVE IInv'
<1>1. temps' \in [Procs -> {"none", "new", "old"}] BY TempsType, Zenon DEF Spool
<1>2. Asked(req[p]) BY Zenon DEF IInv, Requests
<1>3. CASE Answer(p) BY <1>1, <1>3, AnswerInv, Zenon DEF Spool, entry
<1>4. CASE req[p].body # Broken /\ Step(p, "send")
  <2>1. PICK r \in Request : /\ req' = [req EXCEPT ![p] = r]
                             /\ r.op = req[p].op /\ r.key = req[p].key /\ r.body = req[p].body
                             /\ r.over = req[p].over /\ r.pc = "send"
    BY <1>4, StepRequest, Zenon DEF Spool, At
  <2>2. Asked(r) /\ Placed(r) BY <1>2, <1>4, <2>1, Zenon DEF Asked, Placed, Spool, At
  <2>3. QED BY <1>1, <2>1, <2>2, OnlyRequest, Zenon DEF Spool, entry
<1>5. QED BY <1>3, <1>4, Zenon DEF Spool

\* The stat before a removal.
LEMMA DeleteStatInv == ASSUME IInv, NEW p \in Procs, DeleteStat(p) PROVE IInv'
<1>1. temps' \in [Procs -> {"none", "new", "old"}] BY TempsType, Zenon DEF DeleteStat
<1>2. Asked(req[p]) BY Zenon DEF IInv, Requests
<1>3. CASE Answer(p) BY <1>1, <1>3, AnswerInv, Zenon DEF DeleteStat, entry
<1>4. CASE Step(p, "remove")
  <2>1. PICK r \in Request : /\ req' = [req EXCEPT ![p] = r]
                             /\ r.op = req[p].op /\ r.key = req[p].key /\ r.body = req[p].body
                             /\ r.over = req[p].over /\ r.pc = "remove"
    BY <1>4, StepRequest, Zenon DEF DeleteStat, At
  <2>2. Asked(r) /\ Placed(r) BY <1>2, <1>4, <2>1, Zenon DEF Asked, Placed, DeleteStat, At
  <2>3. QED BY <1>1, <2>1, <2>2, OnlyRequest, Zenon DEF DeleteStat, entry
<1>5. QED BY <1>3, <1>4, Zenon DEF DeleteStat

\* Writing a free plain key, or any other key, keeps the taken plain keys and the types.
LEMMA ChangeKeeps ==
  ASSUME IInv, UNCHANGED <<backend, acked, unsafe>>, temps' \in [Procs -> {"none", "new", "old"}],
         dir' = dir \/ (backend = "local" /\ dir = "none" /\ dir' = "new"),
         NEW k \in Keys, NEW v \in Contents \cup {Missing}, Change(k, v),
         k \in Plain => obj[k] = Missing
  PROVE  Kept /\ TypeOK' /\ Whole' /\ obj'[k] = v /\ (backend = "cloud" => persist'[k] = {v})
<1>1. obj \in [Keys -> Contents \cup {Missing}] /\ persist \in [Keys -> SUBSET (Contents \cup {Missing})]
  BY Zenon DEF IInv, TypeOK
<1>2. obj'[k] = v /\ \A l \in Keys : l # k => obj'[l] = obj[l] /\ persist'[l] = persist[l]
  BY <1>1, Zenon DEF Change
<1>3. persist'[k] = IF backend = "local" THEN persist[k] \cup {v} ELSE {v}
  BY <1>1, Zenon DEF Change
<1>4. Kept BY <1>2 DEF Kept, Plain
<1>5. TypeOK'
  <2>1. obj' \in [Keys -> Contents \cup {Missing}] BY <1>1, Zenon DEF Change
  <2>2. persist' \in [Keys -> SUBSET (Contents \cup {Missing})] BY <1>1, Zenon DEF Change
  <2>3. \A l \in Keys : obj'[l] \in persist'[l] BY <1>2, <1>3, Zenon DEF IInv, TypeOK
  <2>4. dir' \in {"none", "new", "kept"} /\ (backend' = "cloud" => dir' = "none")
    BY DEF IInv, TypeOK
  <2>5. QED BY <2>1, <2>2, <2>3, <2>4, Zenon DEF IInv, TypeOK
<1>6. Whole' BY <1>2, <1>3 DEF IInv, Whole, Plain
<1>7. QED BY <1>2, <1>3, <1>4, <1>5, <1>6, Zenon

\* The link or rename: a taken plain key is left alone, a free one gets the whole body.
LEMMA CommitInv == ASSUME IInv, NEW p \in Procs, Commit(p) PROVE IInv'
<1>1. temps' \in [Procs -> {"none", "new", "old"}] BY Zenon DEF IInv, TypeOK, Commit
<1>2. Asked(req[p]) BY Zenon DEF IInv, Requests
<1>6. /\ UNCHANGED <<backend, acked, unsafe>> /\ backend = "local"
      /\ dir' = dir \/ (dir = "none" /\ dir' = "new")
  BY <1>2, Zenon DEF Commit, At, Asked
<1>3. CASE Answer(p) /\ UNCHANGED <<obj, persist>>
  <2>1. Kept BY <1>3, <1>6 DEF Kept
  <2>2. TypeOK' BY <1>1, <1>3, <1>6 DEF IInv, TypeOK
  <2>3. Whole' BY <1>3, Zenon DEF IInv, Whole
  <2>4. Asked(Idle)' /\ Placed(Idle)' BY Zenon DEF Idle, Asked, Placed
  <2>5. QED BY <1>3, <1>6, <2>1, <2>2, <2>3, <2>4, IdleRequest, OneRequest, Zenon DEF Answer
<1>4. CASE /\ Step(p, "sync") /\ Change(req[p].key, req[p].body)
           /\ req[p].over \/ obj[req[p].key] = Missing
  <2>1. PICK r \in Request : /\ req' = [req EXCEPT ![p] = r]
                             /\ r.op = req[p].op /\ r.key = req[p].key /\ r.body = req[p].body
                             /\ r.over = req[p].over /\ r.pc = "sync"
    BY <1>4, StepRequest, Zenon DEF Commit, At
  <2>2. r.op = "put" /\ r.key \in Keys /\ r.body \in Contents /\ (r.key \in Plain => obj[r.key] = Missing)
    BY <1>2, <1>4, <2>1, Zenon DEF Commit, At, Asked, Plain
  <2>3. Kept /\ TypeOK' /\ Whole' /\ obj'[r.key] = r.body
    BY <1>1, <1>4, <1>6, <2>1, <2>2, ChangeKeeps, Zenon
  <2>4. Asked(r)' /\ Placed(r)' BY <1>2, <1>6, <2>1, <2>2, <2>3, Zenon DEF Asked, Placed
  <2>5. QED BY <1>6, <2>1, <2>3, <2>4, OneRequest, Zenon
<1>5. QED BY <1>3, <1>4, Zenon DEF Commit

\* The conditional PUT, first or replayed.
LEMMA SendInv == ASSUME IInv, NEW p \in Procs, Send(p) PROVE IInv'
<1>1. temps' \in [Procs -> {"none", "new", "old"}] BY Zenon DEF IInv, TypeOK, Send
<1>2. Asked(req[p]) BY Zenon DEF IInv, Requests
<1>3. CASE Answer(p) /\ UNCHANGED <<obj, persist>> BY <1>1, <1>3, AnswerInv, Zenon DEF Send, entry
<1>4. CASE /\ Step(p, "sent") /\ Change(req[p].key, req[p].body)
           /\ req[p].over \/ obj[req[p].key] = Missing
  <2>1. PICK r \in Request : /\ req' = [req EXCEPT ![p] = r]
                             /\ r.op = req[p].op /\ r.key = req[p].key /\ r.body = req[p].body
                             /\ r.over = req[p].over /\ r.pc = "sent"
    BY <1>4, StepRequest, Zenon DEF Send, At
  <2>2. /\ r.op = "put" /\ r.key \in Keys /\ r.body \in Contents /\ backend = "cloud"
        /\ r.key \in Plain => obj[r.key] = Missing
    BY <1>2, <1>4, <2>1, Zenon DEF Send, At, Asked, Plain
  <2>3. Kept /\ TypeOK' /\ Whole' /\ obj'[r.key] = r.body /\ persist'[r.key] = {r.body}
    BY <1>1, <1>4, <2>1, <2>2, ChangeKeeps, Zenon DEF Send, entry
  <2>6. Safe(<<r.key, r.body>>)' BY <2>2, <2>3 DEF Safe, Send
  <2>4. Asked(r)' /\ Placed(r)' BY <1>2, <2>1, <2>2, <2>3, <2>6, Zenon DEF Asked, Placed, Send
  <2>5. QED BY <2>1, <2>3, <2>4, OneRequest, Zenon DEF Send
<1>5. QED BY <1>3, <1>4, Zenon DEF Send

\* The removal, of a key that is not plain.
LEMMA DeleteRemoveInv == ASSUME IInv, NEW p \in Procs, DeleteRemove(p) PROVE IInv'
<1>1. temps' \in [Procs -> {"none", "new", "old"}] BY Zenon DEF IInv, TypeOK, DeleteRemove
<1>2. Asked(req[p]) BY Zenon DEF IInv, Requests
<1>3. CASE UNCHANGED <<obj, persist>> BY <1>1, <1>3, AnswerInv, Zenon DEF DeleteRemove, entry
<1>4. CASE Change(req[p].key, Missing)
  <2>1. req[p].key \in Keys /\ req[p].key \notin Plain
    BY <1>2, StoreValid, Zenon DEF DeleteRemove, At, Asked, Plain
  <2>2. Kept /\ TypeOK' /\ Whole' BY <1>1, <1>4, <2>1, ChangeKeeps, Zenon DEF DeleteRemove, entry
  <2>3. Asked(Idle)' /\ Placed(Idle)' BY Zenon DEF Idle, Asked, Placed
  <2>4. QED BY <2>2, <2>3, IdleRequest, OneRequest, Zenon DEF DeleteRemove, Answer
<1>5. QED BY <1>3, <1>4, Zenon DEF DeleteRemove

\* The pair of a put.
LEMMA PairIs ==
  ASSUME IInv, NEW p \in Procs, req[p].op = "put", req[p].pc \in {"sync", "stat", "sent"}
  PROVE  /\ Pair(p) = IF req[p].key \in Plain THEN {<<req[p].key, req[p].body>>} ELSE {}
         /\ Pair(p) \subseteq Plain \X Contents
<1>1. req[p].body \in Contents BY Zenon DEF IInv, Requests, Asked
<1>2. CASE req[p].key \in Plain
  <2>1. {req[p].key} \cap Plain = {req[p].key} BY <1>2, Zenon
  <2>2. Pair(p) = {<<req[p].key, req[p].body>>} BY <2>1, Zenon DEF Pair
  <2>3. QED BY <1>1, <1>2, <2>2
<1>3. CASE req[p].key \notin Plain
  <2>1. {req[p].key} \cap Plain = {} BY <1>3, Zenon
  <2>2. Pair(p) = {} BY <2>1, Zenon DEF Pair
  <2>3. QED BY <1>3, <2>2, Zenon
<1>4. QED BY <1>2, <1>3, Zenon

\* What a directory sync does, if anything: what is seen is what a crash leaves, and the pairs on
\* record as unsafe are the ones that are not safe.
LEMMA SyncDirEffect ==
  ASSUME IInv, NEW p \in Procs, SyncDir(p)
  PROVE  /\ UNCHANGED <<backend, obj, temps, acked, dir>> /\ backend = "local"
         /\ \A k \in Keys : persist'[k] = persist[k] \/ persist'[k] = {obj[k]}
         /\ TypeOK'
         /\ \A k \in Plain, c \in Contents : <<k, c>> \in unsafe \cup Pair(p) => <<k, c>> \in unsafe' \/ Safe(<<k, c>>)'
         /\ unsafe' \subseteq unsafe \cup Pair(p)
         /\ \A u \in unsafe' : ~Safe(u)'
<1>1. UNCHANGED <<backend, obj, temps, acked, dir>> /\ At(p, "put", "sync") BY Zenon DEF SyncDir
<1>2. backend = "local" BY <1>1, Zenon DEF IInv, Requests, Asked, At
<1>3. \A k \in Keys : persist'[k] = persist[k] \/ persist'[k] = {obj[k]} BY Zenon DEF SyncDir
<1>4. unsafe' = {u \in unsafe \cup Pair(p) : dir # "kept" \/ persist'[u[1]] # {u[2]}} BY Zenon DEF SyncDir
<1>5. \A u : Safe(u)' <=> persist'[u[1]] = {u[2]} /\ dir = "kept" BY <1>1, <1>2, Zenon DEF Safe
<1>6. TypeOK'
  <2>1. Pair(p) \subseteq Plain \X Contents BY <1>1, PairIs, Zenon DEF At
  <2>2. unsafe' \subseteq Plain \X Contents BY <1>4, <2>1, Zenon DEF IInv, TypeOK
  <2>3. persist' \in [Keys -> SUBSET (Contents \cup {Missing})] /\ \A k \in Keys : obj[k] \in persist'[k]
    BY DEF SyncDir, IInv, TypeOK
  <2>4. QED BY <1>1, <2>2, <2>3, Zenon DEF IInv, TypeOK
<1>7. QED BY <1>1, <1>2, <1>3, <1>4, <1>5, <1>6, Zenon

\* The directory sync.
LEMMA SyncDirInv == ASSUME IInv, NEW p \in Procs, SyncDir(p) PROVE IInv'
<1>1. /\ UNCHANGED <<backend, obj, temps, acked, dir>> /\ backend = "local"
      /\ \A k \in Keys : persist'[k] = persist[k] \/ persist'[k] = {obj[k]}
      /\ TypeOK'
      /\ \A k \in Plain, c \in Contents : <<k, c>> \in unsafe \cup Pair(p) => <<k, c>> \in unsafe' \/ Safe(<<k, c>>)'
  BY SyncDirEffect, Zenon
<1>2. Asked(req[p]) /\ Placed(req[p]) BY Zenon DEF IInv, Requests
<1>3. ASSUME NEW u \in unsafe PROVE u \in unsafe' \/ Safe(u)'
  <2>1. PICK k \in Plain, c \in Contents : u = <<k, c>> BY DEF IInv, TypeOK
  <2>2. QED BY <1>1, <2>1, Zenon
<1>4. Kept BY <1>1, <1>3, Zenon DEF Kept, Plain
<1>5. Whole' BY <1>1, Zenon DEF IInv, Whole, Plain
<1>7. PICK r \in Request : /\ req' = [req EXCEPT ![p] = r]
                           /\ r.op = req[p].op /\ r.key = req[p].key /\ r.body = req[p].body
                           /\ r.over = req[p].over /\ r.pc = "stat"
  BY StepRequest, Zenon DEF SyncDir, At
<1>8. r.op = "put" /\ r.key \in Keys /\ r.body \in Contents BY <1>2, <1>7, Zenon DEF SyncDir, At, Asked
<1>9. Asked(r)' BY <1>1, <1>2, <1>7, <1>8, Zenon DEF Asked
<1>10. Placed(r)'
  <2>1. ASSUME r.key \in Plain PROVE obj[r.key] = r.body /\ <<r.key, r.body>> \in Pair(p)
    BY <1>2, <1>7, <1>8, <2>1, PairIs, Zenon DEF SyncDir, At, Placed
  <2>2. QED BY <1>1, <1>7, <1>8, <2>1, Zenon DEF Placed
<1>11. QED BY <1>1, <1>4, <1>5, <1>7, <1>9, <1>10, OneRequest, Zenon

\* Answering with success: the new promise is already on the disk or in the bucket, or on record
\* as unsafe.
LEMMA AcknowledgeInv ==
  ASSUME IInv, UNCHANGED <<backend, obj, persist, dir, unsafe>>, temps' \in [Procs -> {"none", "new", "old"}],
         NEW p \in Procs, Answer(p), At(p, "put", "stat") \/ At(p, "put", "sent"), Acknowledge(p)
  PROVE  IInv'
<1>1. Asked(req[p]) /\ Placed(req[p]) BY Zenon DEF IInv, Requests
<1>2. req \in [Procs -> Request] BY Zenon DEF IInv
<1>3. CASE req[p].key \notin Plain
  <2>1. UNCHANGED acked
    <3>1. Pair(p) = {} BY <1>3, PairIs, Zenon DEF At
    <3>2. QED BY <3>1, Zenon DEF Acknowledge
  <2>2. QED BY <2>1, AnswerInv, Zenon
<1>4. CASE req[p].key \in Plain
  <2>1. acked' = acked \cup {<<req[p].key, req[p].body>>}
    <3>1. Pair(p) = {<<req[p].key, req[p].body>>} BY <1>4, PairIs, Zenon DEF At
    <3>2. QED BY <3>1, Zenon DEF Acknowledge
  <2>2. /\ req[p].body \in Contents
        /\ <<req[p].key, req[p].body>> \in unsafe \/ Safe(<<req[p].key, req[p].body>>)
    BY <1>1, <1>4, Zenon DEF At, Asked, Placed
  <2>3. TypeOK' BY <1>4, <2>1, <2>2 DEF IInv, TypeOK
  <2>4. Durable' BY <2>1, <2>2, Zenon DEF IInv, Durable, Safe
  <2>5. Whole' BY Zenon DEF IInv, Whole
  <2>6. req' \in [Procs -> Request] BY <1>2, IdleRequest, Zenon DEF Answer
  <2>7. Requests'
    <3>1. SUFFICES ASSUME NEW q \in Procs PROVE (Asked(req[q]) /\ Placed(req[q]))' BY Zenon DEF Requests
    <3>2. CASE q = p
      <4>1. req'[q] = Idle BY <1>2, <3>2, Zenon DEF Answer
      <4>2. QED BY <4>1 DEF Idle, Asked, Placed
    <3>3. CASE q # p
      <4>1. req'[q] = req[q] BY <1>2, <3>3, Zenon DEF Answer
      <4>2. Kept BY DEF Kept
      <4>3. QED BY <4>1, <4>2, OthersPlaced, Zenon
    <3>4. QED BY <3>2, <3>3, Zenon
  <2>8. QED BY <2>3, <2>4, <2>5, <2>6, <2>7, Zenon DEF IInv
<1>5. QED BY <1>3, <1>4, Zenon

\* The final stat of a put on disk and its answer.
LEMMA StatInv == ASSUME IInv, NEW p \in Procs, Stat(p) PROVE IInv'
<1>1. temps' \in [Procs -> {"none", "new", "old"}] BY TempsType, Zenon DEF Stat
<1>2. CASE UNCHANGED acked BY <1>1, <1>2, AnswerInv, Zenon DEF Stat, entry
<1>3. CASE Acknowledge(p) BY <1>1, <1>3, AcknowledgeInv, Zenon DEF Stat, entry
<1>4. QED BY <1>2, <1>3, Zenon DEF Stat

\* The answer of the bucket, or its loss.
LEMMA SentInv == ASSUME IInv, NEW p \in Procs, Sent(p) PROVE IInv'
<1>1. temps' \in [Procs -> {"none", "new", "old"}] BY TempsType, Zenon DEF Sent
<1>2. Asked(req[p]) BY Zenon DEF IInv, Requests
<1>3. CASE Acknowledge(p) /\ Answer(p) BY <1>1, <1>3, AcknowledgeInv, Zenon DEF Sent, entry
<1>4. CASE UNCHANGED acked /\ Answer(p) BY <1>1, <1>4, AnswerInv, Zenon DEF Sent, entry
<1>5. CASE UNCHANGED acked /\ Step(p, "send")
  <2>1. PICK r \in Request : /\ req' = [req EXCEPT ![p] = r]
                             /\ r.op = req[p].op /\ r.key = req[p].key /\ r.body = req[p].body
                             /\ r.over = req[p].over /\ r.pc = "send"
    BY <1>5, StepRequest, Zenon DEF Sent, At
  <2>2. Asked(r) /\ Placed(r) BY <1>2, <2>1, Zenon DEF Asked, Placed, Sent, At
  <2>3. QED BY <1>1, <1>5, <2>1, <2>2, OnlyRequest, Zenon DEF Sent, entry
<1>6. QED BY <1>3, <1>4, <1>5, Zenon DEF Sent

\* Listings, ageing temp files and the sweep touch no object and no put or delete.
LEMMA QuietInv ==
  ASSUME IInv, UNCHANGED <<backend, obj, persist, req, acked, dir, unsafe>>,
         temps' \in [Procs -> {"none", "new", "old"}]
  PROVE  IInv'
<1>1. TypeOK' BY Zenon DEF IInv, TypeOK
<1>2. Requests' BY ZenonT(60) DEF IInv, Requests, Asked, Placed, Safe
<1>3. Whole' /\ Durable' BY Zenon DEF IInv, Whole, Durable, Safe
<1>4. QED BY <1>1, <1>2, <1>3, Zenon DEF IInv

\* The root directory is written back: what was safe stays so.
LEMMA WriteBackInv == ASSUME IInv, WriteBack PROVE IInv'
<1>1. UNCHANGED <<backend, obj, persist, temps, req, acked, unsafe>> /\ dir = "new" /\ dir' = "kept"
  BY Zenon DEF WriteBack
<1>2. Kept BY <1>1 DEF Kept
<1>3. TypeOK' BY <1>1 DEF IInv, TypeOK
<1>4. Requests' BY <1>1, <1>2, OthersPlaced, Zenon DEF Requests
<1>5. Durable' BY <1>1, <1>2, PromisesKept, Zenon
<1>6. Whole' BY <1>1, Zenon DEF IInv, Whole
<1>7. QED BY <1>1, <1>3, <1>4, <1>5, <1>6, Zenon DEF IInv

\* What a crash leaves: a safe pair as it is, any other key with a value the disk may keep, or
\* nothing in a directory that is gone.
LEMMA CrashEffect ==
  ASSUME IInv, Crash
  PROVE  /\ obj' \in [Keys -> Contents \cup {Missing}] /\ UNCHANGED <<backend, acked, unsafe>>
         /\ dir' \in {"none", "new", "kept"} /\ (backend = "cloud" => dir' = "none") /\ (dir = "kept" => dir' = "kept")
         /\ \A k \in Keys : persist'[k] = {obj'[k]} /\ (obj'[k] \in persist[k] \/ obj'[k] = Missing)
         /\ \A k \in Keys, c \in Contents : Safe(<<k, c>>) => obj'[k] = c /\ Safe(<<k, c>>)'
<1>1. /\ UNCHANGED <<backend, acked, unsafe>> /\ persist' = [k \in Keys |-> {obj'[k]}]
      /\ \/ dir = "new" /\ dir' = "none" /\ obj' = [k \in Keys |-> Missing]
         \/ /\ dir' = IF dir = "new" THEN "kept" ELSE dir
            /\ obj' \in [Keys -> Contents \cup {Missing}] /\ \A k \in Keys : obj'[k] \in persist[k]
  BY Zenon DEF Crash
<1>2. dir \in {"none", "new", "kept"} /\ (backend = "cloud" => dir = "none") /\ backend \in {"local", "cloud"}
  BY StoreValid, Zenon DEF IInv, TypeOK
<1>3. obj' \in [Keys -> Contents \cup {Missing}] BY <1>1, Zenon
<1>4. /\ dir' \in {"none", "new", "kept"} /\ (backend = "cloud" => dir' = "none") /\ (dir = "kept" => dir' = "kept")
  BY <1>1, <1>2
<1>5. \A k \in Keys : persist'[k] = {obj'[k]} /\ (obj'[k] \in persist[k] \/ obj'[k] = Missing) BY <1>1, Zenon
<1>6. ASSUME NEW k \in Keys, NEW c \in Contents, Safe(<<k, c>>) PROVE obj'[k] = c /\ Safe(<<k, c>>)'
  <2>1. persist[k] = {c} /\ dir # "new" BY <1>2, <1>6 DEF Safe
  <2>2. obj'[k] = c BY <1>1, <2>1, Zenon
  <2>3. QED BY <1>1, <1>4, <1>5, <1>6, <2>2 DEF Safe
<1>7. QED BY <1>1, <1>3, <1>4, <1>5, <1>6, Zenon

\* A crash: every safe object is the only value its key can be found with.
LEMMA CrashInv == ASSUME IInv, Crash PROVE IInv'
<1>1. /\ obj' \in [Keys -> Contents \cup {Missing}] /\ UNCHANGED <<backend, acked, unsafe>>
      /\ dir' \in {"none", "new", "kept"} /\ (backend = "cloud" => dir' = "none")
      /\ \A k \in Keys : persist'[k] = {obj'[k]}
  BY CrashEffect, Zenon
<1>2. TypeOK'
  <2>1. persist' \in [Keys -> SUBSET (Contents \cup {Missing})] BY <1>1 DEF Crash
  <2>2. \A k \in Keys : obj'[k] \in persist'[k] BY <1>1, Zenon
  <2>3. temps' \in [Procs -> {"none", "new", "old"}] BY DEF Crash
  <2>4. QED BY <1>1, <2>1, <2>2, <2>3, Zenon DEF IInv, TypeOK
<1>3. req' \in [Procs -> Request] BY IdleRequest, Zenon DEF Crash
<1>4. Requests' BY Zenon DEF Crash, Requests, Asked, Placed, Idle
<1>5. Whole' BY <1>1, Zenon DEF Whole, Plain
<1>6. Durable'
  <2>1. SUFFICES ASSUME NEW a \in acked \ unsafe PROVE Safe(a)' BY <1>1, Zenon DEF Durable
  <2>2. PICK k \in Plain, c \in Contents : a = <<k, c>> BY DEF IInv, TypeOK
  <2>3. Safe(<<k, c>>) /\ k \in Keys BY <2>2, Zenon DEF IInv, Durable, Plain
  <2>4. QED BY <2>2, <2>3, CrashEffect, Zenon
<1>7. QED BY <1>2, <1>3, <1>4, <1>5, <1>6, Zenon DEF IInv

\* Every step keeps the invariant.
LEMMA NextInv == IInv /\ [Next]_vars => IInv'
<1> SUFFICES ASSUME IInv, [Next]_vars PROVE IInv' BY Zenon
<1>2. temps \in [Procs -> {"none", "new", "old"}] BY Zenon DEF IInv, TypeOK
<1>3. ASSUME NEW p \in Procs, ListStart(p) \/ ListRead(p) \/ ListInfo(p) \/ ListDone(p) \/ Age(p)
      PROVE  IInv'
  BY <1>2, <1>3, QuietInv, Zenon DEF ListStart, ListRead, ListInfo, ListDone, Age, entry
<1>4. ASSUME NEW p \in Procs, PutStep(p) PROVE IInv'
  BY <1>4, WriteTempInv, CommitInv, SyncDirInv, StatInv, SpoolInv, SendInv, SentInv, Zenon
     DEF PutStep
<1>5. CASE sweepTemp BY <1>2, <1>5, QuietInv, Zenon DEF sweepTemp, entry
<1>6. CASE UNCHANGED vars BY <1>2, <1>6, QuietInv, Zenon DEF vars
<1>7. QED BY <1>3, <1>4, <1>5, <1>6, AsksInv, DeleteStatInv, DeleteRemoveInv, WriteBackInv, CrashInv, Zenon DEF Next

\* For every number of keys, contents and concurrent requests, on either back end: the types, and
\* what can be known of each request from the step it is at.
THEOREM StoreInvariant == Spec => []IInv
BY InitInv, NextInv, PTL DEF Spec

\* Only whole bodies are stored, and a key is always found with a value the disk may keep.
THEOREM TypeCorrect == Spec => []TypeOK
<1>1. IInv => TypeOK BY Zenon DEF IInv
<1>2. QED BY <1>1, StoreInvariant, PTL

\* A put of a plain key answered with success has reached the disk or the bucket, and stays,
\* unless the sync of its directory did nothing or the directory was not yet on disk.
THEOREM SuccessIsDurable == Spec => []Durable
<1>1. IInv => Durable BY Zenon DEF IInv
<1>2. QED BY <1>1, StoreInvariant, PTL

-----------------------------------------------------------------------------
\* A step that leaves objects and promises alone is a stutter of the append-only store.
LEMMA Stutters == ASSUME UNCHANGED <<obj, acked, unsafe>> PROVE UNCHANGED AO!vars
BY Zenon DEF AO!vars

\* Writing a free key is Store, writing a taken one of the Fleet's is Replace.
LEMMA WriteImplements ==
  ASSUME NEW k \in Keys, NEW b \in Contents, obj[k] = Missing \/ k \in Owned,
         Change(k, b), UNCHANGED <<acked, unsafe>>
  PROVE  AO!Next
BY Zenon DEF Change, AO!Next, AO!Store, AO!Replace

\* Removing a key that is not plain is Delete.
LEMMA RemoveImplements ==
  ASSUME NEW k \in Keys, k \notin Plain, Change(k, Missing), UNCHANGED <<acked, unsafe>>
  PROVE  AO!Next
BY Zenon DEF Change, Plain, AO!Next, AO!Delete

\* Answering with success is Promise, or a stutter when the key is not plain.
LEMMA AcknowledgeImplements ==
  ASSUME IInv, NEW p \in Procs, At(p, "put", "stat") \/ At(p, "put", "sent"),
         Acknowledge(p), UNCHANGED <<obj, unsafe>>
  PROVE  [AO!Next]_(AO!vars)
<1>1. Asked(req[p]) /\ Placed(req[p]) BY Zenon DEF IInv, Requests
<1>2. CASE req[p].key \notin Plain
  <2>1. Pair(p) = {} BY <1>2, PairIs, Zenon DEF At
  <2>2. QED BY <2>1, Zenon DEF Acknowledge, AO!vars
<1>3. CASE req[p].key \in Plain
  <2>1. req[p].key \in Keys /\ req[p].body \in Contents /\ obj[req[p].key] = req[p].body
    BY <1>1, <1>3, Zenon DEF At, Asked, Placed
  <2>4. acked' = acked \cup {<<req[p].key, req[p].body>>}
    <3>1. Pair(p) = {<<req[p].key, req[p].body>>} BY <1>3, PairIs, Zenon DEF At
    <3>2. QED BY <3>1, Zenon DEF Acknowledge
  <2>5. acked' \ unsafe' \in {acked \ unsafe, (acked \ unsafe) \cup {<<req[p].key, req[p].body>>}}
    BY <2>4, Zenon
  <2>2. AO!Promise(req[p].key, req[p].body)
    BY <1>3, <2>1, <2>4, <2>5, Zenon DEF AO!Promise, AO!Plain, Plain
  <2>3. QED BY <2>1, <2>2, Zenon DEF AO!Next
<1>4. QED BY <1>2, <1>3, Zenon

\* A sync of the directory is Settle: what was durable is, and what becomes so is there.
LEMMA SyncDirImplements == ASSUME IInv, NEW p \in Procs, SyncDir(p) PROVE AO!Next
<1>1. /\ UNCHANGED <<backend, obj, acked, dir>> /\ TypeOK'
      /\ \A k \in Keys : persist'[k] = persist[k] \/ persist'[k] = {obj[k]}
      /\ \A k \in Plain, c \in Contents : <<k, c>> \in unsafe \cup Pair(p) => <<k, c>> \in unsafe' \/ Safe(<<k, c>>)'
      /\ \A u \in unsafe' : ~Safe(u)'
  BY SyncDirEffect, Zenon
<1>2. ASSUME NEW a \in acked \ unsafe PROVE a \notin unsafe'
  <2>1. PICK k \in Plain, c \in Contents : a = <<k, c>> BY DEF IInv, TypeOK
  <2>2. Safe(<<k, c>>) BY <2>1, Zenon DEF IInv, Durable
  <2>3. k \in Keys /\ persist[k] = {c} /\ obj[k] \in persist[k] BY <2>2 DEF Safe, IInv, TypeOK, Plain
  <2>4. persist'[k] = {c} BY <1>1, <2>3, Zenon
  <2>5. Safe(<<k, c>>)' BY <1>1, <2>2, <2>4 DEF Safe
  <2>6. QED BY <1>1, <2>1, <2>5, Zenon
<1>3. ASSUME NEW a \in acked, a \in unsafe, a \notin unsafe' PROVE obj[a[1]] = a[2]
  <2>1. PICK k \in Plain, c \in Contents : a = <<k, c>> BY DEF IInv, TypeOK
  <2>2. Safe(<<k, c>>)' BY <1>1, <1>3, <2>1, Zenon
  <2>3. persist'[k] = {c} /\ obj'[k] \in persist'[k] BY <1>1, <2>2 DEF Safe, TypeOK, Plain
  <2>4. obj[k] = c BY <1>1, <2>3, Zenon
  <2>5. QED BY <2>1, <2>4
<1>4. AO!Settle BY <1>1, <1>2, <1>3, Zenon DEF AO!Settle
<1>5. QED BY <1>4, Zenon DEF AO!Next

\* A crash loses no durable object of a plain key.
LEMMA CrashImplements == ASSUME IInv, Crash PROVE AO!Next
<1>1. /\ obj' \in [Keys -> Contents \cup {Missing}] /\ UNCHANGED <<acked, unsafe>>
      /\ \A k \in Keys : obj'[k] \in persist[k] \/ obj'[k] = Missing
      /\ \A k \in Keys, c \in Contents : Safe(<<k, c>>) => obj'[k] = c
  BY CrashEffect, Zenon
<1>2. ASSUME NEW k \in Plain
      PROVE  \/ obj'[k] = obj[k]
             \/ obj'[k] = Missing /\ \A c \in Contents : <<k, c>> \notin acked \ unsafe
  <2>1. k \in Keys /\ persist[k] \subseteq {obj[k], Missing} BY Zenon DEF Plain, IInv, Whole
  <2>2. \A c \in Contents : <<k, c>> \in acked \ unsafe => Safe(<<k, c>>) BY Zenon DEF IInv, Durable
  <2>3. \A c \in Contents : obj'[k] = Missing => c # obj'[k] BY StoreValid, Zenon
  <2>4. QED BY <1>1, <2>1, <2>2, <2>3, Zenon
<1>3. AO!Crash BY <1>1, <1>2, Zenon DEF AO!Crash, AO!Plain, Plain
<1>4. QED BY <1>3, Zenon DEF AO!Next

\* Every step of the store is a step of AppendOnly or changes nothing it speaks of.
LEMMA NextImplements == IInv /\ [Next]_vars => [AO!Next]_(AO!vars)
<1> SUFFICES ASSUME IInv, [Next]_vars PROVE [AO!Next]_(AO!vars) BY Zenon
<1> USE Stutters
<1>1. ASSUME NEW p \in Procs,
             \/ DeviceAsks(p) \/ OwnerAsks(p) \/ WriteTemp(p) \/ Spool(p)
             \/ DeleteStat(p) \/ Age(p)
             \/ ListStart(p) \/ ListRead(p) \/ ListInfo(p) \/ ListDone(p)
      PROVE  UNCHANGED AO!vars
  BY <1>1, Zenon DEF DeviceAsks, OwnerAsks, WriteTemp, Spool, DeleteStat, Age,
              ListStart, ListRead, ListInfo, ListDone, entry
<1>2. ASSUME NEW p \in Procs, Commit(p) \/ Send(p) PROVE [AO!Next]_(AO!vars)
  <2>1. Asked(req[p]) BY Zenon DEF IInv, Requests
  <2>2. req[p].key \in Keys /\ req[p].body \in Contents /\ (req[p].over => req[p].key \in Owned)
    BY <1>2, <2>1, Zenon DEF Commit, Send, At, Asked
  <2>3. \/ UNCHANGED <<obj, acked, unsafe>>
        \/ /\ obj[req[p].key] = Missing \/ req[p].key \in Owned
           /\ Change(req[p].key, req[p].body) /\ UNCHANGED <<acked, unsafe>>
    BY <1>2, <2>2, Zenon DEF Commit, Send, entry
  <2>4. QED BY <2>2, <2>3, WriteImplements, Zenon
<1>3. ASSUME NEW p \in Procs, DeleteRemove(p) PROVE [AO!Next]_(AO!vars)
  <2>1. Asked(req[p]) BY Zenon DEF IInv, Requests
  <2>2. req[p].key \in Keys /\ req[p].key \notin Plain
    BY <1>3, <2>1, StoreValid, Zenon DEF DeleteRemove, At, Asked, Plain
  <2>3. QED BY <1>3, <2>2, RemoveImplements, Zenon DEF DeleteRemove, entry
<1>4. ASSUME NEW p \in Procs, Stat(p) \/ Sent(p) PROVE [AO!Next]_(AO!vars)
  BY <1>4, AcknowledgeImplements, Zenon DEF Stat, Sent, entry
<1>5. CASE sweepTemp \/ WriteBack BY <1>5, Zenon DEF sweepTemp, WriteBack, entry
<1>6. CASE UNCHANGED vars BY <1>6, Zenon DEF vars
<1>7. QED BY <1>1, <1>2, <1>3, <1>4, <1>5, <1>6, SyncDirImplements, CrashImplements, ZenonT(60) DEF Next, PutStep

\* The gateway's object store, with its temp files, links, syncs, replays and crashes, implements
\* the append-only store: what a device was told is stored stays stored, once it is durable.
THEOREM StoreImplements == Spec => Implements
<1>1. Init => AO!Init BY Zenon DEF Init, AO!Init
<1>2. QED BY <1>1, StoreInvariant, NextImplements, PTL DEF Spec, Implements, AO!Spec

-----------------------------------------------------------------------------
(* Listings *)

\* A set of numbers has a least one.
LEMMA LeastNumber ==
  ASSUME NEW T, T \subseteq Nat, T # {}
  PROVE  \E x \in T : \A y \in T : x <= y
<1> DEFINE R == {ss \in Nat \X Nat : ss[1] < ss[2]}
<1>1. IsWellFoundedOn(R, Nat)
  BY NatLessThanWellFounded, Zenon DEF OpToRel
<1>2. PICK x \in T : \A y \in T : ~(<<y, x>> \in R)
  BY <1>1, WFMin, Zenon
<1>3. \A y \in T : ~(y < x)
  BY <1>2, Zenon
<1>4. QED BY <1>3

\* A sequence of the keys of a set, in order.
Sorts(s, S) == /\ s \in [1 .. Cardinality(S) -> S]
               /\ \A i, j \in 1 .. Cardinality(S) : i < j => Rank[s[i]] < Rank[s[j]]

\* If every set of n keys has one, every set of one key more has: its first key comes first.
LEMMA SortOne ==
  ASSUME NEW n \in Nat, \A S \in SUBSET Keys : Cardinality(S) = n => \E s : Sorts(s, S),
         NEW S \in SUBSET Keys, Cardinality(S) = n + 1
  PROVE  \E s : Sorts(s, S)
<1>0. IsFiniteSet(S) /\ Rank \in [Keys -> Nat] /\ \A k, l \in Keys : Rank[k] = Rank[l] => k = l
  BY StoreValid, FS_Subset, Zenon
<1>1. S # {}
  BY <1>0, FS_EmptySet
<1>2. PICK k \in S : \A l \in S : Rank[k] <= Rank[l]
  <2>1. PICK m \in {Rank[l] : l \in S} : \A y \in {Rank[l] : l \in S} : m <= y
    <3>1. {Rank[l] : l \in S} \subseteq Nat /\ {Rank[l] : l \in S} # {}
      BY <1>0, <1>1
    <3>2. QED BY <3>1, LeastNumber, Zenon
  <2>2. QED BY <2>1, Zenon
<1>3. Cardinality(S \ {k}) = n
  <2>1. Cardinality(S \ {k}) = Cardinality(S) - 1
    BY <1>0, FS_RemoveElement, Zenon
  <2>2. QED BY <2>1
<1>4. PICK t : Sorts(t, S \ {k})
  BY <1>3, Zenon
<1>5. t \in [1..n -> S \ {k}] /\ \A i, j \in 1..n : i < j => Rank[t[i]] < Rank[t[j]]
  BY <1>3, <1>4, Zenon DEF Sorts
<1> DEFINE s == [i \in 1..(n + 1) |-> IF i = 1 THEN k ELSE t[i - 1]]
<1>6. s \in [1..(n + 1) -> S]
  BY <1>5
<1>7. ASSUME NEW i \in 1..(n + 1), NEW j \in 1..(n + 1), i < j PROVE Rank[s[i]] < Rank[s[j]]
  <2>1. j - 1 \in 1..n /\ s[j] = t[j - 1]
    BY <1>7
  <2>2. CASE i = 1
    <3>1. t[j - 1] \in S \ {k} /\ s[i] = k
      BY <1>5, <2>1, <2>2, Zenon
    <3>2. Rank[t[j - 1]] # Rank[k] /\ Rank[k] <= Rank[t[j - 1]] /\ Rank[k] \in Nat /\ Rank[t[j - 1]] \in Nat
      BY <1>0, <1>2, <3>1, Zenon
    <3>3. QED BY <2>1, <3>1, <3>2
  <2>3. CASE i # 1
    <3>1. i - 1 \in 1..n /\ s[i] = t[i - 1] /\ i - 1 < j - 1
      BY <1>7, <2>3
    <3>2. QED BY <1>5, <2>1, <3>1, Zenon
  <2>4. QED BY <2>2, <2>3, Zenon
<1>8. QED BY <1>6, <1>7, Zenon DEF Sorts

\* Every set of keys can be put in order: there is no least size of one that cannot.
LEMMA OrderedSorts ==
  ASSUME NEW S \in SUBSET Keys
  PROVE  Sorts(Ordered(S), S)
<1> DEFINE Bad == {n \in Nat : \E T \in SUBSET Keys : Cardinality(T) = n /\ ~\E s : Sorts(s, T)}
<1>1. \A T \in SUBSET Keys : IsFiniteSet(T) /\ Cardinality(T) \in Nat
  BY StoreValid, FS_Subset, FS_CardinalityType, Zenon
<1>2. Bad = {}
  <2>1. SUFFICES ASSUME Bad # {} PROVE FALSE
    BY Zenon
  <2>2. PICK n \in Bad : \A m \in Bad : n <= m
    BY <2>1, LeastNumber, Zenon
  <2>3. PICK T \in SUBSET Keys : Cardinality(T) = n /\ ~\E s : Sorts(s, T)
    BY <2>2, Zenon
  <2>4. CASE n = 0
    <3>1. T = {}
      BY <1>1, <2>3, <2>4, FS_EmptySet, Zenon
    <3>2. Sorts([i \in 1..0 |-> 0], T)
      BY <3>1, FS_EmptySet DEF Sorts
    <3>3. QED BY <2>3, <3>2, Zenon
  <2>5. CASE n # 0
    <3>1. n - 1 \in Nat /\ n - 1 \notin Bad
      BY <2>2, <2>5
    <3>2. \A U \in SUBSET Keys : Cardinality(U) = n - 1 => \E s : Sorts(s, U)
      BY <3>1, Zenon
    <3>3. Cardinality(T) = (n - 1) + 1
      BY <2>2, <2>3
    <3>4. QED BY <2>3, <3>1, <3>2, <3>3, SortOne, Zenon
  <2>6. QED BY <2>4, <2>5, Zenon
<1>3. \E s : Sorts(s, S)
  BY <1>1, <1>2, Zenon
<1>4. \E s \in [1 .. Cardinality(S) -> S] : \A i, j \in 1 .. Cardinality(S) : i < j => Rank[s[i]] < Rank[s[j]]
  BY <1>3, Zenon DEF Sorts
<1>5. QED BY <1>4, Zenon DEF Ordered, Sorts

\* Nothing is left out: there are as many places as keys.
LEMMA OrderedAll ==
  ASSUME NEW S \in SUBSET Keys, NEW k \in S
  PROVE  \E i \in 1 .. Cardinality(S) : Ordered(S)[i] = k
<1> DEFINE n == Cardinality(S)
           s == Ordered(S)
<1>1. IsFiniteSet(S) /\ n \in Nat
  BY StoreValid, FS_Subset, FS_CardinalityType, Zenon
<1>2. s \in [1..n -> S] /\ \A i, j \in 1..n : i < j => Rank[s[i]] < Rank[s[j]]
  BY OrderedSorts, Zenon DEF Sorts
<1> HIDE DEF n, s
<1>3. \A x \in S : Rank[x] \in Nat
  BY StoreValid, Zenon
<1>4. \A i, j \in 1..n : s[i] = s[j] => i = j
  <2>1. SUFFICES ASSUME NEW i \in 1..n, NEW j \in 1..n, s[i] = s[j], i # j PROVE FALSE
    BY Zenon
  <2>2. s[i] \in S /\ Rank[s[i]] \in Nat /\ Rank[s[i]] = Rank[s[j]]
    BY <1>2, <1>3, <2>1, Zenon
  <2>3. i < j \/ j < i
    BY <1>1, <2>1
  <2>4. QED BY <1>2, <2>2, <2>3
<1>5. s \in Injection(1..n, S)
  BY <1>2, <1>4, Zenon DEF Injection, IsInjective
<1>6. Cardinality(1..n) = n
  BY <1>1, FS_Interval
<1>7. s \in Surjection(1..n, S)
  BY <1>1, <1>5, <1>6, FS_Injection, Zenon DEF n
<1>8. QED BY <1>7, Zenon DEF Surjection, n, s

\* What one page shows: it is in order, and holds every entry up to its last.
LEMMA PageShows ==
  ASSUME NEW S \in SUBSET Keys, NEW page,
         \/ Len(Ordered(S)) > PageSize /\ page = SubSeq(Ordered(S), 1, PageSize)
         \/ Len(Ordered(S)) <= PageSize /\ page = Ordered(S)
  PROVE  /\ page \in Seq(S)
         /\ \A i, j \in 1 .. Len(page) : i < j => Rank[page[i]] < Rank[page[j]]
         /\ Len(Ordered(S)) > PageSize => page # <<>> /\ \A k \in S : Rank[k] <= Rank[Last(page)] => \E i \in 1 .. Len(page) : page[i] = k
         /\ Len(Ordered(S)) <= PageSize => \A k \in S : \E i \in 1 .. Len(page) : page[i] = k
<1> DEFINE n == Cardinality(S)
           s == Ordered(S)
<1>1. n \in Nat /\ PageSize \in Nat \ {0} /\ \A k \in S : Rank[k] \in Nat
  BY StoreValid, FS_Subset, FS_CardinalityType, Zenon
<1>2. s \in [1..n -> S] /\ (\A i, j \in 1..n : i < j => Rank[s[i]] < Rank[s[j]]) /\ \A k \in S : \E i \in 1..n : s[i] = k
  BY OrderedSorts, OrderedAll, Zenon DEF Sorts
<1> HIDE DEF n, s
<1>3. s \in Seq(S) /\ Len(s) = n
  BY <1>1, <1>2
<1>4. CASE Len(s) > PageSize /\ page = SubSeq(s, 1, PageSize)
  <2>1. page \in Seq(S) /\ Len(page) = PageSize /\ \A i \in 1..PageSize : page[i] = s[i]
    BY <1>1, <1>3, <1>4
  <2>2. Last(page) = s[PageSize]
    BY <1>1, <2>1 DEF Last
  <2>3. ASSUME NEW k \in S, Rank[k] <= Rank[Last(page)] PROVE \E i \in 1 .. Len(page) : page[i] = k
    <3>1. PICK i \in 1..n : s[i] = k
      BY <1>2, Zenon
    <3>2. i <= PageSize
      <4>1. SUFFICES ASSUME PageSize < i PROVE FALSE
        BY <1>1
      <4>2. PageSize \in 1..n /\ s[PageSize] \in S
        BY <1>1, <1>2, <1>3, <1>4
      <4>3. Rank[s[PageSize]] < Rank[k]
        BY <1>2, <3>1, <4>1, <4>2, Zenon
      <4>4. QED BY <1>1, <2>2, <2>3, <4>2, <4>3
    <3>3. QED BY <1>1, <2>1, <3>1, <3>2
  <2>4. \A i, j \in 1 .. Len(page) : i < j => Rank[page[i]] < Rank[page[j]]
    BY <1>1, <1>2, <1>3, <1>4, <2>1
  <2>5. QED BY <1>1, <1>4, <2>1, <2>3, <2>4 DEF s
<1>5. CASE Len(s) <= PageSize /\ page = s
  BY <1>1, <1>2, <1>3, <1>5 DEF s
<1>6. QED BY <1>4, <1>5, Zenon DEF s

Listing == [pc : {"idle", "read", "info", "done"}, after : Int, names : SUBSET Keys, found : Seq(Keys),
            steady : SUBSET Keys]

InOrder(f) == \A i, j \in 1 .. Len(f) : i < j => Rank[f[i]] < Rank[f[j]]
Shows(f, k) == \E i \in 1 .. Len(f) : f[i] = k

\* How far a listing has come: what it has shown lies up to `after', where nothing that stayed is
\* missing, and what it has read of the next page begins there.
Come(l) ==
  /\ InOrder(l.found)
  /\ l.pc \in {"read", "info"} =>
       /\ \A i \in 1 .. Len(l.found) : Rank[l.found[i]] <= l.after
       /\ \A k \in l.steady : Rank[k] <= l.after => Shows(l.found, k)
  /\ l.pc = "info" =>
       /\ \A k \in l.names : Rank[k] > l.after
       /\ \A k \in l.steady : Rank[k] > l.after => k \in l.names
  /\ l.pc = "done" => \A k \in l.steady : Shows(l.found, k)

LInv ==
  /\ listing \in [Procs -> Listing]
  /\ \A p \in Procs : listing[p].steady \subseteq Present /\ Come(listing[p])

\* No listing yet.
LEMMA NoListComes == NoList \in Listing /\ NoList.steady = {} /\ Come(NoList)
<1>1. NoList.pc = "idle" /\ NoList.found = <<>> /\ NoList.steady = {} /\ NoList.names = {} /\ NoList.after = -1
  BY Zenon DEF NoList
<1>2. NoList \in Listing
  BY DEF NoList, Listing
<1>3. QED BY <1>1, <1>2 DEF Come, InOrder

\* A step of one listing, while nothing goes away.
LEMMA OneListing ==
  ASSUME LInv, Present \subseteq Present', NEW p \in Procs, NEW l \in Listing,
         listing' = [listing EXCEPT ![p] = l], l.steady \subseteq Present, Come(l)
  PROVE  LInv'
<1>1. listing' \in [Procs -> Listing] /\ listing'[p] = l /\ \A q \in Procs \ {p} : listing'[q] = listing[q]
  BY Zenon DEF LInv
<1>2. ASSUME NEW q \in Procs PROVE listing'[q].steady \subseteq Present' /\ Come(listing'[q])
  BY <1>1, Zenon DEF LInv
<1>3. \A q \in Procs : Come(listing[q])' <=> Come(listing'[q])
  BY Zenon DEF Come, InOrder, Shows
<1>4. QED BY <1>1, <1>2, <1>3, Zenon DEF LInv

LEMMA ListStartKeeps ==
  ASSUME LInv, NEW p \in Procs, ListStart(p)
  PROVE  LInv'
<1> DEFINE l == [pc |-> "read", after |-> -1, names |-> {}, found |-> <<>>, steady |-> Present]
<1>1. listing' = [listing EXCEPT ![p] = l]
  BY Zenon DEF ListStart
<1>2. l \in Listing
  BY DEF Listing, Present
<1>3. Come(l)
  <2>1. \A k \in Present : Rank[k] \in Nat
    BY StoreValid, Zenon DEF Present
  <2>2. QED BY <2>1 DEF Come, InOrder
<1>4. Present' = Present
  BY Zenon DEF ListStart, Present
<1> HIDE DEF l
<1>5. l.steady \subseteq Present
  BY Zenon DEF l
<1>6. QED BY <1>1, <1>2, <1>3, <1>4, <1>5, OneListing, Zenon

LEMMA ListReadKeeps ==
  ASSUME LInv, NEW p \in Procs, ListRead(p)
  PROVE  LInv'
<1> DEFINE m == listing[p]
           l == [pc |-> "info", after |-> m.after, found |-> m.found, steady |-> m.steady,
                 names |-> {k \in Present : Rank[k] > m.after}]
<1>1. m \in Listing /\ m.pc = "read" /\ m.steady \subseteq Present /\ Come(m)
  BY Zenon DEF LInv, ListRead
<1>2. listing' = [listing EXCEPT ![p] = l]
  BY Zenon DEF ListRead
<1>3. l \in Listing
  BY <1>1, Zenon DEF Listing, Present
<1>4. Come(l)
  BY <1>1, Zenon DEF Come, InOrder, Shows, Listing
<1>5. Present' = Present /\ l.steady \subseteq Present
  BY <1>1, Zenon DEF ListRead, Present
<1> HIDE DEF l
<1>6. QED BY <1>2, <1>3, <1>4, <1>5, OneListing, Zenon

LEMMA ListDoneKeeps ==
  ASSUME LInv, NEW p \in Procs, ListDone(p)
  PROVE  LInv'
<1>1. listing' = [listing EXCEPT ![p] = NoList] /\ Present' = Present
  BY Zenon DEF ListDone, Present
<1>2. QED BY <1>1, NoListComes, OneListing, Zenon

\* Where the entries of two sequences end up when they are joined.
LEMMA JoinPlaces ==
  ASSUME NEW f \in Seq(Keys), NEW g \in Seq(Keys)
  PROVE  \A i \in 1 .. Len(f \o g) : \/ i <= Len(f) /\ i \in 1 .. Len(f) /\ (f \o g)[i] = f[i]
                                     \/ i > Len(f) /\ i - Len(f) \in 1 .. Len(g) /\ (f \o g)[i] = g[i - Len(f)]
<1> DEFINE h == f \o g
           n == Len(f)
<1>1. /\ Len(h) = n + Len(g) /\ n \in Nat /\ Len(g) \in Nat
      /\ \A i \in 1..n : h[i] = f[i]
      /\ \A i \in 1 .. Len(g) : h[n + i] = g[i]
  OBVIOUS
<1> HIDE DEF h, n
<1>2. ASSUME NEW i \in 1 .. Len(h), i > n PROVE i - n \in 1 .. Len(g) /\ h[i] = g[i - n]
  <2>1. i - n \in 1 .. Len(g) /\ n + (i - n) = i
    BY <1>1, <1>2
  <2>2. QED BY <1>1, <2>1, Zenon
<1>3. ASSUME NEW i \in 1 .. Len(h), i <= n PROVE i \in 1..n /\ h[i] = f[i]
  BY <1>1, <1>3
<1>4. \A i \in 1 .. Len(h) : i <= n \/ i > n
  BY <1>1
<1>5. \A i \in 1 .. Len(h) : \/ i <= n /\ i \in 1..n /\ h[i] = f[i]
                             \/ i > n /\ i - n \in 1 .. Len(g) /\ h[i] = g[i - n]
  BY <1>2, <1>3, <1>4, Zenon
<1>6. QED BY <1>5, Zenon DEF h, n

LEMMA JoinShows ==
  ASSUME NEW f \in Seq(Keys), NEW g \in Seq(Keys), NEW k, Shows(f, k) \/ Shows(g, k)
  PROVE  Shows(f \o g, k)
<1> DEFINE h == f \o g
<1>1. /\ Len(h) = Len(f) + Len(g) /\ Len(f) \in Nat /\ Len(g) \in Nat
      /\ \A i \in 1 .. Len(f) : h[i] = f[i]
      /\ \A i \in 1 .. Len(g) : h[Len(f) + i] = g[i]
  OBVIOUS
<1> HIDE DEF h
<1>2. CASE Shows(f, k)
  BY <1>1, <1>2 DEF Shows, h
<1>3. CASE Shows(g, k)
  <2>1. PICK i \in 1 .. Len(g) : g[i] = k
    BY <1>3, Zenon DEF Shows
  <2>2. Len(f) + i \in 1 .. Len(h) /\ h[Len(f) + i] = k
    BY <1>1, <2>1
  <2>3. Shows(h, k)
    BY <2>2, Zenon DEF Shows
  <2>4. QED BY <2>3, Zenon DEF h
<1>4. QED BY <1>2, <1>3, Zenon

LEMMA JoinInOrder ==
  ASSUME NEW f \in Seq(Keys), NEW g \in Seq(Keys), NEW a \in Int, InOrder(f), InOrder(g),
         \A i \in 1 .. Len(f) : Rank[f[i]] <= a, \A i \in 1 .. Len(g) : Rank[g[i]] > a
  PROVE  InOrder(f \o g)
<1> DEFINE h == f \o g
           n == Len(f)
           m == Len(g)
<1>1. n \in Nat /\ m \in Nat
  OBVIOUS
<1>2. \A i \in 1 .. Len(h) : \/ i <= n /\ i \in 1..n /\ h[i] = f[i]
                             \/ i > n /\ i - n \in 1..m /\ h[i] = g[i - n]
  BY JoinPlaces, Zenon
<1>3. /\ \A i \in 1..n : Rank[f[i]] \in Nat /\ Rank[f[i]] <= a
      /\ \A i \in 1..m : Rank[g[i]] \in Nat /\ Rank[g[i]] > a
  BY StoreValid
<1>4. /\ \A i, j \in 1..n : i < j => Rank[f[i]] < Rank[f[j]]
      /\ \A i, j \in 1..m : i < j => Rank[g[i]] < Rank[g[j]]
  BY Zenon DEF InOrder
<1>5. Len(h) \in Nat
  OBVIOUS
<1> HIDE DEF h, n, m
<1>6. ASSUME NEW i \in 1 .. Len(h), NEW j \in 1 .. Len(h), i < j PROVE Rank[h[i]] < Rank[h[j]]
  <2>1. CASE j <= n
    <3>1. i \in 1..n /\ j \in 1..n /\ h[i] = f[i] /\ h[j] = f[j]
      BY <1>1, <1>2, <1>5, <1>6, <2>1
    <3>2. QED BY <1>4, <1>6, <3>1, Zenon
  <2>2. CASE i <= n /\ j > n
    <3>1. i \in 1..n /\ j - n \in 1..m /\ h[i] = f[i] /\ h[j] = g[j - n]
      BY <1>1, <1>2, <1>5, <2>2
    <3>2. QED BY <1>3, <3>1
  <2>3. CASE i > n
    <3>1. i - n \in 1..m /\ j - n \in 1..m /\ h[i] = g[i - n] /\ h[j] = g[j - n] /\ i - n < j - n
      BY <1>1, <1>2, <1>5, <1>6, <2>3
    <3>2. QED BY <1>4, <3>1, Zenon
  <2>4. QED BY <1>1, <1>5, <2>1, <2>2, <2>3
<1>7. QED BY <1>6, Zenon DEF InOrder, h

\* A page joins what was shown before it: it begins beyond `after', and leaves out nothing that stayed.
LEMMA ListInfoKeeps ==
  ASSUME LInv, NEW p \in Procs, ListInfo(p)
  PROVE  LInv'
<1> DEFINE m == listing[p]
           S == IF backend = "local" THEN m.names \cap Present ELSE m.names
           entries == Ordered(S)
           truncated == Len(entries) > PageSize
           page == IF truncated THEN SubSeq(entries, 1, PageSize) ELSE entries
           l == [pc |-> IF truncated THEN "read" ELSE "done",
                 after |-> IF page = <<>> THEN m.after ELSE Rank[Last(page)],
                 names |-> {}, found |-> m.found \o page, steady |-> m.steady]
<1>1. m \in Listing /\ m.pc = "info" /\ m.steady \subseteq Present /\ Come(m)
  BY Zenon DEF LInv, ListInfo
<1>2. listing' = [listing EXCEPT ![p] = l] /\ Present' = Present
  BY Zenon DEF ListInfo, Present
<1>3. m.after \in Int /\ m.found \in Seq(Keys) /\ m.names \in SUBSET Keys /\ m.steady \in SUBSET Keys
  BY <1>1, Zenon DEF Listing
<1>4. S \in SUBSET Keys /\ \A k \in S : Rank[k] > m.after
  BY <1>1, <1>3, Zenon DEF Come
<1>5. \A k \in m.steady : Rank[k] > m.after => k \in S
  BY <1>1, Zenon DEF Come
<1>6. \A k \in Keys : Rank[k] \in Nat
  BY StoreValid, Zenon
<1>7. Len(entries) \in Nat /\ PageSize \in Nat \ {0}
  <2>1. Cardinality(S) \in Nat
    BY <1>4, StoreValid, FS_Subset, FS_CardinalityType, Zenon
  <2>2. entries \in [1 .. Cardinality(S) -> S]
    BY <1>4, OrderedSorts, Zenon DEF Sorts
  <2> HIDE DEF S, entries
  <2>3. QED BY <2>1, <2>2, StoreValid
<1>8. /\ page \in Seq(S) /\ InOrder(page)
      /\ truncated => page # <<>> /\ \A k \in S : Rank[k] <= Rank[Last(page)] => Shows(page, k)
      /\ ~truncated => \A k \in S : Shows(page, k)
  <2> HIDE DEF S
  <2>1. \/ Len(Ordered(S)) > PageSize /\ page = SubSeq(Ordered(S), 1, PageSize)
        \/ Len(Ordered(S)) <= PageSize /\ page = Ordered(S)
    BY <1>7
  <2>2. /\ page \in Seq(S)
        /\ \A i, j \in 1 .. Len(page) : i < j => Rank[page[i]] < Rank[page[j]]
        /\ Len(Ordered(S)) > PageSize => page # <<>> /\ \A k \in S : Rank[k] <= Rank[Last(page)] => \E i \in 1 .. Len(page) : page[i] = k
        /\ Len(Ordered(S)) <= PageSize => \A k \in S : \E i \in 1 .. Len(page) : page[i] = k
    <3> HIDE DEF page
    <3>1. QED BY <1>4, <2>1, PageShows, SMTT(30)
  <2>3. ~truncated => Len(Ordered(S)) <= PageSize
    BY <1>7
  <2> HIDE DEF page
  <2>4. QED BY <2>2, <2>3, Zenon DEF InOrder, Shows
<1> HIDE DEF m, S, entries, page
<1>9. page \in Seq(Keys) /\ \A j \in 1 .. Len(page) : page[j] \in S /\ Rank[page[j]] \in Nat /\ Rank[page[j]] > m.after
  BY <1>4, <1>6, <1>8
<1>10. page # <<>> => Last(page) \in S /\ \A j \in 1 .. Len(page) : Rank[page[j]] <= Rank[Last(page)]
  BY <1>6, <1>8, <1>9 DEF Last, InOrder
<1> DEFINE f == m.found \o page
<1>11. /\ \A i \in 1 .. Len(m.found) : Rank[m.found[i]] <= m.after
       /\ InOrder(m.found)
       /\ \A k \in m.steady : Rank[k] <= m.after => Shows(m.found, k)
  BY <1>1, Zenon DEF Come
<1>12. f \in Seq(Keys)
  BY <1>3, <1>9
<1>13. InOrder(f)
  BY <1>3, <1>9, <1>8, <1>11, JoinInOrder, ZenonT(60)
<1>14. \A i \in 1 .. Len(f) : \/ \E j \in 1 .. Len(m.found) : f[i] = m.found[j]
                              \/ \E j \in 1 .. Len(page) : f[i] = page[j]
  BY <1>3, <1>9, JoinPlaces, ZenonT(60)
<1>15. \A k : Shows(m.found, k) \/ Shows(page, k) => Shows(f, k)
  BY <1>3, <1>9, JoinShows, Zenon
<1> HIDE DEF f
<1>16. truncated => /\ \A i \in 1 .. Len(f) : Rank[f[i]] <= Rank[Last(page)]
                    /\ \A k \in m.steady : Rank[k] <= Rank[Last(page)] => Shows(f, k)
  <2>1. SUFFICES ASSUME truncated PROVE /\ \A i \in 1 .. Len(f) : Rank[f[i]] <= Rank[Last(page)]
                                        /\ \A k \in m.steady : Rank[k] <= Rank[Last(page)] => Shows(f, k)
    BY Zenon
  <2>2. page # <<>> /\ Last(page) \in S /\ Rank[Last(page)] \in Nat /\ Rank[Last(page)] > m.after
    BY <1>4, <1>6, <1>8, <1>10, <2>1, Zenon
  <2>3. \A i \in 1 .. Len(f) : Rank[f[i]] <= Rank[Last(page)]
    <3>1. SUFFICES ASSUME NEW i \in 1 .. Len(f) PROVE Rank[f[i]] <= Rank[Last(page)]
      BY Zenon
    <3>2. CASE \E j \in 1 .. Len(page) : f[i] = page[j]
      BY <1>10, <2>2, <3>2, Zenon
    <3>3. CASE \E j \in 1 .. Len(m.found) : f[i] = m.found[j]
      <4>1. PICK j \in 1 .. Len(m.found) : f[i] = m.found[j]
        BY <3>3, Zenon
      <4>2. Rank[f[i]] \in Nat
        BY <1>6, <1>12, <3>1
      <4>3. Rank[f[i]] <= m.after
        BY <1>11, <4>1, Zenon
      <4>4. QED BY <1>3, <2>2, <4>2, <4>3
    <3>4. QED BY <1>14, <3>2, <3>3, Zenon
  <2>4. ASSUME NEW k \in m.steady, Rank[k] <= Rank[Last(page)] PROVE Shows(f, k)
    <3>1. CASE Rank[k] <= m.after
      BY <1>11, <1>15, <3>1, Zenon
    <3>2. CASE Rank[k] > m.after
      BY <1>5, <1>8, <1>15, <2>1, <2>4, <3>2
    <3>3. QED BY <1>3, <1>6, <3>1, <3>2
  <2>5. QED BY <2>3, <2>4, Zenon
<1>17. ~truncated => \A k \in m.steady : Shows(f, k)
  <2>1. SUFFICES ASSUME ~truncated, NEW k \in m.steady PROVE Shows(f, k)
    BY Zenon
  <2>2. CASE Rank[k] <= m.after
    BY <1>11, <1>15, <2>2, Zenon
  <2>3. CASE Rank[k] > m.after
    BY <1>5, <1>8, <1>15, <2>1, <2>3, Zenon
  <2>4. QED BY <1>3, <1>6, <2>2, <2>3
<1>18. l \in Listing /\ l.steady \subseteq Present
  <2>1. (IF page = <<>> THEN m.after ELSE Rank[Last(page)]) \in Int
    BY <1>3, <1>4, <1>6, <1>10
  <2> HIDE DEF truncated
  <2>2. QED BY <1>1, <1>3, <1>12, <2>1, Zenon DEF Listing, f
<1>19. Come(l)
  <2>1. /\ l.pc = (IF truncated THEN "read" ELSE "done") /\ l.found = f /\ l.steady = m.steady
        /\ l.after = (IF page = <<>> THEN m.after ELSE Rank[Last(page)])
    BY Zenon DEF f
  <2> HIDE DEF l, truncated
  <2>2. CASE truncated
    BY <1>8, <1>13, <1>16, <2>1, <2>2, Zenon DEF Come
  <2>3. CASE ~truncated
    BY <1>13, <1>17, <2>1, <2>3, Zenon DEF Come
  <2>4. QED BY <2>2, <2>3, Zenon
<1> HIDE DEF l
<1>20. QED BY <1>2, <1>18, <1>19, OneListing, Zenon

\* A removal takes its key off what every listing owes.
LEMMA DeleteRemoveKeeps ==
  ASSUME IInv, LInv, NEW p \in Procs, DeleteRemove(p)
  PROVE  LInv'
<1> DEFINE k == req[p].key
           without(l) == [l EXCEPT !.steady = @ \ {k}]
<1>1. k \in Keys
  BY StoreValid, Zenon DEF IInv, Requests, Asked, DeleteRemove, At
<1>2. listing' = [q \in Procs |-> without(listing[q])]
  BY Zenon DEF DeleteRemove
<1>3. Present \ {k} \subseteq Present'
  <2>1. obj \in [Keys -> Contents \cup {Missing}]
    BY Zenon DEF IInv, TypeOK
  <2>2. obj' = obj \/ obj' = [obj EXCEPT ![k] = Missing]
    BY Zenon DEF DeleteRemove, Change
  <2>3. QED BY <1>1, <2>1, <2>2, Zenon DEF Present
<1> HIDE DEF k
<1>4. ASSUME NEW l \in Listing, Come(l)
      PROVE  without(l) \in Listing /\ without(l).steady = l.steady \ {k} /\ Come(without(l))
  <2>1. without(l) \in Listing
    BY Zenon DEF Listing
  <2>2. /\ without(l).pc = l.pc /\ without(l).after = l.after /\ without(l).names = l.names
        /\ without(l).found = l.found /\ without(l).steady = l.steady \ {k}
    BY Zenon DEF Listing
  <2> HIDE DEF without
  <2>3. QED BY <1>4, <2>1, <2>2, Zenon DEF Come
<1> HIDE DEF without
<1>5. \A q \in Procs : listing[q] \in Listing /\ Come(listing[q]) /\ listing[q].steady \subseteq Present
  BY Zenon DEF LInv
<1>6. \A q \in Procs : listing'[q] = without(listing[q])
  BY <1>2, Zenon
<1>7. listing' \in [Procs -> Listing]
  BY <1>2, <1>4, <1>5, Zenon
<1>8. \A q \in Procs : listing'[q].steady \subseteq Present' /\ Come(listing'[q])
  BY <1>3, <1>4, <1>5, <1>6, Zenon
<1>9. \A q \in Procs : Come(listing[q])' <=> Come(listing'[q])
  BY Zenon DEF Come, InOrder, Shows
<1>10. QED BY <1>7, <1>8, <1>9, Zenon DEF LInv

\* A crash ends every listing.
LEMMA NoListings ==
  ASSUME listing = [p \in Procs |-> NoList]
  PROVE  LInv
<1>1. listing \in [Procs -> Listing] /\ \A p \in Procs : listing[p] = NoList
  BY NoListComes, Zenon
<1>2. QED BY <1>1, NoListComes, Zenon DEF LInv

LEMMA CrashKeeps ==
  ASSUME Crash
  PROVE  LInv'
<1>1. listing' \in [Procs -> Listing] /\ \A p \in Procs : listing'[p] = NoList
  BY NoListComes, Zenon DEF Crash
<1>2. \A q \in Procs : Come(listing[q])' <=> Come(listing'[q])
  BY Zenon DEF Come, InOrder, Shows
<1>3. QED BY <1>1, <1>2, NoListComes, Zenon DEF LInv

\* Nothing goes away while puts are served: what is written is never Missing.
LEMMA Appears ==
  ASSUME IInv, listing' = listing, LInv,
         obj' = obj \/ \E k \in Keys, v \in Contents : obj' = [obj EXCEPT ![k] = v]
  PROVE  LInv'
<1>1. Present \subseteq Present'
  BY StoreValid, ZenonT(60) DEF Present, IInv, TypeOK
<1>2. \A q \in Procs : Come(listing[q])' <=> Come(listing[q])
  BY DEF Come, InOrder, Shows
<1>3. QED BY <1>1, <1>2, Zenon DEF LInv

LEMMA NextListings == IInv /\ LInv /\ [Next]_vars => LInv'
<1> SUFFICES ASSUME IInv, LInv, [Next]_vars PROVE LInv' BY Zenon
<1>1. ASSUME NEW p \in Procs, Commit(p) \/ Send(p) PROVE LInv'
  <2>1. req[p].key \in Keys /\ req[p].body \in Contents
    BY <1>1, Zenon DEF IInv, Requests, Asked, Commit, Send, At
  <2>2. listing' = listing /\ (obj' = obj \/ obj' = [obj EXCEPT ![req[p].key] = req[p].body])
    BY <1>1, Zenon DEF Commit, Send, Change
  <2>3. QED BY <2>1, <2>2, Appears, Zenon
<1>2. ASSUME NEW p \in Procs, WriteTemp(p) \/ SyncDir(p) \/ Stat(p) \/ Spool(p) \/ Sent(p)
      PROVE  LInv'
  BY <1>2, Appears, Zenon DEF WriteTemp, SyncDir, Stat, Spool, Sent
<1>3. ASSUME NEW p \in Procs, DeviceAsks(p) \/ OwnerAsks(p) \/ DeleteStat(p) \/ Age(p) PROVE LInv'
  BY <1>3, Appears, Zenon DEF DeviceAsks, OwnerAsks, DeleteStat, Age
<1>4. CASE sweepTemp \/ WriteBack \/ UNCHANGED vars
  BY <1>4, Appears, Zenon DEF sweepTemp, WriteBack, vars
<1>5. QED BY ZenonT(60), <1>1, <1>2, <1>3, <1>4, DeleteRemoveKeeps, CrashKeeps, ListStartKeeps, ListReadKeeps, ListInfoKeeps,
             ListDoneKeeps DEF Next, PutStep

\* For any number of keys and any page size: a listing that is over shows its keys once and in
\* order, and every key that was there from its first page to its last, however puts, removals
\* and the skipping of entries that are gone came between its pages.
THEOREM ListingsAreComplete == Spec => []ListComplete
<1>1. Init => LInv
  BY NoListings, Zenon DEF Init
<1>2. LInv => ListComplete
  BY Zenon DEF LInv, Come, InOrder, Shows, ListComplete
<1>3. QED BY <1>1, <1>2, NextListings, StoreInvariant, PTL DEF Spec
=============================================================================
