--------------------------- MODULE ContentManager ---------------------------
(* The write side of the backup engine's content store: the WriteManager of  *)
(* repo/content/content_manager.go with its sessions.  Several goroutines of  *)
(* one client add contents to packs, packs are uploaded with or without the   *)
(* manager's lock, a pack that failed is kept and retried, and Flush makes    *)
(* everything durable by writing the index that names the packs.              *)
(*                                                                            *)
(* bm.mu is the variable mu, the condition variable the set asleep of         *)
(* goroutines that wait for the next Broadcast.  A critical section that does *)
(* not wait is one step; Flush keeps the lock over its storage calls and is   *)
(* one step per call, so that every state another client of the storage, or   *)
(* the next process after a crash, can see is a state of the model.  A pack's *)
(* bytes, the size at which it is full and the ten minutes after which a      *)
(* write flushes are abstracted to choices; time stands still, the hardest    *)
(* case for contentWriteTime.                                                 *)
EXTENDS Naturals, Sequences, FiniteSets

CONSTANTS
  Procs,        \* the goroutines that share one WriteManager
  Contents,     \* content identifiers
  Prefixes,     \* pack prefixes: data packs and metadata packs
  PrefixOf,     \* packPrefixForContentID
  Plans,        \* what the goroutines may be asked to do: Procs -> Seq(Op)
  Now,          \* the clock, in seconds
  Existing,     \* the index when the behaviour starts: Contents -> Info
  MaxPacks,     \* bound: packs created in one behaviour
  MaxSessions,  \* bound: sessions started in one behaviour
  MaxFaults     \* bound: storage calls that fail in one behaviour

VARIABLES
  mu,           \* the holder of bm.mu, or NoProc
  asleep,       \* goroutines inside bm.cond.Wait()
  flushing,     \* bm.flushing
  disabled,     \* bm.disableIndexFlushCount
  packs,        \* every pendingPackInfo: its prefix, session and items
  created,      \* packs created so far
  pendingPacks, \* prefix -> pack being filled, or 0
  writingPacks, \* packs being written
  failedPacks,  \* packs whose write failed; a retry takes them in any order
  builder,      \* bm.packIndexBuilder
  session,      \* currentSessionInfo.ID (0 is "") and its marker blobs
  committed,    \* committedContents: the index this client reads
  stored,       \* storage: pack blobs
  index,        \* storage: what the index blobs say
  markers,      \* storage: session marker blobs
  proc,         \* goroutine -> where it is in its operation
  faults,       \* storage calls that failed so far
  promised,     \* contents a completed call promised to keep
  everFailed    \* packs and sessions a storage call failed for

(* The packs being filled.                                                    *)
filling == <<packs, created, pendingPacks>>
manager == <<mu, asleep, flushing, disabled, filling,
             writingPacks, failedPacks, builder, session, committed>>
storage == <<stored, index, markers>>
history == <<faults, promised, everFailed>>
vars == <<manager, storage, proc, history>>

NoProc == "none"
PackIds == 1..MaxPacks
Kinds == {"write", "rewrite", "undelete", "delete", "flush", "hold"}
Op == [kind : Kinds, content : Contents]

(* An index entry.  Absent stands for a content the index does not know;      *)
(* pack 0 is the pack of the contents that exist before the behaviour starts. *)
Info == [pack : 0..MaxPacks, deleted : BOOLEAN, time : 0..(Now + 6)]
Absent == [pack |-> 0, deleted |-> TRUE, time |-> 0]
Live(i) == i # Absent /\ ~i.deleted

(* contentInfoGreaterThanStruct: the entry the merged index resolves to.      *)
Greater(a, b) ==
  \/ a.time > b.time
  \/ a.time = b.time /\ ~a.deleted /\ b.deleted
  \/ a.time = b.time /\ a.deleted = b.deleted /\ a.pack > b.pack

(* Builder.Add for every item of a pack.                                      *)
AddItems(b, items) ==
  [c \in Contents |-> IF items[c] # Absent /\ (b[c] = Absent \/ Greater(items[c], b[c]))
                        THEN items[c] ELSE b[c]]

(* max(now, previous + 1)                                                     *)
contentWriteTime(previous) == IF Now > previous THEN Now ELSE previous + 1

-----------------------------------------------------------------------------
(* Reads                                                                      *)

Open == {pendingPacks[x] : x \in Prefixes} \ {0}
Holding(S, c) == {k \in S : packs[k].items[c] # Absent}
Pick(S) == CHOOSE k \in S : TRUE

(* A mutant of getContentInfo: packs being written are not looked at          *)
getContentInfoBlind(c) ==
  IF Holding(Open, c) # {} THEN packs[Pick(Holding(Open, c))].items[c]
  ELSE IF builder[c] # Absent THEN builder[c]
  ELSE committed[c]

(* getOverlayContentInfoReadLocked, then the committed index; failed packs    *)
(* are not looked at.                                                         *)
getContentInfo(c) ==
  IF Holding(Open, c) # {} THEN packs[Pick(Holding(Open, c))].items[c]
  ELSE IF Holding(writingPacks, c) # {} THEN packs[Pick(Holding(writingPacks, c))].items[c]
  ELSE IF builder[c] # Absent THEN builder[c]
  ELSE committed[c]

(* getContentDataReadLocked: from the pack in memory in which it was found,   *)
(* or from the pack blob.                                                     *)
Readable(c) ==
  LET i == getContentInfo(c)
  IN /\ i # Absent
     /\ \/ i.pack \in stored
        \/ \E k \in Holding(Open \union writingPacks, c) : k = i.pack /\ packs[k].items[c] = i

-----------------------------------------------------------------------------
(* Goroutines                                                                 *)

(* plan: operations left, first the current one; pc: where it is in it; todo: *)
(* the copy of failedPacks it retries; prev: previousWriteTime, -1 when       *)
(* isNew; deleted: the status the new entry gets; pack and failed: the pack   *)
(* it uploads and how that went; began: what was promised when its Flush      *)
(* took the lock.                                                             *)
Fresh(plan) == [plan |-> plan, pc |-> "start", todo |-> {}, prev |-> 0,
                isNew |-> FALSE, deleted |-> FALSE, pack |-> 0,
                failed |-> FALSE, began |-> {}]

Kind(p) == Head(proc[p].plan).kind
Target(p) == Head(proc[p].plan).content
At(p, pc) == proc[p].plan # <<>> /\ proc[p].pc = pc /\ p \notin asleep
Free == mu = NoProc

Return(p) == proc' = [proc EXCEPT ![p] = Fresh(Tail(proc[p].plan))]

(* WriteContent or UndeleteContent returned success.                          *)
Acknowledge(p) ==
  /\ Return(p)
  /\ promised' = IF Kind(p) = "rewrite" THEN promised ELSE promised \union {Target(p)}

(* The storage call of this step fails, on a pack or a session marker.        *)
Fault(what) ==
  /\ faults < MaxFaults
  /\ faults' = faults + 1
  /\ everFailed' = everFailed \union {what}
NoFault == UNCHANGED <<faults, everFailed>>

Sleep(p) == asleep' = asleep \union {p}
Broadcast == asleep' = {}

-----------------------------------------------------------------------------
(* Packs and sessions                                                         *)

(* The bytes of a pack with entries for contents of other packs alone (only   *)
(* deletions) are dropped; a pack whose items were all taken back keeps its.  *)
HasData(k) ==
  LET items == {packs[k].items[c] : c \in Contents} \ {Absent}
  IN  items = {} \/ \E i \in items : i.pack = k

(* prepareAndWritePackInternal: the blob is written, or the call fails and    *)
(* the blob may have been written all the same.                               *)
PutPack(k, ok) ==
  /\ IF HasData(k) THEN \E kept \in IF ok THEN {TRUE} ELSE BOOLEAN :
                           stored' = IF kept THEN stored \union {k} ELSE stored
                   ELSE UNCHANGED stored /\ ok
  /\ IF ok THEN NoFault ELSE Fault(<<"pack", k>>)

(* A mutant of ProcessResult: a pack that failed is not kept for a retry      *)
ProcessResultDrop(k, ok) ==
  /\ writingPacks' = writingPacks \ {k}
  /\ failedPacks' = failedPacks \ {k}
  /\ builder' = IF ok THEN AddItems(builder, packs[k].items) ELSE builder
  /\ Broadcast

(* A mutant of ProcessResult: nobody is told that the pack is written         *)
ProcessResultSilent(k, ok) ==
  /\ writingPacks' = writingPacks \ {k}
  /\ failedPacks' = IF ok THEN failedPacks \ {k} ELSE failedPacks \union {k}
  /\ builder' = IF ok THEN AddItems(builder, packs[k].items) ELSE builder
  /\ UNCHANGED asleep

(* A mutant of ProcessResult: the items of a failed pack are indexed too      *)
ProcessResultAlways(k, ok) ==
  /\ writingPacks' = writingPacks \ {k}
  /\ failedPacks' = IF ok THEN failedPacks \ {k} ELSE failedPacks \union {k}
  /\ builder' = AddItems(builder, packs[k].items)
  /\ Broadcast

(* processWritePackResultLocked                                               *)
ProcessResult(k, ok) ==
  /\ writingPacks' = writingPacks \ {k}
  /\ failedPacks' = IF ok THEN failedPacks \ {k} ELSE failedPacks \union {k}
  /\ builder' = IF ok THEN AddItems(builder, packs[k].items) ELSE builder
  /\ Broadcast

(* getOrStartSessionLocked: the session has its identifier before its marker  *)
(* is written, and keeps it when that write fails.                            *)
StartSession(ok) ==
  IF session.id # 0
    THEN ok /\ UNCHANGED <<session, markers>> /\ NoFault
    ELSE LET s == session.started + 1
         IN /\ s <= MaxSessions
            /\ session' = [id |-> s, started |-> s, marked |-> ok]
            /\ \E put \in IF ok THEN {TRUE} ELSE BOOLEAN :
                  markers' = IF put THEN markers \union {s} ELSE markers
            /\ IF ok THEN NoFault ELSE Fault(<<"session", s>>)

NoItems == [c \in Contents |-> Absent]

(* getOrCreatePendingPackInfoLocked, the item for content c in that pack k,   *)
(* and, when that filled the pack, its move from pendingPacks to writingPacks *)
PutItem(c, k, item, full) ==
  /\ packs' = IF pendingPacks[PrefixOf[c]] # 0
                THEN [packs EXCEPT ![k].items[c] = item]
                ELSE [packs EXCEPT ![k] = [session |-> session'.id,
                                           items |-> [NoItems EXCEPT ![c] = item]]]
  /\ pendingPacks' = [pendingPacks EXCEPT ![PrefixOf[c]] = IF full THEN 0 ELSE k]
  /\ writingPacks' = IF full THEN writingPacks \union {k} ELSE writingPacks
  /\ created' = IF pendingPacks[PrefixOf[c]] # 0 THEN created ELSE k

(* The pack an item for c goes to; creating it takes a session, unless there  *)
(* is a pack for the prefix already.                                          *)
PackFor(c, k, ok) ==
  IF pendingPacks[PrefixOf[c]] # 0
    THEN k = pendingPacks[PrefixOf[c]] /\ ok /\ NoFault /\ UNCHANGED <<session, markers>>
    ELSE k = created + 1 /\ k <= MaxPacks /\ StartSession(ok)

-----------------------------------------------------------------------------
(* WriteContent, RewriteContent and UndeleteContent                           *)

(* maybeRetryWritingFailedPacksUnlocked: takes the lock unless a flush is on. *)
StartWrite(p) ==
  /\ At(p, "start") /\ Kind(p) = "write" /\ Free
  /\ IF flushing
       THEN Sleep(p) /\ UNCHANGED <<mu, proc>>
       ELSE /\ proc' = [proc EXCEPT ![p].pc = "retry", ![p].todo = failedPacks]
            /\ mu' = p
            /\ UNCHANGED asleep
  /\ UNCHANGED <<flushing, disabled, filling, writingPacks, failedPacks,
                 builder, session, committed, storage, history>>

(* The read-locked look at what the index knows of the content.  A write is   *)
(* done if it is there and not deleted.  The check of flushPackIndexesAfter   *)
(* that follows decides, by the clock, whether this goroutine flushes first.  *)
LookFirst(p) ==
  LET i == getContentInfo(Target(p))
      next(r) == \E pc \in {"add", "flush"} : proc' = [proc EXCEPT ![p] = [r EXCEPT !.pc = pc]]
  IN CASE Kind(p) = "write" /\ Live(i) -> Acknowledge(p)
       [] Kind(p) = "write" /\ ~Live(i) ->
            /\ next([proc[p] EXCEPT !.isNew = (i = Absent), !.prev = i.time])
            /\ UNCHANGED promised
       [] Kind(p) = "undelete" /\ Readable(Target(p)) /\ ~i.deleted -> Acknowledge(p)
       [] Kind(p) # "write" /\ Readable(Target(p)) /\ (Kind(p) = "rewrite" \/ i.deleted) ->
            /\ next([proc[p] EXCEPT !.prev = i.time,
                                    !.deleted = (Kind(p) = "rewrite" /\ i.deleted)])
            /\ UNCHANGED promised
       [] OTHER -> Return(p) /\ UNCHANGED promised

(* The end of maybeRetryWritingFailedPacksUnlocked, then the look.            *)
UnlockAfterRetry(p) ==
  /\ At(p, "retry") /\ mu = p /\ proc[p].todo = {}
  /\ mu' = NoProc
  /\ proc' = [proc EXCEPT ![p].pc = "look"]
  /\ UNCHANGED <<asleep, flushing, disabled, filling, writingPacks, failedPacks,
                 builder, session, committed, storage, history>>

Look(p) ==
  /\ \/ At(p, "look")
     \/ At(p, "start") /\ Kind(p) \in {"rewrite", "undelete"}
  /\ Free
  /\ LookFirst(p)
  /\ UNCHANGED <<manager, storage, faults, everFailed>>

(* addToPackUnlocked takes the lock.  A content the first look did not find   *)
(* and that is there now needs no write; otherwise wait out any flush.        *)
Add(p) ==
  /\ At(p, "add") \/ At(p, "wait")
  /\ Free
  /\ IF proc[p].pc = "add" /\ proc[p].isNew /\ getContentInfo(Target(p)) # Absent
       THEN Acknowledge(p) /\ UNCHANGED <<mu, asleep>>
     ELSE IF flushing
       THEN /\ proc' = [proc EXCEPT ![p].pc = "wait"]
            /\ Sleep(p)
            /\ UNCHANGED <<mu, promised>>
     ELSE /\ proc' = [proc EXCEPT ![p].pc = "readd", ![p].todo = failedPacks]
          /\ mu' = p
          /\ UNCHANGED <<asleep, promised>>
  /\ UNCHANGED <<flushing, disabled, filling, writingPacks, failedPacks,
                 builder, session, committed, storage, faults, everFailed>>

(* The rest of addToPackUnlocked under the lock: append to the pending pack;  *)
(* if that filled it, take it out to upload it without the lock.              *)
AddToPack(p) ==
  LET r == proc[p]
      item(k) == [pack |-> k, deleted |-> r.deleted,
                  time |-> contentWriteTime(r.prev)]
  IN /\ At(p, "readd") /\ mu = p /\ r.todo = {}
     /\ mu' = NoProc
     /\ \E k \in PackIds, ok \in BOOLEAN :
          /\ PackFor(Target(p), k, ok)
          /\ \/ /\ ~ok
                /\ Return(p)
                /\ UNCHANGED <<filling, writingPacks, promised>>
             \/ /\ ok
                /\ PutItem(Target(p), k, item(k), FALSE)
                /\ Acknowledge(p)
             \/ /\ ok
                /\ PutItem(Target(p), k, item(k), TRUE)
                /\ proc' = [proc EXCEPT ![p].pc = "upload", ![p].pack = k]
                /\ UNCHANGED promised
     /\ UNCHANGED <<asleep, flushing, disabled, failedPacks, builder, committed, stored, index>>

(* writePackAndAddToIndexUnlocked: the upload without the lock ...            *)
Upload(p) ==
  /\ At(p, "upload")
  /\ \E ok \in BOOLEAN :
       /\ PutPack(proc[p].pack, ok)
       /\ proc' = [proc EXCEPT ![p].pc = "uploaded", ![p].failed = ~ok]
  /\ UNCHANGED <<manager, index, markers, promised>>

(* ... and its result with the lock.                                          *)
UploadResult(p) ==
  /\ At(p, "uploaded") /\ Free
  /\ ProcessResult(proc[p].pack, ~proc[p].failed)
  /\ IF proc[p].failed THEN Return(p) /\ UNCHANGED promised ELSE Acknowledge(p)
  /\ UNCHANGED <<mu, flushing, disabled, filling, session, committed,
                 storage, faults, everFailed>>

-----------------------------------------------------------------------------
(* Flush                                                                      *)

(* Flush returns: the deferred calls clear flushing, wake everyone, unlock.   *)
(* A write that flushed because of the clock goes on only after a success.    *)
FlushReturn(p, ok) ==
  /\ mu' = NoProc
  /\ flushing' = FALSE
  /\ Broadcast
  /\ proc' = [proc EXCEPT ![p] = IF Kind(p) # "flush" /\ ok
                                   THEN [@ EXCEPT !.pc = "add", !.began = {}]
                                   ELSE Fresh(Tail(@.plan))]

(* A mutant of FlushBegin: the session is over before its packs are indexed   *)
FlushBeginCommitted(p) ==
  /\ At(p, "flush") \/ (At(p, "start") /\ Kind(p) = "flush")
  /\ Free
  /\ mu' = p
  /\ flushing' = TRUE
  /\ proc' = [proc EXCEPT ![p].pc = "refail", ![p].todo = failedPacks, ![p].began = promised]
  /\ markers' = markers \ {session.id}
  /\ session' = [session EXCEPT !.id = 0, !.marked = FALSE]
  /\ UNCHANGED <<asleep, disabled, filling, writingPacks, failedPacks,
                 builder, committed, stored, index, history>>

FlushBegin(p) ==
  /\ At(p, "flush") \/ (At(p, "start") /\ Kind(p) = "flush")
  /\ Free
  /\ mu' = p
  /\ flushing' = TRUE
  /\ proc' = [proc EXCEPT ![p].pc = "refail", ![p].todo = failedPacks, ![p].began = promised]
  /\ UNCHANGED <<asleep, disabled, filling, writingPacks, failedPacks,
                 builder, session, committed, storage, history>>

(* One round of the loop over a copy of failedPacks, in WriteContent, in      *)
(* addToPackUnlocked and in Flush.  The first failure ends the caller.        *)
RetryFailed(p) ==
  /\ \E pc \in {"retry", "readd", "refail"} : At(p, pc)
  /\ mu = p
  /\ \E k \in proc[p].todo, ok \in BOOLEAN :
       /\ PutPack(k, ok)
       /\ ProcessResult(k, ok)
       /\ IF ok THEN /\ proc' = [proc EXCEPT ![p].todo = @ \ {k}]
                     /\ UNCHANGED <<mu, flushing>>
          ELSE IF proc[p].pc = "refail" THEN FlushReturn(p, FALSE)
          ELSE Return(p) /\ mu' = NoProc /\ UNCHANGED flushing
  /\ UNCHANGED <<disabled, filling, session, committed, index, markers, promised>>

(* A mutant of Drain: Flush does not wait for uploads in other goroutines     *)
DrainAtOnce(p) ==
  /\ \/ At(p, "refail") /\ mu = p /\ proc[p].todo = {}
     \/ At(p, "drain") /\ Free
  /\ mu' = p /\ UNCHANGED asleep /\ proc' = [proc EXCEPT ![p].pc = "finish"]
  /\ UNCHANGED <<flushing, disabled, filling, writingPacks, failedPacks,
                 builder, session, committed, storage, history>>

(* Wait for the packs that other goroutines are writing.                      *)
Drain(p) ==
  /\ \/ At(p, "refail") /\ mu = p /\ proc[p].todo = {}
     \/ At(p, "drain") /\ Free
  /\ IF writingPacks # {}
       THEN mu' = NoProc /\ Sleep(p) /\ proc' = [proc EXCEPT ![p].pc = "drain"]
       ELSE mu' = p /\ UNCHANGED asleep /\ proc' = [proc EXCEPT ![p].pc = "finish"]
  /\ UNCHANGED <<flushing, disabled, filling, writingPacks, failedPacks,
                 builder, session, committed, storage, history>>

(* finishAllPacksLocked, one pending pack at a time.                          *)
FinishPack(p) ==
  /\ At(p, "finish") /\ mu = p
  /\ \E x \in Prefixes, ok \in BOOLEAN :
       /\ pendingPacks[x] # 0
       /\ pendingPacks' = [pendingPacks EXCEPT ![x] = 0]
       /\ PutPack(pendingPacks[x], ok)
       /\ ProcessResult(pendingPacks[x], ok)
       /\ IF ok THEN UNCHANGED <<mu, flushing, proc>> ELSE FlushReturn(p, FALSE)
  /\ UNCHANGED <<disabled, packs, created, session, committed, index, markers, promised>>

(* flushPackIndexesLocked: write the index blob, unless flushes of the index  *)
(* are disabled or there is nothing to write.                                 *)
WriteIndex(p) ==
  /\ At(p, "finish") /\ mu = p /\ Open = {}
  /\ IF disabled > 0 \/ builder = NoItems
       THEN FlushReturn(p, TRUE) /\ UNCHANGED index /\ NoFault
       ELSE \/ /\ index' = AddItems(index, builder)
               /\ proc' = [proc EXCEPT ![p].pc = "commit"]
               /\ UNCHANGED <<mu, flushing, asleep>> /\ NoFault
            \/ /\ Fault(<<"index", 0>>)
               /\ index' \in {index, AddItems(index, builder)}
               /\ FlushReturn(p, FALSE)
  /\ UNCHANGED <<disabled, filling, writingPacks, failedPacks, builder, session,
                 committed, stored, markers, promised>>

(* commitSession: delete the marker, forget the session.                      *)
CommitSession(p) ==
  /\ At(p, "commit") /\ mu = p
  /\ \/ /\ markers' = IF session.marked THEN markers \ {session.id} ELSE markers
        /\ session' = [session EXCEPT !.id = 0, !.marked = FALSE]
        /\ proc' = [proc EXCEPT ![p].pc = "publish"]
        /\ UNCHANGED <<mu, flushing, asleep>> /\ NoFault
     \/ /\ session.marked
        /\ Fault(<<"session", session.id>>)
        /\ markers' \in {markers, markers \ {session.id}}
        /\ FlushReturn(p, FALSE)
        /\ UNCHANGED session
  /\ UNCHANGED <<disabled, filling, writingPacks, failedPacks, builder,
                 committed, stored, index, promised>>

(* committedContents.addIndexBlob, then the builder starts empty.             *)
PublishIndex(p) ==
  /\ At(p, "publish") /\ mu = p
  /\ \/ /\ committed' = AddItems(committed, builder)
        /\ builder' = NoItems
        /\ FlushReturn(p, TRUE) /\ NoFault
     \/ /\ Fault(<<"cache", 0>>)
        /\ FlushReturn(p, FALSE)
        /\ UNCHANGED <<committed, builder>>
  /\ UNCHANGED <<disabled, filling, writingPacks, failedPacks, session,
                 storage, promised>>

-----------------------------------------------------------------------------
(* The other operations                                                       *)

(* DeleteContent: a pending item is taken back; of an item that is being      *)
(* written, built or committed a deletion entry, one second younger, is added *)
(* to the pending pack.                                                       *)
Delete(p) ==
  LET c == Target(p)
      pending == {k \in Holding(Open, c) : ~packs[k].items[c].deleted}
      writing == {k \in Holding(writingPacks, c) : ~packs[k].items[c].deleted}
      i == IF writing # {} THEN packs[Pick(writing)].items[c]
           ELSE IF builder[c] # Absent THEN builder[c] ELSE committed[c]
  IN /\ At(p, "start") /\ Kind(p) = "delete" /\ Free
     /\ Return(p)
     /\ \/ /\ pending # {}
           /\ packs' = [packs EXCEPT ![Pick(pending)].items[c] = Absent]
           /\ promised' = promised \ {c}
           /\ UNCHANGED <<created, pendingPacks, writingPacks, session, markers>> /\ NoFault
        \/ /\ pending = {} /\ ~Live(i)
           /\ promised' = IF i = Absent THEN promised ELSE promised \ {c}
           /\ UNCHANGED <<filling, writingPacks, session, markers>> /\ NoFault
        \/ /\ pending = {} /\ Live(i)
           /\ \E k \in PackIds, ok \in BOOLEAN :
                /\ PackFor(c, k, ok)
                /\ IF ok
                     THEN /\ PutItem(c, k, [i EXCEPT !.deleted = TRUE,
                                                     !.time = contentWriteTime(i.time)], FALSE)
                          /\ promised' = promised \ {c}
                     ELSE UNCHANGED <<filling, writingPacks, promised>>
     /\ UNCHANGED <<mu, asleep, flushing, disabled, failedPacks, builder, committed,
                    stored, index>>

(* DisableIndexFlush and, later, EnableIndexFlush, as the compaction of       *)
(* manifests brackets its work.                                               *)
Hold(p) ==
  /\ At(p, "start") /\ Kind(p) = "hold" /\ Free
  /\ disabled' = disabled + 1
  /\ proc' = [proc EXCEPT ![p].pc = "held"]
  /\ UNCHANGED <<mu, asleep, flushing, filling, writingPacks, failedPacks,
                 builder, session, committed, storage, history>>

Release(p) ==
  /\ At(p, "held") /\ Free
  /\ disabled' = disabled - 1
  /\ Return(p)
  /\ UNCHANGED <<mu, asleep, flushing, filling, writingPacks, failedPacks,
                 builder, session, committed, storage, history>>

-----------------------------------------------------------------------------

Init ==
  /\ mu = NoProc /\ asleep = {} /\ flushing = FALSE /\ disabled = 0
  /\ packs = [k \in PackIds |-> [session |-> 0, items |-> NoItems]]
  /\ created = 0
  /\ pendingPacks = [x \in Prefixes |-> 0]
  /\ writingPacks = {} /\ failedPacks = {}
  /\ builder = NoItems
  /\ session = [id |-> 0, started |-> 0, marked |-> FALSE]
  /\ committed = Existing
  /\ stored = {0} /\ index = Existing /\ markers = {}
  /\ \E plan \in Plans : proc = [p \in Procs |-> Fresh(plan[p])]
  /\ faults = 0 /\ everFailed = {}
  /\ promised = {c \in Contents : Live(Existing[c])}

Step(p) ==
  \/ StartWrite(p) \/ UnlockAfterRetry(p) \/ Look(p) \/ Add(p) \/ AddToPack(p)
  \/ Upload(p) \/ UploadResult(p)
  \/ FlushBegin(p) \/ RetryFailed(p) \/ Drain(p) \/ FinishPack(p)
  \/ WriteIndex(p) \/ CommitSession(p) \/ PublishIndex(p)
  \/ Delete(p) \/ Hold(p) \/ Release(p)

Next == \E p \in Procs : Step(p)

(* A goroutine that can run does, storage calls return, and the mutex is not  *)
(* withheld from one goroutine for ever.                                      *)
Spec == Init /\ [][Next]_vars /\ \A p \in Procs : WF_vars(Step(p))

-----------------------------------------------------------------------------
(* Properties                                                                 *)

(* The manager's state is well formed.                                        *)
TypeOK ==
  /\ mu \in Procs \union {NoProc} /\ asleep \subseteq Procs
  /\ flushing \in BOOLEAN /\ disabled \in 0..Cardinality(Procs)
  /\ packs \in [PackIds -> [session : 0..MaxSessions, items : [Contents -> Info]]]
  /\ created \in 0..MaxPacks /\ pendingPacks \in [Prefixes -> 0..MaxPacks]
  /\ writingPacks \subseteq PackIds /\ failedPacks \subseteq PackIds
  /\ {builder, committed, index} \subseteq [Contents -> Info]
  /\ session \in [id : 0..MaxSessions, started : 0..MaxSessions, marked : BOOLEAN]
  /\ stored \subseteq 0..MaxPacks /\ markers \subseteq 1..MaxSessions
  /\ promised \subseteq Contents /\ faults \in 0..MaxFaults

(* Everything the manager or the storage holds about a content.               *)
Entries(c) ==
  {packs[k].items[c] : k \in Open \union writingPacks \union failedPacks}
    \union {builder[c], index[c]}

(* No write is lost: once WriteContent or UndeleteContent has returned        *)
(* success, and until the content is deleted, the youngest entry for it that  *)
(* the manager or the stored index holds is a live one, whichever uploads     *)
(* failed, in whatever order the packs were written and retried.              *)
NothingForgotten ==
  \A c \in promised :
    \E i \in Entries(c) : Live(i) /\ \A j \in Entries(c) : j # i => Greater(i, j)

(* The index names no content that is not there: at every instant, so also    *)
(* after a crash, the pack of each live entry of the stored index is in the   *)
(* storage and has the content.  It does not hold of deleted entries: a       *)
(* content deleted while the upload of its pack is under way or has failed is *)
(* entered, deleted, with the name of that pack by the flush of another.      *)
IndexedIsStored ==
  \A c \in Contents : Live(index[c]) =>
    /\ index[c].pack \in stored
    /\ index[c].pack # 0 => packs[index[c].pack].items[c] # Absent

(* A session marker protects the packs of the session until the index names   *)
(* them: a stored pack with a content that no index blob mentions yet belongs *)
(* to a session whose marker is there, unless a storage call failed for that  *)
(* pack or that session.                                                      *)
SessionCovers ==
  \A k \in PackIds \intersect stored :
    \/ packs[k].session \in markers
    \/ <<"pack", k>> \in everFailed \/ <<"session", packs[k].session>> \in everFailed
    \/ \A c \in Contents : packs[k].items[c] # Absent => index[c] # Absent

(* A client reads its own writes: a promised content that is in no failed     *)
(* pack is found, not deleted, by a lookup that goes through the pending      *)
(* packs, the packs being written, the builder and the committed index.       *)
ReadYourWrites ==
  \A c \in promised : Holding(failedPacks, c) = {} => Live(getContentInfo(c))

(* Flush of p returns success in this step.                                   *)
FlushSucceeds(p) ==
  /\ proc[p].pc \in {"finish", "publish"}
  /\ mu = p /\ mu' = NoProc
  /\ disabled = 0 /\ failedPacks' = failedPacks
  /\ faults' = faults

(* What Flush had to commit: promised before it took the lock, and not        *)
(* deleted since.                                                             *)
Uncommitted(p) == {c \in proc[p].began \intersect promised : ~Live(index[c])}

(* "Any pending writes completed before Flush() has started are guaranteed to *)
(* be committed to the repository before Flush() returns."                    *)
FlushCommits ==
  [][\A p \in Procs : FlushSucceeds(p) => Uncommitted(p) = {}]_vars

(* What Flush does guarantee: a write that completed before it began is       *)
(* committed when it returns success, or is held by a pack whose upload, by   *)
(* another goroutine, failed while this Flush was waiting for it.             *)
FlushCommitsUnlessFailed ==
  [][\A p \in Procs : FlushSucceeds(p) =>
       \A c \in Uncommitted(p) : Holding(failedPacks, c) # {}]_vars

(* Every call returns: no goroutine waits for ever on the condition variable  *)
(* or on a lock, although a Flush waits for uploads, uploads' results wait    *)
(* for the lock, and writes wait for the Flush.                               *)
EveryCallReturns == \A p \in Procs : <>(proc[p].plan = <<>>)
=============================================================================
