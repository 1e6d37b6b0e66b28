---------------------------- MODULE EpochManager ----------------------------
(***************************************************************************)
(* The index epochs of a repository: internal/epoch, as used through       *)
(* repo/content/indexblob (ManagerV1) by every process that has the        *)
(* repository open, and by maintenance.                                    *)
(*                                                                         *)
(* The index is a set of blobs in the storage, which the processes share   *)
(* without a lock.  A writer adds an uncompacted blob to the current epoch;*)
(* an epoch marker starts the next epoch; an epoch two behind the current  *)
(* one is settled, may be compacted, and later loses its uncompacted       *)
(* blobs.  Each process works from a snapshot of that state which it holds *)
(* for EpochRefreshFrequency, so safety rests on time: how long a snapshot *)
(* is used, how long an epoch lasts, how old a replacement must be.        *)
(*                                                                         *)
(* Simplifications.  A compaction's shards carry the size of their set in  *)
(* their names and count only when all are there (internal/completeset), so*)
(* a set is one blob.  The four listings that open a refresh are one step. *)
(* Local clocks and the storage's clock agree.  Every blob weighs the same,*)
(* so the count threshold stands for both thresholds.                      *)
(* Only one process runs maintenance, which RunExclusive sees to, and it   *)
(* takes the tasks in any order.                                           *)
(***************************************************************************)
EXTENDS Integers, FiniteSets, FiniteSetsExt

CONSTANTS
  Clients,                       \* the processes that have the repository open
  Shards,                        \* the shards of one index write
  EpochRefreshFrequency, CleanupSafetyMargin, MinEpochDuration,
  FullCheckpointFrequency, EpochAdvanceOnCountThreshold,
  WatermarkTimes,                \* arguments of AdvanceDeletionWatermark
  Plans,                         \* each behaviour follows one: the operations each client
                                 \* performs, how many epochs are compacted at the start,
                                 \* which clients have been writing a blob since the epoch
                                 \* before, how many index writes and compacted sets there are
  Past,                          \* the write epoch at the start
  Instants                       \* bound: the instants at which anything happens

MaintenanceOps == {"advance", "single", "range", "superseded", "markers", "watermark"}
Ops == {"read", "write", "abort"} \cup MaintenanceOps
Maintains(p, c) == p.ops[c] \cap MaintenanceOps # {}

\* What Parameters.Validate asks of the parameters (the count threshold is scaled down).
Validate ==
  /\ EpochRefreshFrequency \in Nat \ {0}
  /\ MinEpochDuration \in Nat /\ MinEpochDuration >= 3 * EpochRefreshFrequency
  /\ CleanupSafetyMargin \in Nat /\ CleanupSafetyMargin >= 3 * EpochRefreshFrequency
  /\ FullCheckpointFrequency \in Nat \ {0}
  /\ EpochAdvanceOnCountThreshold \in Nat \ {0}

ASSUME ParametersValid == Validate
ASSUME InstanceValid ==
  /\ Shards \subseteq Nat /\ Shards # {} /\ WatermarkTimes \subseteq Nat \ {0}
  /\ \A p \in Plans :
       /\ p.ops \in [Clients -> SUBSET Ops]
       /\ p.slow \subseteq Clients /\ (\A c, d \in p.slow : c = d)
       /\ p.compacted \in 0 .. Past - 1 /\ p.sets \in Nat
       /\ p.writes \in Nat /\ (p.slow # {} => p.writes > 0)
       /\ \A c, d \in Clients : Maintains(p, c) /\ Maintains(p, d) => c = d
  /\ Past \in Nat \ {0} /\ Instants \subseteq Nat

VARIABLES
  now,      \* the clock
  index,    \* the index blobs in the storage
  markers,  \* the epochs that have a marker blob
  marks,    \* the deletion watermark blobs
  state,    \* per client, lastKnownState
  load,     \* per client, the snapshot a refresh is assembling, or NoLoad
  job,      \* per client, the operation in progress
  writes,   \* how many index writes have begun
  acked,    \* history: the entries whose WriteIndex returned without an error
  plan      \* the operations this behaviour performs

vars == <<now, index, markers, marks, state, load, job, writes, acked, plan>>

(***************************************************************************)
(* Index blobs: xn of one epoch, xs a compacted epoch, xr a range.         *)
(***************************************************************************)
Blob(type, lo, hi, entries) ==
  [type |-> type, lo |-> lo, hi |-> hi, entries |-> entries, ts |-> now]

OfType(S, t) == {b \in S : b.type = t}
Uncompacted(S, e) == {b \in S : b.type = "xn" /\ b.lo = e}
Entries(S) == UNION {b.entries : b \in S}
Top(S) == Max(S \cup {0})

\* completeset.FindFirst: one complete set per epoch (or range), whichever is listed first.
FindFirst(S) ==
  {P \in SUBSET S : \A b \in S : \E p \in P : {q \in P : q.lo = b.lo /\ q.hi = b.hi} = {p}}

\* Ranges that follow each other from epoch 0.
Chains(S) ==
  {P \in SUBSET S : \A b \in P : /\ b.lo = 0 \/ (\E p \in P : p.hi + 1 = b.lo)
                                 /\ \A p \in P : p.lo = b.lo => p = b}
End(P) == Top({b.hi : b \in P})
\* The chains that reach furthest, and of those the ones with fewest ranges.
findLongestRangeCheckpoint(S) ==
  {P \in Chains(S) : \A Q \in Chains(S) :
      \/ End(Q) < End(P)
      \/ End(Q) = End(P) /\ Cardinality(P) <= Cardinality(Q)}

(***************************************************************************)
(* A snapshot.  sets holds the chosen single-epoch and range compactions,  *)
(* unc the uncompacted blobs of the epochs around the write epoch.  seen   *)
(* is history: what had been acknowledged when the refresh began.          *)
(***************************************************************************)
Invalid == [validUntil |-> -1, writeEpoch |-> 0, sets |-> {}, unc |-> {},
            markers |-> {}, marks |-> {}, seen |-> {}]
NoLoad == Invalid

\* The oldest epoch number whose blobs may still change is writeEpoch - 1.
Settled(cs, e) == e <= cs.writeEpoch - 2
RangeEnd(cs) == IF OfType(cs.sets, "xr") = {} THEN -1 ELSE End(OfType(cs.sets, "xr"))

\* getIndexesFromEpochInternal: epochs the snapshot did not load are listed now.
EpochIndexes(cs, e) ==
  LET single == {b \in cs.sets : b.type = "xs" /\ b.lo = e} IN
  IF Settled(cs, e) /\ single # {} THEN single
  ELSE IF e \in cs.writeEpoch - 1 .. cs.writeEpoch + 1 THEN Uncompacted(cs.unc, e)
  ELSE Uncompacted(index, e)

\* getCompleteIndexSetForCommittedState.
CompleteIndexSet(cs, minEpoch, maxEpoch) ==
  LET ranges == {b \in cs.sets : b.type = "xr" /\ b.hi > minEpoch}
      start == IF ranges = {} THEN minEpoch ELSE End(ranges) + 1
  IN ranges \cup UNION {EpochIndexes(cs, e) : e \in start .. maxEpoch}

Watermark(S) == Top({m.wm : m \in S})

(***************************************************************************)
(* Operations.  op and pc say what a client is doing; the other fields are *)
(* the locals of that operation.                                           *)
(***************************************************************************)
Begin(op, pc, id, hi) ==
  [op |-> op, pc |-> pc, id |-> id, lo |-> -1, hi |-> hi, set |-> {}, first |-> {}]
Idle == Begin("idle", "idle", 0, -1)
At(c, op, pc) == job[c].op = op /\ job[c].pc = pc

\* committedState(ensureMinTime): ensureMinTime is quarters / 4 of the refresh frequency.
Fresh(c, quarters) ==
  4 * now + quarters * EpochRefreshFrequency <= 4 * state[c].validUntil

\* Which remaining validity the operation asks of the snapshot it is about to use.
Ensure(c) == IF job[c].op = "write" /\ job[c].pc = "state" THEN 3 ELSE 0

\* The uncompacted blobs of an epoch that is full, and its compaction two epochs later.
Full(e) == {[type |-> "xn", lo |-> e, hi |-> e, entries |-> {<<-1 - e, i>>},
            ts |-> (e + i) * MinEpochDuration] : i \in {0, 1}}
Compacted(e) == [type |-> "xs", lo |-> e, hi |-> e, entries |-> Entries(Full(e)),
                 ts |-> (e + 2) * MinEpochDuration]

\* A repository with Past + 1 full epochs that every process now opens.
Init ==
  /\ plan \in Plans
  /\ now = (Past + 1) * MinEpochDuration
  /\ index = (UNION {Full(e) : e \in 0 .. Past}) \cup {Compacted(e) : e \in 0 .. plan.compacted - 1}
  /\ markers = 1 .. Past
  /\ marks = {}
  /\ acked = Entries(index)
  /\ state = [c \in Clients |-> IF c \in plan.slow
       THEN [Invalid EXCEPT !.validUntil = Past * MinEpochDuration, !.writeEpoch = Past - 1]
       ELSE Invalid]
  /\ load = [c \in Clients |-> NoLoad]
  /\ job = [c \in Clients |-> IF c \in plan.slow
       THEN [Begin("write", "put", 1, -1) EXCEPT !.lo = Past - 1] ELSE Idle]
  /\ writes = IF plan.slow = {} THEN 0 ELSE 1

Keep(c, j) == job' = [job EXCEPT ![c] = j]
Step(c, pc) == Keep(c, [job[c] EXCEPT !.pc = pc])
Finish(c) == Keep(c, Idle)
Storage == <<index, markers, marks>>

\* Time passes.  An idle client never looks at an expired snapshot again, except to advance the
\* epoch, so the model drops it.
Tick ==
  /\ \E t \in Instants : t > now
  /\ now' = Min({t \in Instants : t > now})
  /\ state' = [c \in Clients |->
       IF job[c] = Idle /\ now' > state[c].validUntil /\ "advance" \notin plan.ops[c]
       THEN Invalid ELSE state[c]]
  /\ UNCHANGED <<Storage, load, job, writes, acked, plan>>

(***************************************************************************)
(* refreshLocked: validUntil is taken first, then the listings, and the    *)
(* snapshot is kept only if it is still valid when they are done.          *)
(***************************************************************************)
\* Of a snapshot the model keeps what the client's operations look at.
Kept(c, cs) ==
  LET uses(ops) == plan.ops[c] \cap ops # {} IN
  [cs EXCEPT !.sets = IF uses({"read", "single", "range", "superseded"}) THEN @ ELSE {},
             !.unc = IF uses({"read", "range", "advance", "superseded", "markers"}) THEN @ ELSE {},
             !.markers = IF uses({"markers"}) THEN @ ELSE {},
             !.marks = IF uses({"markers", "watermark"}) THEN @ ELSE {},
             !.seen = IF uses({"read"}) THEN @ ELSE {}]

MustRefresh(c) == job[c].pc \in {"state", "confirm"} /\ ~Fresh(c, Ensure(c))

\* loadWriteEpoch, loadDeletionWatermark, loadSingleEpochCompactions, loadRangeCheckpoints.
LoadSets(c) ==
  /\ MustRefresh(c) /\ load[c] = NoLoad
  /\ \E singles \in FindFirst(OfType(index, "xs")) :
       \E all \in FindFirst(OfType(index, "xr")) :
         \E ranges \in findLongestRangeCheckpoint(all) :
           load' = [load EXCEPT ![c] = Kept(c,
             [validUntil |-> now + EpochRefreshFrequency, writeEpoch |-> Top(markers),
              sets |-> singles \cup ranges, unc |-> {}, markers |-> markers, marks |-> marks,
              seen |-> acked])]
  /\ UNCHANGED <<now, Storage, state, job, writes, acked, plan>>

\* loadUncompactedEpochs, then the check that the refresh was quick enough.
LoadUncompacted(c) ==
  LET cs == [load[c] EXCEPT !.unc =
               UNION {Uncompacted(index, e) : e \in load[c].writeEpoch - 1 .. load[c].writeEpoch + 1}]
  IN /\ load[c] # NoLoad
     /\ load' = [load EXCEPT ![c] = NoLoad]
     /\ state' = IF now > cs.validUntil THEN state ELSE [state EXCEPT ![c] = Kept(c, cs)]
     /\ UNCHANGED <<now, Storage, job, writes, acked, plan>>

Refresh(c) == LoadSets(c) \/ LoadUncompacted(c)

\* A client begins one of its operations.
Start(c) ==
  /\ job[c] = Idle
  /\ \/ /\ \E op \in plan.ops[c] \ {"write", "abort", "watermark", "advance"} :
             Keep(c, Begin(op, "state", 0, -1))
        /\ UNCHANGED writes
     \/ /\ "write" \in plan.ops[c] /\ writes < plan.writes
        /\ writes' = writes + 1
        /\ Keep(c, Begin("write", "state", writes + 1, -1))
     \/ /\ "watermark" \in plan.ops[c]
        /\ \E t \in WatermarkTimes : Keep(c, Begin("watermark", "state", 0, t))
        /\ UNCHANGED writes
  /\ UNCHANGED <<now, Storage, state, load, acked, plan>>

(***************************************************************************)
(* GetCompleteIndexSet(LatestEpoch).  maxEpoch is fixed by the first       *)
(* attempt.  first is history: what the first snapshot had seen.           *)
(***************************************************************************)
ReadState(c) ==
  /\ At(c, "read", "state") /\ load[c] = NoLoad /\ Fresh(c, 0)
  /\ Keep(c, [job[c] EXCEPT !.pc = "list",
        !.hi = IF @ = -1 THEN state[c].writeEpoch + 1 ELSE @,
        !.first = IF job[c].hi = -1 THEN state[c].seen ELSE @])
  /\ UNCHANGED <<now, Storage, state, load, writes, acked, plan>>

ReadList(c) ==
  /\ At(c, "read", "list")
  /\ Keep(c, [job[c] EXCEPT !.pc = "check", !.set = CompleteIndexSet(state[c], 0, job[c].hi)])
  /\ UNCHANGED <<now, Storage, state, load, writes, acked, plan>>

Returns(c) == At(c, "read", "check") /\ now < state[c].validUntil

ReadCheck(c) ==
  /\ At(c, "read", "check")
  /\ IF Returns(c) THEN Finish(c) ELSE Keep(c, [job[c] EXCEPT !.pc = "state", !.set = {}])
  /\ UNCHANGED <<now, Storage, state, load, writes, acked, plan>>

(***************************************************************************)
(* WriteIndex.  lo is writtenForEpoch, set the shards written so far.      *)
(***************************************************************************)
ShardBlobs(c) == {b \in index : b.type = "xn" /\ b.lo = job[c].lo
                                /\ b.entries \subseteq {<<job[c].id, s>> : s \in job[c].set}}

\* A snapshot with three quarters of its time left; shards written for an epoch that is no
\* longer the write epoch are deleted and written again.  committedState returns the snapshot of
\* a refresh without looking at the clock again; here one that took more than a quarter of the
\* time is repeated, and WriteShard meets its snapshot, as late, after a quick one.
WriteState(c) ==
  /\ At(c, "write", "state") /\ load[c] = NoLoad /\ Fresh(c, 3)
  /\ IF state[c].writeEpoch = job[c].lo
     THEN Step(c, "shard") /\ UNCHANGED index
     ELSE /\ index' = index \ ShardBlobs(c)
          /\ Keep(c, [job[c] EXCEPT !.pc = "shard", !.lo = state[c].writeEpoch, !.set = {}])
  /\ UNCHANGED <<now, markers, marks, state, load, writes, acked, plan>>

\* The check before each shard.  Once all are written the snapshot is invalidated.
WriteShard(c) ==
  /\ At(c, "write", "shard")
  /\ \/ /\ job[c].set = Shards
        /\ state' = [state EXCEPT ![c] = Invalid]
        /\ Step(c, "confirm")
     \/ /\ job[c].set # Shards
        /\ Step(c, IF now < state[c].validUntil THEN "put" ELSE "state")
        /\ UNCHANGED state
  /\ UNCHANGED <<now, Storage, load, writes, acked, plan>>

\* The PutBlob itself may take any time.
WritePut(c) ==
  /\ At(c, "write", "put")
  /\ \E s \in Shards \ job[c].set :
       /\ index' = index \cup {Blob("xn", job[c].lo, job[c].lo, {<<job[c].id, s>>})}
       /\ Keep(c, [job[c] EXCEPT !.pc = "shard", !.set = @ \cup {s}])
  /\ UNCHANGED <<now, markers, marks, state, load, writes, acked, plan>>

\* Mutant: a very slow write is acknowledged like any other.
WriteConfirmAlways(c) ==
  /\ At(c, "write", "confirm") /\ load[c] = NoLoad /\ Fresh(c, 0)
  /\ Finish(c)
  /\ acked' = acked \cup {<<job[c].id, s>> : s \in Shards}
  /\ UNCHANGED <<now, Storage, state, load, writes, plan>>

\* A fresh snapshot decides: two epochs later the write was too slow, its shards are deleted
\* (as far as that succeeds) and the caller gets ErrVerySlowIndexWrite.
WriteConfirm(c) ==
  /\ At(c, "write", "confirm") /\ load[c] = NoLoad /\ Fresh(c, 0)
  /\ Finish(c)
  /\ \/ /\ state[c].writeEpoch < job[c].lo + 2
        /\ acked' = acked \cup {<<job[c].id, s>> : s \in Shards}
        /\ UNCHANGED index
     \/ /\ state[c].writeEpoch >= job[c].lo + 2
        /\ \E S \in SUBSET ShardBlobs(c) : index' = index \ S
        /\ UNCHANGED acked
  /\ UNCHANGED <<now, markers, marks, state, load, writes, plan>>

(***************************************************************************)
(* Maintenance.                                                            *)
(***************************************************************************)
shouldAdvance(bms) ==
  /\ bms # {}
  /\ Max({b.ts : b \in bms}) - Min({b.ts : b \in bms}) >= MinEpochDuration
  /\ Cardinality(bms) >= EpochAdvanceOnCountThreshold

\* MaybeAdvanceWriteEpoch works from lastKnownState, however old it is.
Advance(c) ==
  /\ "advance" \in plan.ops[c] /\ job[c] = Idle
  /\ shouldAdvance(Uncompacted(state[c].unc, state[c].writeEpoch))
  /\ Keep(c, Begin("advance", "put", 0, state[c].writeEpoch + 1))
  /\ UNCHANGED <<now, Storage, state, load, writes, acked, plan>>

AdvanceMarker(c) ==
  /\ At(c, "advance", "put")
  /\ markers' = markers \cup {job[c].hi}
  /\ Finish(c)
  /\ UNCHANGED <<now, index, marks, state, load, writes, acked, plan>>

\* The first epoch after the ranges that has no single-epoch compaction.
oldestUncompactedEpoch(cs) ==
  LET done == {b.lo : b \in OfType(cs.sets, "xs")}
      from == RangeEnd(cs) + 1
  IN Min((from .. Max(done \cup {from}) + 1) \ done)

CompactState(c) ==
  LET e == oldestUncompactedEpoch(state[c]) IN
  /\ At(c, "single", "state") /\ load[c] = NoLoad /\ Fresh(c, 0)
  /\ IF Settled(state[c], e)
     THEN Keep(c, [job[c] EXCEPT !.pc = "list", !.lo = e, !.hi = e])
     ELSE Finish(c)
  /\ UNCHANGED <<now, Storage, state, load, writes, acked, plan>>

CompactList(c) ==
  LET found == Uncompacted(index, job[c].lo) IN
  /\ At(c, "single", "list")
  /\ IF found = {} THEN Finish(c)
     ELSE Keep(c, [job[c] EXCEPT !.pc = "put", !.set = Entries(found)])
  /\ UNCHANGED <<now, Storage, state, load, writes, acked, plan>>

\* getRangeToCompact.
RangeState(c) ==
  LET first == RangeEnd(state[c]) + 1
      latestSettled == state[c].writeEpoch - 2
  IN /\ At(c, "range", "state") /\ load[c] = NoLoad /\ Fresh(c, 0)
     /\ IF latestSettled >= 0 /\ latestSettled - first >= FullCheckpointFrequency
        THEN Keep(c, [job[c] EXCEPT !.pc = "list", !.lo = first, !.hi = latestSettled])
        ELSE Finish(c)
     /\ UNCHANGED <<now, Storage, state, load, writes, acked, plan>>

RangeList(c) ==
  /\ At(c, "range", "list")
  /\ IF now > state[c].validUntil THEN Finish(c)
     ELSE Keep(c, [job[c] EXCEPT !.pc = "put",
            !.set = Entries(CompleteIndexSet(state[c], job[c].lo, job[c].hi))])
  /\ UNCHANGED <<now, Storage, state, load, writes, acked, plan>>

\* CompactEpoch: the merged entries go out under the prefix of the epoch or of the range.
CompactPut(c) ==
  /\ job[c].op \in {"single", "range"} /\ job[c].pc = "put"
  /\ Cardinality(index \ OfType(index, "xn")) < plan.sets
  /\ index' = index \cup {Blob(IF job[c].op = "single" THEN "xs" ELSE "xr",
                               job[c].lo, job[c].hi, job[c].set)}
  /\ Finish(c)
  /\ UNCHANGED <<now, markers, marks, state, load, writes, acked, plan>>

\* Mutant: the margin is added instead of taken off.
MaxReplacementTimeLate(cs) == Max({b.ts : b \in cs.unc}) + CleanupSafetyMargin

\* The storage's clock, as far as the snapshot shows it, less the safety margin.
MaxReplacementTime(cs) == Max({b.ts : b \in cs.unc}) - CleanupSafetyMargin

\* CleanupSupersededIndexes and CleanupMarkers do nothing when the snapshot shows no
\* uncompacted blob to tell the time by.
CleanupState(c) ==
  /\ job[c].op \in {"superseded", "markers"} /\ job[c].pc = "state"
  /\ load[c] = NoLoad /\ Fresh(c, 0)
  /\ IF state[c].unc = {} THEN Finish(c) ELSE Step(c, "delete")
  /\ UNCHANGED <<now, Storage, state, load, writes, acked, plan>>

\* Uncompacted blobs of an epoch whose single-epoch compaction is old enough.
Superseded(cs) ==
  {b \in OfType(index, "xn") : \E s \in cs.sets :
      s.type = "xs" /\ s.lo = b.lo /\ s.ts < MaxReplacementTime(cs)}

\* The deletions run in parallel and may fail part way.
CleanupSupersededIndexes(c) ==
  /\ At(c, "superseded", "delete")
  /\ \E S \in SUBSET Superseded(state[c]) : index' = index \ S
  /\ Finish(c)
  /\ UNCHANGED <<now, markers, marks, state, load, writes, acked, plan>>

\* Mutant: the marker of the current epoch counts as old.
OldMarkersAll(cs) == {e \in cs.markers : e <= cs.writeEpoch}

OldMarkers(cs) == {e \in cs.markers : e < cs.writeEpoch - 1}
OldMarks(cs) == {m \in cs.marks : m.wm # Watermark(cs.marks) /\ m.ts < MaxReplacementTime(cs)}

CleanupMarkers(c) ==
  /\ At(c, "markers", "delete")
  /\ \E E \in SUBSET OldMarkers(state[c]), W \in SUBSET {m.wm : m \in OldMarks(state[c])} :
       markers' = markers \ E /\ marks' = {m \in marks : m.wm \notin W}
  /\ Finish(c)
  /\ UNCHANGED <<now, index, state, load, writes, acked, plan>>

\* AdvanceDeletionWatermark(hi): never to an earlier time than the snapshot shows.
WatermarkState(c) ==
  /\ At(c, "watermark", "state") /\ load[c] = NoLoad /\ Fresh(c, 0)
  /\ IF job[c].hi < Watermark(state[c].marks) THEN Finish(c) ELSE Step(c, "put")
  /\ UNCHANGED <<now, Storage, state, load, writes, acked, plan>>

WatermarkPut(c) ==
  /\ At(c, "watermark", "put")
  /\ marks' = {m \in marks : m.wm # job[c].hi} \cup {[wm |-> job[c].hi, ts |-> now]}
  /\ state' = [state EXCEPT ![c] = Invalid]
  /\ Finish(c)
  /\ UNCHANGED <<now, index, markers, load, writes, acked, plan>>

\* A storage error, a cancelled context or a crash ends a write where it is, without an
\* acknowledgement, and the client may begin another.  (No client is ever obliged to take its
\* next step, so any operation may also end by never going on.)
Abort(c) ==
  /\ "abort" \in plan.ops[c] /\ job[c].op = "write"
  /\ Finish(c)
  /\ load' = [load EXCEPT ![c] = NoLoad]
  /\ state' = [state EXCEPT ![c] = Invalid]
  /\ UNCHANGED <<now, Storage, writes, acked, plan>>

Read(c) == ReadState(c) \/ ReadList(c) \/ ReadCheck(c)
Write(c) == WriteState(c) \/ WriteShard(c) \/ WritePut(c) \/ WriteConfirm(c)
Maintain(c) ==
  \/ Advance(c) \/ AdvanceMarker(c)
  \/ CompactState(c) \/ CompactList(c) \/ RangeState(c) \/ RangeList(c) \/ CompactPut(c)
  \/ CleanupState(c) \/ CleanupSupersededIndexes(c) \/ CleanupMarkers(c)
  \/ WatermarkState(c) \/ WatermarkPut(c)

Next ==
  \/ Tick
  \/ \E c \in Clients : Start(c) \/ Refresh(c) \/ Read(c) \/ Write(c) \/ Maintain(c) \/ Abort(c)

Spec == Init /\ [][Next]_vars

-----------------------------------------------------------------------------
(* Properties. *)

TypeOK ==
  /\ now \in Nat /\ markers \subseteq Nat /\ writes \in 0 .. plan.writes /\ plan \in Plans
  /\ \A b \in index : b.type \in {"xn", "xs", "xr"} /\ 0 <= b.lo /\ b.lo <= b.hi /\ b.ts <= now
  /\ acked \subseteq (UNION {Entries(Full(e)) : e \in 0 .. Past}) \cup ((1 .. plan.writes) \X Shards)
  /\ \A c \in Clients : load[c] = NoLoad \/ job[c].pc \in {"state", "confirm"}

(***************************************************************************)
(* Whoever opens the repository now finds every acknowledged index entry,  *)
(* whichever of several complete sets its listings return first: no       *)
(* combination of slow writes, compactions from stale snapshots and        *)
(* cleanups loses what WriteIndex returned for.                            *)
(***************************************************************************)
NothingLost ==
  \A singles \in FindFirst(OfType(index, "xs")), all \in FindFirst(OfType(index, "xr")) :
    \A ranges \in findLongestRangeCheckpoint(all) :
      LET top == Top(markers)
          cs == [Invalid EXCEPT !.writeEpoch = top, !.sets = singles \cup ranges, !.unc = index]
      IN acked \subseteq Entries(CompleteIndexSet(cs, 0, top + 1))

\* When GetCompleteIndexSet returns, however long its listings took, every entry that was
\* acknowledged before the snapshot of its first attempt is in a blob of the set it returns that
\* is still in the storage: cleanup never deletes what a valid snapshot leads to.  (The shards
\* of a write that gave up may be gone; whoever loads them then asks for a new set.)
ReadsComplete ==
  \A c \in Clients : Returns(c) => job[c].first \subseteq Entries(job[c].set \cap index)

\* "Retrying will re-examine the state of the world and re-do the logic": a set returned after
\* a retry has every entry acknowledged before the snapshot of that retry.
RetryReexamines ==
  \A c \in Clients : Returns(c) => state[c].seen \subseteq Entries(job[c].set)

\* Neither the write epoch nor the deletion watermark that a listing shows ever goes back:
\* cleanups working from old snapshots leave the newest blob of each kind.
NeverBack == [][Top(markers') >= Top(markers) /\ Watermark(marks') >= Watermark(marks)]_vars
=============================================================================
