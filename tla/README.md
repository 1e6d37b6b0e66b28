# WarpHold: TLA+ specifications

WarpHold is a backup fleet: a server (`fleet/`) that enrolls devices, hosts their
repositories behind an S3 gateway, schedules jobs and keeps their secrets; an agent
(`agent/`) on every device that polls the server and drives a local backup engine; and
that engine, a fork of Kopia (`repo/`, `snapshot/`, `internal/`, `fs/`, `cli/`). This
directory holds TLA+ models of the parts where interleavings, crashes and partial
failures decide whether backups exist and can be opened, TLC configurations for small
instances, and proofs checked with TLAPS for every value of the constants.

`PROJECT.json` is the index: components, runs, the source lines of every definition,
the finding, hazards with the properties aimed at them, theorems, and for every checked
property a mutation of the model that breaks it.

## The system and its parts

| part | state | operations | where it is hard | module |
| --- | --- | --- | --- | --- |
| job scheduler (`fleet/jobs/scheduler.go`, `fleet/store/jobs.go`) | jobs table, one goroutine | tick, requeue, enqueue by interval, claim, run, finish; rows inserted by API, CLI and revocation | crash between claim and outcome, refused statements, orphaned claims | `Scheduler` |
| sealing key (`fleet/api/admin_passphrase.go`, `fleet/seal`, `fleet/store/reseal.go`) | salt and sealed columns, two key files, key in memory, gateway's copy | rotation, sealing handlers, gateway construction, recovery at start | crash at every step, lock order, stale copies | `SealRotation` |
| device credentials (`fleet/gateway/keys.go`, `fleet/store/device_keys.go`, `fleet/api/gateway_mount.go`, kit) | key rows, cache with generation and TTL, revoked and retired stamps | lookup, revoke, kit, regenerate, reap | lookups in flight during a revocation, cache staleness | `DeviceAccess` |
| enrollment and removal (`fleet/api/agent_endpoints.go`, `fleet/enroll`, `fleet/jobs/reap.go`) | tokens, agents row, gateway and B2 keys, repository, retention window | enroll with four target kinds, unwind, revoke, reap | client hangs up, failure of one of several steps, races of admins | `Enrollment` |
| agent loop (`agent/run`, `agent/poll`, poll and report endpoints) | policy, ETags, commands, reports, tasks | poll, apply, carry out, report, watch, restart | lost and late answers, overlapping handlers, redelivery | `AgentLoop` |
| gateway object store (`fleet/gateway/local.go`, `handler.go`, `cloud.go`, `blobadapter.go`) | files, temp files, directory entries on disk, buckets | put, delete, paged list, sweep | concurrent puts of one key, loss of power, changes between two pages | `ObjectStore`, `AppendOnly` |
| mirror (`fleet/jobs/mirror.go`) | off-site bucket, hide reservations, record | walk, list, upload, reserve, hide, record | hide budget over several runs, failure half way, a device that writes meanwhile | `Mirror` |
| engine: epochs (`internal/epoch`) | index blobs, epoch markers, watermarks, snapshots of them in every process | read, write, refresh, advance, compact, checkpoint, clean up | several processes with stale views and no lock | `EpochManager` |
| engine: contents (`repo/content/content_manager.go`, sessions) | packs pending, being written and failed, index builder, sessions | write, rewrite, undelete, delete, flush | flush against writers, retries of failed packs | `ContentManager` |
| engine: maintenance (`repo/maintenance`, `snapshot/snapshotgc`) | index entries, packs, session markers, schedule | snapshot GC, rewrite, drop, delete packs | a client that makes snapshots meanwhile, safety margins | `Maintenance` |
| activation, sessions, mail, kit, admin forms | settings, sessions | activate, login, logout | | not modelled |
| engine: format and upgrade lock, caches, sources, policies, upload, restore | various | various | upgrade while clients run | not modelled, or only as the client of `Maintenance` |

How they meet. The scheduler runs the reap, mirror, maintenance, verify and restore-test
jobs: `Scheduler` has them as steps that take time and may fail, and `Enrollment`,
`DeviceAccess` (the reap job), `Mirror` and `Maintenance` say what they do. A revocation
takes credentials (`DeviceAccess`), starts the retention window (`Enrollment`) and inserts
a reap row (`Scheduler`). A rotation replaces the key that opens the bundles enrollment
stores and the keys the gateway serves with (`SealRotation`). The engine on a device
writes packs (`ContentManager`) whose index blobs live in epochs (`EpochManager`), from
which maintenance removes what no snapshot needs (`Maintenance`); all of it is stored as
objects that the gateway keeps (`ObjectStore`) and the server copies off site (`Mirror`).

The properties a maintainer wants: no job lost or run twice at once; every secret can be
opened after any crash; a revocation that was reported holds; a failed enrollment leaves
nothing behind and a retired device is gone, but not before its window; commands are
carried out in order and reports are not lost; an acknowledged object, index entry or
content is neither lost nor changed; a listing or read misses nothing; maintenance breaks
no snapshot; and the off-site copy holds what the server says it holds.

The engine is some 150,000 lines of which the models above translate the concurrent core;
a small part of the repository's lines is mapped, most of those of `fleet/` that keep
state, and little of the rest. `PROJECT.json` lists what is left out part by part.

## Modules

| module | models | instance | proofs |
| --- | --- | --- | --- |
| `Scheduler` | scheduler goroutine, jobs table, process life | `MCScheduler` | `SchedulerProofs` |
| `SealRotation` | sealing key, rotation, recovery | `MCSealRotation` | `SealRotationProofs` |
| `DeviceAccess` | key rows, key cache, gateway lookup, revoke, kit, reap's key removal | `MCDeviceAccess` | `DeviceAccessProofs` |
| `Enrollment` | tokens, enrollment with unwind, revocation, reap | `MCEnrollment` | `EnrollmentProofs` |
| `AgentLoop` | agent loop, client, poll and report handlers | `MCAgentLoop` | `AgentLoopProofs` |
| `AppendOnly` | what the object store promises a device (abstract) | | |
| `ObjectStore` | put, delete, list and sweep on disk and on a bucket; implements `AppendOnly` | `MCObjectStore` | `ObjectStoreProofs` |
| `Mirror` | mirror job over one device | `MCMirror` | `MirrorProofs` |
| `EpochManager` | index epochs, several processes over one storage | `MCEpochManager` | `EpochManagerProofs` |
| `ContentManager` | write side of the content store | `MCContentManager` | |
| `Maintenance` | maintenance runs against a client | `MCMaintenance` | |

Common conventions. The fleet's store has one SQLite connection, so a statement or a
transaction is one atomic step and everything between two statements of a handler may
interleave. A program counter per handler (`pc`, `rot[r].pc`, `enr[d].pc`, `srv[s].pc`,
`job[c].pc`, `proc[p].pc`, ...) names the statement it is about to execute. A crash resets
what lives in memory and keeps what is on disk. Ciphertexts, ETags, keys, contents and
names are model values or small numbers that are equal when the real ones are. An operator
with a comment that starts with "Mutant:" is not part of a specification: it is the
plausible bug a property is tested against.

### Scheduler

`jobs` is the table as a sequence of rows (kind, agent, status, due, started and finished
instants, and two counters of history: claims and lost outcomes). `pc`, `todo`, `ins` and
`cur` are the goroutine's locals: `RequeueStale`, `EnqueueRead`/`EnqueueInsert` (two
statements, so a row may be inserted in between), `ClaimDueJob`, `Exec`, `FinishJob`,
`NextTick`. `Stop`, `CloseStore`, `Exit`, `Crash` and `Start` are the process. `EnqueueJob`
and `ScheduleReap` are the API, the CLI and the revoke handler. Any statement may be
refused, at most `MaxFaults` times together with crashes and closings.

### SealRotation

A key is the number of its salt. `Derive`, `Lock`, `Check`, `Reseal`, `Rename`, `Swap` and
`Reset` are the steps of `RotatePassphrase`; `Seal` and `Write` are a handler inside
`sealHeld`; `BuildGateway` and `PublishGateway` are `gateway()`; `RecoverPendingKey` and
`Load` are the start. `MayRead` is the rule of Go's `RWMutex`: a waiting writer keeps new
readers out. `Faults` says which system calls may fail: the rename after the commit, and a
commit that takes effect and reports an error. `failed` is history: one of them has.

### DeviceAccess

`cache` and `gen` are the fields of `Keys`; a lookup is `LookupStart` (cache, generation and
clock), `LookupRead` (row) and `LookupFill` (insert only if no `Invalidate` came between);
then `StoreForAgent`. `late` and `barred` are history: what was already promised to be shut
when a request started. Revocation, kit reading, regeneration and minting, and the reap
job's deletion are step by step.

### Enrollment

`enr[d]` is `handleEnroll` of device `d` with the provisioner inside it: consume the token,
insert the row, provision (hosted disk, hosted cloud, filesystem, B2), reader key,
initialise, store the bundle, and on failure roll back and unwind. `hung` says that the
request's context is cancelled. `rvk[d]` is `handleAgentRevoke`, `reap` the reap job with
the window and candidates read at its start. `since` is the first revocation.

Every cleanup of a failed enrollment may fail: two of them drop the error without a trace
(`fleet/enroll/provision.go:162`, `303`), the others log it, and the ones after it are
tried all the same. `left[d]` is history: which of the three (B2 keys, row with the gateway
key, hosted repository) could not be carried out. `kits` are the devices with a read-only
gateway key, which a restore kit mints whatever the stamps say. `queued` is the newest reap
row while it is one that a revocation inserted and that has not run; a run takes it off at
its start, and the repetition of a run that crashed is `Scheduler`'s business.

### AgentLoop

`agent` is the loop: idle, waiting for the answer of the handler in `slot`, applying, or
working off `queue`. `srv[s]` is a handler with what it read so far; `live` says whether the
client still waits for it. A timeout leaves the handler running, so handlers of several
requests overlap. `finished` is the engine's list of ended tasks, which drops its oldest
when it is full: a task that leaves it before a watch round comes by is never reported, and
no property says that every task is. `executed` and `applied` are history.

### ObjectStore and AppendOnly

`req[p]` is a put or delete of a device (never overwriting, deleting only session markers)
or of the server itself as owner of a repository (`OwnerAsks`); `listing[p]` a paged
listing. A put on disk writes a temp file, links or renames it and syncs the directory; on
a bucket it is a conditional write that the client repeats when an answer is lost. `obj` is
what every process sees and `persist` the values a loss of power may leave under a key,
which a directory sync narrows to the present one. `syncDir` is best effort
(`fleet/gateway/local.go:292-303`): its errors are dropped and the put is answered with
success all the same. It syncs the device's directory and never the root, so the entry of a
new directory (`dir = "new"`) reaches the disk only in the kernel's own time (`WriteBack`).
`unsafe` is history: the puts that were not on disk after their sync for one of these two
reasons, until a later sync has made up for it. `Implements` maps `obj` to `stored`, `acked`
to `promised` and `acked \ unsafe` to `durable` of `AppendOnly`, in which a plain key is
written once, everything promised stays while the server runs, and everything durable stays.

Assumed of the file system: a sync that reports success did what it says, and the file
attributes that one page of a listing shows are of one instant. Key syntax is abstracted to
a set of keys.

### Mirror

`r` is the run: `Start` (settings, versioning check), `Walk` of the hosted store, `List`
of the bucket, one `Upload` per object, `HideBegin` (the guard and its reservation), one
`Hide` per object, `Record`. Each call may fail, the process may stop anywhere, and the
device writes and deletes between any two steps. `stay` and `some` are history: the keys
that were there all the time, and at some time, since the run began.

Three remarks on the code. Reservations are stamped with the start of the run, so the
budget of `mirror.go:37-40` ("in any 7 days") is kept for windows counted from run starts,
which is 7 days minus the length of a run. The job compares keys and not contents. An
object that vanishes between the walk and its upload ends the turn of its device.

### EpochManager

`index` is the set of index blobs in the storage (uncompacted `xn`, single-epoch `xs`,
range `xr`), `markers` the epoch markers, `marks` the deletion watermarks. Each client has
`state`, its last snapshot with the time until which it is valid, `load`, the snapshot a
refresh is assembling, and `job`, the operation in progress: read (with retry when a blob
has vanished), write (one step per shard, confirmed by a second look at the epoch),
advance, single-epoch and range compaction (list, then put), cleanup of superseded
indexes, of markers, and the watermark. Time passes between any two steps, bounded only
where the code bounds it: a job that notices at its end that the snapshot it worked from
has run out reports an error. `acked` is history: the entries whose write was acknowledged.
`committedState` returns the snapshot of a refresh without a second look at the clock; in
`WriteState` a refresh that took more than a quarter of the period is repeated. The writer
with a snapshot that is older is not lost: time may pass before the first shard.

A plan says which operations each client performs, so that an instance is a handful of
mixes rather than everything at once; the model itself allows any mix with one maintainer,
which `RunExclusive` sees to.

### ContentManager

`bm.mu` is `mu`, the condition variable the set `asleep`. A critical section that does not
wait is one step; `Flush` keeps the lock over its storage calls and is one step per call,
so every state that another client or the next process can find in the storage is a state
of the model. `packs`, `pendingPacks`, `writingPacks`, `failedPacks`, `builder` and
`session` are the manager's fields, `promised` and `everFailed` history.

### Maintenance

`m` is the run with the index as refreshed at its start, `u` the client with the index it
reads and what it has not committed. The margins of `SafetyParameters` are constants, and
so are the two bounds on the client that they rely on: the age of its index (`ViewAge`)
and the time from its look to its commit (`UploadWindow`). Aborted runs, lost reports and
deletions broken off are steps of the run.

## Runs

Run one with `tlc -config <cfg> <module>`, for instance
`tlc -config MCScheduler.cfg MCScheduler`.

| run | checks | instance | distinct states |
| --- | --- | --- | --- |
| `scheduler` | `RunsAccounted`, `OutcomeIsFinal`, `DueJobsFinish` | 1 kind, 3 ticks, 1 outside row, 2 faults | 43,365 |
| `seal` | `StoreReadable`, `KeyOnDisk`, `OneKey`, `GatewayKeyCurrent`, `RotationReturns` | 2 handlers, 2 rotators, 2 secrets, 3 keys, failing rename and commit | 46,816 |
| `access_safety` | `LateRefused`, `DisabledKeyExpires` | 1 device, 1 device key, 2 kit keys, 1 request and 1 kit handler at a time, cache of 2, TTL 1 | 2.0 million |
| `enroll` | `HandedBack`, `RetiredIsGone`, `WindowHonoured`, `DueIsReaped` | 1 device of each of the four target kinds, a single-use token, windows of 1 and 2 days, failing cleanups, crashes, commands, kits, hang-ups | 275,812 |
| `agent_safety` | `AckedIsReported`, `RecordedWasApplied`, `SeenIsReported`, `CommandOrder` | 1 policy, 3 commands, 1 task, 2 overlapping handlers, crashes, a revocation | 690,412 |
| `agent_liveness` | `CommandsDone`, `Converges` | 2 policies, 1 command, 1 handler, a revocation | 8,560 |
| `epoch_safety` | `NothingLost`, `ReadsComplete`, `NeverBack` | 6 plans over 3 clients, epochs from 2 on, up to 4 compactions | 455,842 |
| `objectstore` | `Durable`, `ListComplete`, `Implements` | 2 keys (a plain one, a session marker that the server writes too), 2 contents, 2 requests at a time, pages of 1, disk and bucket, refused syncs | 462,560 |
| `content` | `NothingForgotten`, `IndexedIsStored`, `SessionCovers`, `ReadYourWrites`, `FlushCommitsUnlessFailed`, `EveryCallReturns` | 7 plans for 3 goroutines, 5 contents, 2 pack prefixes, 2 failing calls | 141,390 |
| `maintenance` | `SnapshotIntact`, `ViewReadable`, `FullDeletionNotStarved` | 3 scenarios: three full cycles over one content, and cycles that rewrite two contents | 1,614,866 |
| `maintenance_session` (violation) | `SnapshotIntact` | a new content and two quick cycles, a pack that waits for its index entry longer than `PackDeleteMinAge` | |
| `mirror` | `HideBudget`, `Offsite`, `OnlyGoneHidden`, `EventuallyOffsite` | 2 keys, limits of 1 and 2 hides, 3 instants, 1 write | 133,060 |

What the passing runs show, in the words of the code:

* Scheduler. A row is run again only after a run of it lost its outcome; an outcome is
  final; and every due or claimed row ends, through crashes and refused statements.
* Sealing key. Outside a rotation the key in memory opens the whole store; the store is
  never on two keys; wherever the process dies one of the two files has the key of the
  stored salt, also after a failed rename or commit until the next rotation; a gateway
  never outlives its key; a rotation gets its lock.
* Credentials. A request that starts after a revocation or regeneration was reported is
  not served with what it took away, whatever lookup was in flight; and without any
  `Invalidate` a disabled key dies within the TTL.
* Enrollment. What an enrollment that failed leaves behind of its row, keys and hosted
  repository is what the very call that should have removed it failed on: no path skips a
  cleanup and no failed one stops the next; a retired device has no key to write with and
  no repository on the server; nothing is removed before the window; and once no reap row
  of a revocation stands in the way of the daily sweep, a device past its window is removed
  in the end.
* Agent. No command is carried out after a later one; only reported commands are
  acknowledged; the recorded policy version was applied; a task is forgotten only once it
  is recorded; commands and the last policy arrive.
* Object store. Of two puts of one key one wins and stays; what was answered with success
  survives a loss of power, unless `syncDir` failed or the entry of the device's directory
  was not on disk yet; a listing shows every key that was there throughout, once and in
  order.
* Mirror. Only what was missing is hidden, within the budget over the window; what the
  record says is off site is; and every object that stays gets there, once the device has
  stopped writing new ones.
* Epochs. No acknowledged index entry is lost to whoever opens the repository, no read
  misses one, and neither the write epoch nor the watermark a process saw goes back.
* Contents. No content a completed call promised is forgotten, the live entries of the
  stored index name only stored packs, session markers cover packs without an index entry, a goroutine reads what
  was written, a flush commits all that did not fail, and every call returns.
* Maintenance. Every committed snapshot stays readable, an index of limited age names
  only packs that are there, and full deletions are not starved by quick rewrites.

### Bounds

Two of everything that competes (handlers, rotators, overlapping server handlers,
requests) and one more fault than it takes to hit a recovery path: a second
crash during the recovery from the first, a second refused statement after the first.

* `seal`: keys go to three so that a rotation follows one that followed another.
* `scheduler`: the clock passes the timeout once and the interval once after the last
  fault. `Horizon` ends inputs and faults before the clock does, so that liveness does not
  depend on the end of time. With two kinds the instance has 508,988 states and satisfies
  the same properties.
* `enroll`: the days pass both windows. Two devices meet only in the token, in the reap
  job's list and in `queued`; the run has one, so that every cleanup of every kind can fail,
  and the theorems cover any number.
* `agent_safety` spends its states on commands and overlapping handlers and has one policy;
  changing policies are in `agent_liveness`, and the theorems cover any number of both.
* `objectstore`: a plain key, and one that device and server both delete and the server also
  replaces; pages of one key, so that every change can fall between two pages. `mirror`: with
  three keys it has 3.8 million states and satisfies the same properties.
* `epoch_safety`: `Instants` are the points at which anything may happen: within a refresh
  period, at its end, and after the safety margin. Parameters are the smallest that
  `Parameters.Validate` accepts in their proportions. Each plan puts one maintenance task
  against the readers and writers it could hurt; `Lagging` starts with a writer that has
  been writing since the epoch before.
* `content`: plans pair every two operations that meet on a content, with a flush at the
  same time. Time stands still, the hardest case for `contentWriteTime`.
* `maintenance`: three full cycles is what it takes to drop an entry. One upload at a time,
  and `MaxLost = 0`: see below.

What these instances and properties do not catch:

* `RotationReturns` knows the readers of `sealMu` that hold it and go on. A reader that waits
  for `gwDeps.mu` while it holds the read lock, or takes the read lock twice, is not modelled.
* `WindowHonoured` measures with the window and the candidates a sweep read at its start. It
  shows that the sweep keeps to those, not that it notices what changed since.
* `RecordedWasApplied` admits every version that was applied once. A late report handler may
  put an older one back into the row (`fleet/api/agent_endpoints.go:432`) until the next poll;
  `Converges` has one handler at a time, because with two TLC does not finish its temporal
  check (296,072 states).
* `NeverBack` is about cleanup: advances only add markers, and one from a stale state cannot
  violate it. What such an advance could do to entries is in `NothingLost`.
* `EventuallyOffsite` rests on `MaxPuts`: an object that vanishes between walk and upload ends
  the turn of its device, so a device that goes on writing and deleting an early key for ever
  could keep the later ones from being uploaded.

Symmetry is used for handlers, requests and contents that are interchangeable, in safety
runs only. `CHECK_DEADLOCK FALSE` appears where the instance ends: each device enrolls
once and the days are bounded (`Enrollment`), a revoked agent that stopped has nothing to
do (`AgentLoop`), and plans, instants or runs come to an end (`EpochManager`,
`ContentManager`, `Maintenance`, `Mirror`).

### Fairness

* `Scheduler`: the goroutine keeps running (a runner returns because its context has a
  deadline), a `select` that is offered the cancelled context again and again takes it,
  time passes, and the service manager starts the process again. Nothing is assumed of
  inputs or faults; the latter are finitely many.
* `SealRotation`: requests that hold a lock go on. New requests, crashes and restarts are
  free.
* `Enrollment`: the scheduler starts the sweep again and again while no reap row of a
  revocation is pending (`enqueueIntervals` inserts none then), and the attempt on one device
  does not fail for ever (strong fairness of the three successful steps). `DueIsReaped`
  therefore assumes that `queued` stays empty in the end: while revocations go on, each puts
  off the sweep, and a device whose own row failed waits for as long as they do.
* `AgentLoop`: the tickers of `Run` fire, handlers end, and neither network, store nor
  engine fails for ever (strong fairness per handler step that a waiting client sees).
  `Converges` assumes that the admin stops changing the policy.
* `ContentManager`: every goroutine that can go on does. Faults are finitely many.
* `Mirror`: the scheduler runs the job again and again and bounds every run; a run is not
  for ever cut short before its uploads, and the upload of an object that stays does not
  fail for ever.

## Where the code and its comments disagree

One disagreement has a run; its trace is in `PROJECT.json` under `findings`.

* `maintenance_session`: `DeleteUnreferencedPacks` decides what is unreferenced from the
  index as refreshed at the start of the run, and lists the active sessions later. A client
  whose pack is older than `PackDeleteMinAge` and protected by its session marker alone may
  write its index and remove the marker in between; the pack is in neither view and is
  deleted although the index now names it (`repo/maintenance/pack_gc.go:79`).

Others were met with TLC while the models were written. They can be reproduced by checking
the named property with the constants given.

* `ComesBackConsistent` (`SealRotation`) with `Faults = {"rename"}`: after a failed rename
  `seal.key.new` is the only file with the key in force; a further rotation overwrites it
  before its own transaction, and a crash there leaves a store no key file opens. With
  `Faults = {"commit"}`: after a commit that took effect and reported an error, handlers
  seal with the old key into a store on the new salt (`fleet/api/admin_passphrase.go:122`).
  `RestartIsConsistent` proves that nothing but such a failure leads there.
* What `left` exempts in `HandedBack`. On B2 the rollback of `Provision` uses the request's
  context, which is cancelled when the client hangs up, and the unwind has no bundle: the B2
  keys stay alive, and the error is dropped (`fleet/enroll/provision.go:303`). A command row
  for a half-enrolled device makes `DeleteAgent` fail on the foreign key: row and gateway key
  stay (`fleet/store/agents.go:121`). Nobody tries either again.
* `Durable` for all of `acked`: "so a crash cannot lose an object that Put already reported as
  stored" (`fleet/gateway/local.go`) is followed by "Best effort", and the first objects of a
  device are also lost when the root directory's entry for it was not written back, which no
  sync covers.
* `IndexedIsStored` for deleted entries: a content deleted while the upload of its pack is
  under way or has failed is entered as deleted, with the name of that pack, by the flush of
  another pack; the pack may never be stored.
* `StopsOnlyWhenRevoked` (`AgentLoop`) with `Events = {"store"}`: a store error in
  `requireAgent` is answered 401 (`fleet/api/agent_endpoints.go:333`); the agent takes it
  for a revocation and exits with the status its unit does not restart.
* `Converges` with `Events = {"partial"}` and two policies: Apply fails half way, the admin
  goes back to the old policy, its ETag is the agent's, every answer is 304, and the engine
  keeps the mixture (`agent/run/loop.go:78`).
* `WindowHonoured` with `Events = {"read"}` and a default below the configured window: one
  failed read of the setting shortens the window (`fleet/jobs/reap.go:227`).
* `RevokedKeysAreDead` with a device on B2: a revocation before `SetAgentBundle` cannot see
  the B2 keys (`fleet/api/admin_agents.go:258`).
* `KindsKeptScheduled`: the reap row that a revocation inserts for the end of the window is
  the newest of its kind and pending, so the daily sweep is not inserted until then
  (`fleet/jobs/scheduler.go:268`). `OneOutstanding`: two rows of a kind may be outstanding,
  since the read and the insert of `enqueueIntervals` are two statements
  (`fleet/jobs/scheduler.go:255`).
* `NoKitOnceRetired` and `KitRestores`: the kit path does not read `retired_at`, and a kit
  printed after a revocation is refused by `storeForAgent` (`fleet/api/gateway_mount.go:149`).
* `FlushCommits` (`ContentManager`): a flush that waits for packs of others returns success
  although one of them fails afterwards (`repo/content/content_manager.go:605`).
* `RetryReexamines` (`EpochManager`): a read that retries may return a set without an entry
  that was acknowledged before the snapshot of the retry, since the write epoch it works
  with is that of the first attempt (`internal/epoch/epoch_manager.go:803`, `824`).
* `ViewReadable` without its exemption of `undeleted`: nothing delays the deletion of the
  pack a content had before snapshot GC undeleted it
  (`repo/maintenance/maintenance_run.go:587-591`).
* `Maintenance` with `MaxLost = 1`: a rewrite whose report is lost is not waited for before
  its old packs are deleted.

## Proofs

Run with `tlapm <module>.tla`. The theorems hold for every value of the constants that
satisfies the named assumptions; TLC evaluates those on every run. Every invariant and
action property below is also checked by a run, unless it says otherwise; the inductive
invariants were checked with TLC on the runs' instances before they were proved. `TypeOK`
of a proved module is not listed in its run, because the theorem covers it.

`SchedulerProofs` (`KindsAssumption`, `TimeAssumption`): `TypeCorrect`, `ClaimsAreHeld`,
`EveryRunAccounted`, `OutcomesAreFinal`. The invariant adds two facts to the
properties: `cur` names a row only inside `runOne`, and a running row has a start time.
Without the first a crash could not be told from a run in progress; without the second the
staleness comparison says nothing. Every step changes the table in one of five ways
(nothing, a new row, stale claims requeued, a claim, the end of a run), one lemma each.

`SealRotationProofs` (`RotationAssumption`): `StoreStaysReadable`, `KeyStaysOnDisk`,
`StoreOnOneKey`, `GatewayStaysCurrent`, `RotationsAreAuthorized`, `RestartIsConsistent`.
The invariant adds the exclusion `sealMu` gives, that a process that is down holds nothing,
and for each step of a rotation which of store, key files and memory have already moved
(`Phase`). It is kept while no rename or commit has failed (`failed`); what is left after
such a failure is `KeyOnDisk`, until the next rotation.

`DeviceAccessProofs` (`AccessAssumption`): `TakenAwayIsRefused` and `RevokedKeysExpire`, for
any number of agents, keys, requests and kit handlers, any cache size and TTL. The heart is
`Dead(k)`: the row is off, the cache has no entry, and no lookup in flight may put one back,
because its generation is over. A regeneration has brought every key it replaces there when
it answers (`Replacing`), and no step of anybody leaves it. `Expiry` bounds the age of an
entry by the instant at which the row was still active.

`EnrollmentProofs` (`EnrollmentAssumption`): `RetiredDevicesAreGone`,
`RepositoriesOutliveTheWindow` (while the setting can be read: `"read" \notin Events`),
`FailedEnrollmentsAreHandedBack` and `TokenNotOverspent` (`TokenBudget`, not in a run). The
hypothesis excludes what the section above describes. The argument for the reap job is about time: a device it
takes was first revoked on an earlier day (`Aged`), and its enrollment is over by then
(`Settled`), so no step of an enrollment brings back a key or a repository behind the job's
back, and a later revocation moves `revoked_at` but not the first one. `Handed` follows an
enrollment through the unwind: at each step, what has been minted is still to be handed back
by a later step, or gone, or what a cleanup has failed on.

`AgentLoopProofs` (`AgentLoopAssumption`): `TypeCorrect`, `AckedWasReported`,
`RecordedEtag`, `SeenWasReported`, `CommandsInOrder`, for any number of overlapping handlers.
The argument for the order of commands: a list is cut from the unacknowledged commands, so it
holds every unacknowledged command below any of its members (`Prefix`); a member leaves it
only once it is acknowledged; so everything below the highest command carried out is
acknowledged (`Settled`) and is never listed again (`Ahead`). `HandlerInv` says what a handler
knows of the state it left behind, which is what late handlers make necessary.

`ObjectStoreProofs` (`StoreValid`: finitely many keys with an order, pages of at least one):
`StoreImplements` (the refinement of `AppendOnly`, step by step), `SuccessIsDurable`,
`TypeCorrect` and `ListingsAreComplete`. `Placed` says how far a put has got: linked, synced,
answered; `Whole` that a crash shows a plain key as it is or as never written. A pair that is
`Safe` stays so (`StaysSafe`): nobody changes a plain key that is taken, and a directory
entry that has reached the disk is kept; so `durable` only grows. For listings
the invariant is that the pages read so far are in order, end at the cursor, and show every
key up to it that was there throughout. That a page holds the smallest keys beyond the
cursor is a fact about sorting a finite set; it is proved from a least counterexample
(`LeastNumber`), since induction rules that take an operator are out of the prover's reach.

`MirrorProofs` (`MirrorAssumption`): `RecordedIsOffsite`, `LiveKeysNeverTouched`,
`HidesWithinBudget` and `NoVersionDeleted` (`VersionsKept`, not in a run). The invariant says
what the run knows at each step (`Stayed`, `Listed`, `Answered`). For the budget, `Covered`:
in every run of the window the reservation is at least what the run has hidden and is still
going to hide, however it ended; so a sum over reservations bounds the sum over hides, and
two sums over the same finite window compare term by term (`EachFewer`).

`EpochManagerProofs` (`ParametersValid`, which is `Parameters.Validate`, and `InstanceValid`:
one maintainer per plan): `AcknowledgedIsFound`, `ReadsAreComplete` and `EpochsGoForward`, for
any number of clients, epochs, shards and compactions and any instants. The centre is
`Held(x, e)`: an acknowledged entry `x` of epoch `e` is in every compacted blob that covers
`e`, stored or about to be written, and its uncompacted blob is there unless `e` is `Gone`:
a single-epoch compaction of it is older than the safety margin, and the process that
compacts has it in its snapshot (`Knows`), so that no later compaction is made without it.
Snapshots are `Based` on what was stored, and `Current`: a snapshot in use shows a compaction
of every epoch that had one when its refresh began. The margins of `Validate` enter there:
what is older than the safety margin was written before the refresh of any snapshot still in
use, so a reader does not need the blobs that a cleanup deletes (`OldShown`,
`CleanupSupersededKeeps`). A writer that sees in a snapshot begun after its last shard that
its epoch is not settled (`Behind`) knows that its shards are held (`Writes`), however old the
snapshots of the others are. Steps are sorted by what they do to the storage: nothing
(`StepKeeps`, and from it `TaskStep`, `ReadKeeps`, `LoadKeeps`), blobs are added
(`GentleStep`), a writer deletes its own or superseded ones go (`DeleteStep`), markers or
watermarks change (`MarkersKeep`). That the ranges a snapshot works with leave no gap
(`ChainCovers`) is again proved from a least counterexample. The module takes `tlapm` about
twenty minutes from nothing. Facts that one operation needs are steps of the lemma about it
rather than lemmas: the prover's time per leaf grows with the statements in scope.

Only model-checked, and why:

* The liveness properties (`DueJobsFinish`, `RotationReturns`, `DueIsReaped`,
  `CommandsDone`, `Converges`, `EveryCallReturns`, `EventuallyOffsite`): fairness and
  `ENABLED` are beyond the prover.
* `SnapshotIntact` of `Maintenance` is not a theorem for every value of the constants. The
  margins bound one upload; a chain of uploads in which each reuses what the one before
  found, while snapshots expire in between, can carry a content past
  `MinContentAgeSubjectToGC`. The run has one upload at a time (`MaxUploads = 1`), and
  `ViewReadable` and `FullDeletionNotStarved` stay with it.
* `ContentManager` is checked for plans in which no goroutine deletes a content that another
  writes at the same time: the code acknowledges a write when it finds an entry for the
  content, deleted or not, so `NothingForgotten` and `ReadYourWrites` need that condition.

## Not modelled

Byte-level algorithms (splitting, compression, encryption, ECC, signatures), adapters to
storage services, text (mail, kits, scripts, templates), command-line parsing, the tray, and
walks over file systems during upload and restore: no state is shared there, or the question
is about bytes. B2 and S3 are external: a call takes effect or fails, and except for
conditional puts (`ObjectStore`) a lost reply is not modelled. A second server process beside
a stopping one is excluded by the lock file and the exit that follows `Stop`; the scheduler
model has one process at a time. Activation of a server, admin sessions, the upgrade lock of
the repository format, caches, sources and policies are listed in `PROJECT.json` with the
reason.
