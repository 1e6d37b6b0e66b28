------------------------------ MODULE Scheduler ------------------------------
(***************************************************************************)
(* The Fleet job scheduler: fleet/jobs/scheduler.go over the jobs table of *)
(* fleet/store/jobs.go.                                                    *)
(*                                                                         *)
(* One goroutine of one process loops: requeue stale claims, enqueue the   *)
(* interval-driven kinds, then claim and run due rows one at a time.  The  *)
(* jobs API, the jobs CLI and the revoke handler insert rows concurrently. *)
(* The process may crash between any two steps, may be closed, and is      *)
(* started again; the store may refuse a statement.                        *)
(*                                                                         *)
(* The store runs every statement on one connection, so a statement is one *)
(* atomic step.  Rows are numbered by insertion, so jobs is a sequence and *)
(* a row's id is its index.  Time is in abstract units of the store's one- *)
(* second timestamps.                                                      *)
(***************************************************************************)
EXTENDS Naturals, Sequences, FiniteSets

CONSTANTS
  Kinds,      \* the job kinds that have a runner, all interval-driven
  ReapKind,   \* the kind the revoke handler schedules
  Agents,     \* devices a job may name
  NoAgent,    \* a fleet-wide job (agent_id NULL)
  NoTime,     \* a NULL timestamp
  Timeout,    \* run bound and staleness threshold of every kind
  Every,      \* [Kinds -> interval between two runs], as clamped by intervalFor
  Retention,  \* how far ahead a revocation schedules its reap
  MaxNow,     \* bound: the last instant of the clock
  Horizon,    \* bound: last instant at which inputs and faults happen
  MaxInputs,  \* bound: rows inserted from outside the scheduler
  MaxFaults   \* bound: crashes, closings and refused statements

ASSUME KindsAssumption == ReapKind \in Kinds /\ NoAgent \notin Agents
ASSUME TimeAssumption ==
  /\ NoTime \notin Nat
  /\ Timeout \in Nat
  /\ Every \in [Kinds -> Nat]
  /\ Retention \in Nat
  /\ MaxNow \in Nat
  /\ Horizon \in Nat
  /\ MaxInputs \in Nat
  /\ MaxFaults \in Nat

VARIABLES
  jobs,    \* the jobs table, oldest row first
  now,     \* the clock
  pc,      \* where the scheduler goroutine is
  todo,    \* interval kinds enqueueIntervals has still to visit
  ins,     \* the kinds it decided to insert and has not inserted yet
  cur,     \* id of the row being run, 0 for none
  stop,    \* "no", "cancelled" by Stop, or "closed" once the store is closed
  inputs,  \* bound counter: rows inserted from outside
  faults   \* bound counter: faults so far

vars == <<jobs, now, pc, todo, ins, cur, stop, inputs, faults>>

\* The outcomes ok, skipped and error are one status: nothing below tells them apart.
Statuses == {"pending", "running", "ended"}
PCs == {"requeue", "enqueue", "claim", "exec", "finish", "wait", "returned", "down"}
Ids == 1 .. Len(jobs)

(***************************************************************************)
(* A row.  runs and lost are history: how often the row was claimed, and   *)
(* how often the outcome of such a run never reached the row.              *)
(***************************************************************************)
Job == [kind : Kinds, agent : Agents \cup {NoAgent}, at : Nat,
        started : Nat \cup {NoTime}, finished : Nat \cup {NoTime},
        status : Statuses, runs : Nat, lost : Nat]

Pending(k, a, t) == [kind |-> k, agent |-> a, at |-> t, started |-> NoTime,
                     finished |-> NoTime, status |-> "pending", runs |-> 0, lost |-> 0]

\* What the statements of fleet/store/jobs.go do to one row.
Requeued(j) == [j EXCEPT !.status = "pending", !.started = NoTime]
Claimed(j) == [j EXCEPT !.status = "running", !.started = now, !.runs = @ + 1]
Finished(j) == [j EXCEPT !.status = "ended", !.finished = now]
OutcomeLost(j) == [j EXCEPT !.lost = @ + 1]

TypeOK ==
  /\ jobs \in Seq(Job)
  /\ now \in Nat
  /\ pc \in PCs
  /\ todo \subseteq Kinds
  /\ ins \subseteq Kinds
  /\ cur \in Nat
  /\ stop \in {"no", "cancelled", "closed"}
  /\ inputs \in Nat
  /\ faults \in Nat

Init ==
  /\ jobs = <<>>
  /\ now = 0
  /\ pc = "requeue"
  /\ todo = {}
  /\ ins = {}
  /\ cur = 0
  /\ stop = "no"
  /\ inputs = 0
  /\ faults = 0

-----------------------------------------------------------------------------
(* Faults and rows from outside *)

\* A statement the store refuses: always once the context is cancelled or the
\* database closed, otherwise at most MaxFaults times.
Refused ==
  \/ stop # "no" /\ UNCHANGED faults
  \/ faults < MaxFaults /\ now <= Horizon /\ faults' = faults + 1

\* The store's answer to a statement issued with the scheduler's own context.
Accepted == stop = "no" /\ UNCHANGED faults

\* EnqueueJob from POST /jobs or the jobs CLI: due at once, fleet-wide or for
\* one device.
EnqueueJob(k, a) ==
  /\ inputs < MaxInputs /\ now <= Horizon
  /\ jobs' = Append(jobs, Pending(k, a, now))
  /\ inputs' = inputs + 1
  /\ UNCHANGED <<now, pc, todo, ins, cur, stop, faults>>

\* ScheduleReap, the last step of a revocation: due when the window closes.
ScheduleReap(a) ==
  /\ inputs < MaxInputs /\ now <= Horizon
  /\ jobs' = Append(jobs, Pending(ReapKind, a, now + Retention))
  /\ inputs' = inputs + 1
  /\ UNCHANGED <<now, pc, todo, ins, cur, stop, faults>>

Tick ==
  /\ now < MaxNow
  /\ now' = now + 1
  /\ UNCHANGED <<jobs, pc, todo, ins, cur, stop, inputs, faults>>

-----------------------------------------------------------------------------
(* The scheduler loop *)

\* A claim made before the cutoff now - Timeout.
Stale(j) == j.status = "running" /\ (j.started = NoTime \/ j.started + Timeout < now)

\* RequeueStaleJobs for one kind.
RequeueStaleJobs(kinds) ==
  jobs' = [i \in Ids |->
             IF jobs[i].kind \in kinds /\ Stale(jobs[i])
             THEN Requeued(jobs[i])
             ELSE jobs[i]]

\* requeueStale: one statement per registered kind.  A refused one is logged
\* and skipped.  The statements touch disjoint rows that nobody else updates
\* meanwhile, so they are one step here.
RequeueStale ==
  /\ pc = "requeue"
  /\ \/ RequeueStaleJobs(Kinds) /\ Accepted
     \/ \E kinds \in SUBSET Kinds : RequeueStaleJobs(kinds) /\ Refused /\ stop = "no"
     \/ stop # "no" /\ UNCHANGED <<jobs, faults>>
  /\ pc' = "enqueue"
  /\ todo' = Kinds
  /\ UNCHANGED <<now, ins, cur, stop, inputs>>

\* The newest row of kind k (RecentJobs(kind, 1)), whatever agent it names.
Newest(k) == CHOOSE i \in Ids : jobs[i].kind = k /\ \A j \in Ids : jobs[j].kind = k => j <= i

\* Whether enqueueIntervals decides to insert a row of kind k.
IntervalDue(k) ==
  (\E i \in Ids : jobs[i].kind = k) =>
    LET last == jobs[Newest(k)] IN
    /\ last.status \notin {"pending", "running"}
    /\ last.finished # NoTime => last.finished + Every[k] <= now

\* enqueueIntervals, first half for one kind: read the newest row and decide.
EnqueueRead(k) ==
  /\ pc = "enqueue" /\ ins = {} /\ k \in todo
  /\ todo' = todo \ {k}
  /\ \/ Accepted /\ ins' = (IF IntervalDue(k) THEN {k} ELSE {})
     \/ Refused /\ ins' = {}
  /\ UNCHANGED <<jobs, now, pc, cur, stop, inputs>>

\* Second half: the insert.  Another process may have inserted a row between.
EnqueueInsert(k) ==
  /\ pc = "enqueue" /\ k \in ins
  /\ ins' = {}
  /\ \/ Accepted /\ jobs' = Append(jobs, Pending(k, NoAgent, now))
     \/ Refused /\ UNCHANGED jobs
  /\ UNCHANGED <<now, pc, todo, cur, stop, inputs>>

EnqueueDone ==
  /\ pc = "enqueue" /\ ins = {} /\ todo = {}
  /\ pc' = "claim"
  /\ UNCHANGED <<jobs, now, todo, ins, cur, stop, inputs, faults>>

\* Mutant: the subselect forgets status = 'pending'.
DueAnyStatus(i) == jobs[i].at <= now

\* Rows ClaimDueJob may take.
Due(i) == jobs[i].status = "pending" /\ jobs[i].at <= now

\* ORDER BY scheduled_for, id LIMIT 1
OldestDue(i) ==
  /\ Due(i)
  /\ \A j \in Ids : Due(j) => (jobs[i].at < jobs[j].at \/ (jobs[i].at = jobs[j].at /\ i <= j))

\* runOne, first half: ClaimDueJob takes the oldest due row, in one statement.
ClaimDueJob(i) ==
  /\ pc = "claim" /\ Accepted
  /\ OldestDue(i)
  /\ jobs' = [jobs EXCEPT ![i] = Claimed(@)]
  /\ cur' = i
  /\ pc' = "exec"
  /\ UNCHANGED <<now, todo, ins, stop, inputs>>

\* runOne finds nothing due, its claim is refused, or the loop saw ctx.Err().
ClaimNone ==
  /\ pc = "claim"
  /\ \/ Accepted /\ \A i \in Ids : ~Due(i)
     \/ Refused
  /\ pc' = "wait"
  /\ UNCHANGED <<jobs, now, todo, ins, cur, stop, inputs>>

\* exec: the runner returns, fails, skips or panics; each is an outcome.
Exec ==
  /\ pc = "exec"
  /\ pc' = "finish"
  /\ UNCHANGED <<jobs, now, todo, ins, cur, stop, inputs, faults>>

\* Mutant: the outcome is also written to the finished rows of the kind.
FinishJobByKind ==
  /\ pc = "finish"
  /\ jobs' = [i \in Ids |->
                IF i = cur \/ (jobs[i].kind = jobs[cur].kind /\ jobs[i].status = "ended")
                THEN Finished(jobs[i]) ELSE jobs[i]]
  /\ cur' = 0
  /\ pc' = "claim"
  /\ UNCHANGED <<now, todo, ins, stop, inputs, faults>>

\* runOne, second half: FinishJob under WithoutCancel, so a cancelled context
\* does not stop it but a closed database does.  The UPDATE is by id alone; a
\* refused one is only logged.
FinishJob ==
  /\ pc = "finish"
  /\ \/ /\ stop # "closed"
        /\ jobs' = [jobs EXCEPT ![cur] = Finished(@)]
        /\ UNCHANGED faults
     \/ /\ \/ stop = "closed" /\ UNCHANGED faults
           \/ faults < MaxFaults /\ now <= Horizon /\ faults' = faults + 1
        /\ jobs' = [jobs EXCEPT ![cur] = OutcomeLost(@)]
  /\ cur' = 0
  /\ pc' = "claim"
  /\ UNCHANGED <<now, todo, ins, stop, inputs>>

\* Mutant: stale claims are requeued once, before the loop.
NextTickNoRequeue ==
  /\ pc = "wait"
  /\ pc' = "enqueue"
  /\ todo' = Kinds
  /\ UNCHANGED <<jobs, now, ins, cur, stop, inputs, faults>>

\* The select at the end of an iteration: the next tick ...
NextTick ==
  /\ pc = "wait"
  /\ pc' = "requeue"
  /\ UNCHANGED <<jobs, now, todo, ins, cur, stop, inputs, faults>>

\* ... or a cancelled context; when both are ready select takes either.
Return ==
  /\ pc = "wait" /\ stop # "no"
  /\ pc' = "returned"
  /\ UNCHANGED <<jobs, now, todo, ins, cur, stop, inputs, faults>>

-----------------------------------------------------------------------------
(* The process around it *)

\* Server.Close: Stop cancels the context.
Stop ==
  /\ pc # "down" /\ stop = "no"
  /\ faults < MaxFaults /\ now <= Horizon
  /\ faults' = faults + 1
  /\ stop' = "cancelled"
  /\ UNCHANGED <<jobs, now, pc, todo, ins, cur, inputs>>

\* Stop returned, because the goroutine did or because stopWait ran out under
\* a runner that ignores its context; then Close closes the store.
CloseStore ==
  /\ stop = "cancelled" /\ pc \in {"returned", "exec", "finish"}
  /\ stop' = "closed"
  /\ UNCHANGED <<jobs, now, pc, todo, ins, cur, inputs, faults>>

\* What is left of a run the process did not survive.
Lost == IF cur = 0 THEN jobs ELSE [jobs EXCEPT ![cur] = OutcomeLost(@)]

\* The process is gone and with it everything in memory.
Down ==
  /\ jobs' = Lost
  /\ pc' = "down"
  /\ todo' = {}
  /\ ins' = {}
  /\ cur' = 0
  /\ UNCHANGED <<now, stop, inputs>>

Exit == stop = "closed" /\ pc # "down" /\ Down /\ UNCHANGED faults

Crash == pc # "down" /\ faults < MaxFaults /\ now <= Horizon /\ Down /\ faults' = faults + 1

\* The next server process: New loads the state and starts a scheduler.
Start ==
  /\ pc = "down"
  /\ pc' = "requeue"
  /\ stop' = "no"
  /\ UNCHANGED <<jobs, now, todo, ins, cur, inputs, faults>>

-----------------------------------------------------------------------------

Enqueue == EnqueueDone \/ \E k \in Kinds : EnqueueRead(k) \/ EnqueueInsert(k)

Claim == ClaimNone \/ \E i \in Ids : ClaimDueJob(i)

Run == FinishJob \/ Exec

Loop == RequeueStale \/ Enqueue \/ Claim \/ Run \/ NextTick \/ Return

Outside ==
  \/ \E k \in Kinds, a \in Agents \cup {NoAgent} : EnqueueJob(k, a)
  \/ \E a \in Agents : ScheduleReap(a)

Next == Loop \/ Outside \/ Tick \/ Stop \/ CloseStore \/ Exit \/ Crash \/ Start

Spec == Init /\ [][Next]_vars

(***************************************************************************)
(* Fairness: the goroutine keeps running (a runner returns because its     *)
(* context times out), a select that is offered the cancelled context over *)
(* and over takes it, time passes, a closed process exits and the service  *)
(* manager starts it again.  Nothing is assumed of inputs and faults.      *)
(***************************************************************************)
FairSpec ==
  /\ Spec
  /\ WF_vars(Loop) /\ SF_vars(Return)
  /\ WF_vars(Tick)
  /\ WF_vars(CloseStore) /\ WF_vars(Exit) /\ WF_vars(Start)

\* Bound on row ids: outside rows, and at most one row per kind and instant.
MaxId == MaxInputs + Cardinality(Kinds) * (MaxNow + 1)

-----------------------------------------------------------------------------
(* Properties *)

\* The row a live runner is working on is claimed in the table: no requeue,
\* claim or outcome of anyone else touched it since ClaimDueJob (the comment
\* on RequeueStaleJobs, "a crash leaves a claim behind; nothing else does").
ClaimHeld == pc \in {"exec", "finish"} => cur \in Ids /\ jobs[cur].status = "running"

\* A row is run again only after a run of it lost its outcome: every claim is
\* accounted for by a recorded outcome, the live runner or a lost run.
RunsAccounted ==
  \A i \in Ids :
    jobs[i].runs = jobs[i].lost
                   + (IF jobs[i].status = "ended" \/ (pc \in {"exec", "finish"} /\ cur = i) THEN 1 ELSE 0)

\* A recorded outcome is final: no later step of the loop, the API or a
\* restart rewrites a finished row, or drops any row.
OutcomeIsFinal ==
  [][\A i \in Ids : i <= Len(jobs') /\ (jobs[i].status = "ended" => jobs'[i] = jobs[i])]_vars

\* Every due or claimed row gets an outcome in the end, through crashes and
\* refused statements: an orphaned claim does not stay running forever (the
\* comment in run on why requeueStale is called every tick).
DueJobsFinish ==
  \A i \in 1 .. MaxId :
    (i \in Ids /\ (jobs[i].status = "running" \/ Due(i))) ~> (i \in Ids /\ jobs[i].status = "ended")

\* "enqueueIntervals keeps the interval-driven kinds scheduled": when it reads
\* the newest row of a kind and decides to insert nothing, either a run of that
\* kind ended less than an interval ago, or a row of it is running or due.
KindsKeptScheduled ==
  [][\A k \in Kinds :
       pc = "enqueue" /\ k \in todo \ todo' /\ stop = "no" /\ faults' = faults /\ ins' = {}
         => \E i \in Ids : /\ jobs[i].kind = k
                          /\ \/ jobs[i].status = "ended" /\ now < jobs[i].finished + Every[k]
                             \/ jobs[i].status = "running"
                             \/ Due(i)]_vars

\* "one pending or running job at a time": enqueueIntervals inserts a row of a
\* kind only while no row of it is pending or running.
OneOutstanding ==
  [][\A k \in Kinds :
       k \in ins /\ Len(jobs') > Len(jobs) /\ ins' = {}
         => \A i \in Ids : jobs[i].kind = k => jobs[i].status = "ended"]_vars
=============================================================================
