--------------------------- MODULE SchedulerProofs ---------------------------
(***************************************************************************)
(* Proofs about Scheduler, for every value of its constants.               *)
(*                                                                         *)
(* ClaimHeld and RunsAccounted are not inductive as they stand: a step of  *)
(* Down or FinishJob is sound only because cur names a row exactly while   *)
(* the goroutine is inside runOne (CurInRunOne), and requeueStale compares *)
(* a started_at that a claimed row must have (RunningStamped).             *)
(***************************************************************************)
EXTENDS Scheduler, SequenceTheorems, TLAPS

\* cur names a row only between ClaimDueJob and FinishJob.
CurInRunOne == pc \notin {"exec", "finish"} => cur = 0

\* ClaimDueJob writes started_at together with the status.
RunningStamped == \A i \in Ids : jobs[i].status = "running" => jobs[i].started \in Nat

IInv == TypeOK /\ ClaimHeld /\ RunsAccounted /\ CurInRunOne /\ RunningStamped

-----------------------------------------------------------------------------
(* The three ways a step changes the table *)

\* Appending a row (EnqueueJob, ScheduleReap, EnqueueInsert) keeps the others.
LEMMA AppendRow ==
  ASSUME NEW s \in Seq(Job), NEW r \in Job
  PROVE  /\ Append(s, r) \in Seq(Job)
         /\ Len(Append(s, r)) = Len(s) + 1
         /\ \A i \in 1 .. Len(s) : Append(s, r)[i] = s[i]
         /\ Append(s, r)[Len(s) + 1] = r
  BY AppendProperties

\* A function on the ids of a table with rows as values is a table.
LEMMA TableOfRows ==
  ASSUME NEW n \in Nat, NEW f \in [1 .. n -> Job]
  PROVE  f \in Seq(Job) /\ Len(f) = n /\ DOMAIN f = 1 .. n
<1>1. f \in Seq(Job)
  BY SeqDef, Zenon
<1>2. DOMAIN f = 1 .. n
  BY Zenon
<1>3. DOMAIN f = 1 .. Len(f) /\ Len(f) \in Nat
  BY <1>1, LenProperties, Zenon
<1> QED
  BY <1>1, <1>2, <1>3

\* A row that is neither claimed nor run yet is well formed.
LEMMA PendingIsJob ==
  ASSUME NEW k \in Kinds, NEW a \in Agents \cup {NoAgent}, NEW t \in Nat
  PROVE  /\ Pending(k, a, t) \in Job
         /\ Pending(k, a, t).status = "pending"
         /\ Pending(k, a, t).runs = 0 /\ Pending(k, a, t).lost = 0
  BY Zenon DEF Pending, Job, Statuses

\* What the row operators return.
LEMMA RowOperators ==
  ASSUME NEW j \in Job, now \in Nat
  PROVE  /\ Requeued(j) \in Job
         /\ Requeued(j).status = "pending"
         /\ Requeued(j).runs = j.runs /\ Requeued(j).lost = j.lost
         /\ Claimed(j) \in Job
         /\ Claimed(j).status = "running" /\ Claimed(j).started = now
         /\ Claimed(j).runs = j.runs + 1 /\ Claimed(j).lost = j.lost
         /\ Finished(j) \in Job
         /\ Finished(j).status = "ended"
         /\ Finished(j).runs = j.runs /\ Finished(j).lost = j.lost
         /\ OutcomeLost(j) \in Job
         /\ OutcomeLost(j).status = j.status /\ OutcomeLost(j).started = j.started
         /\ OutcomeLost(j).runs = j.runs /\ OutcomeLost(j).lost = j.lost + 1
<1> USE DEF Job, Statuses
<1>1. Requeued(j) \in Job /\ Requeued(j).status = "pending"
      /\ Requeued(j).runs = j.runs /\ Requeued(j).lost = j.lost
  BY Zenon DEF Requeued
<1>2. Claimed(j) \in Job
  <2>1. j.runs + 1 \in Nat
    OBVIOUS
  <2> QED
    BY <2>1, Zenon DEF Claimed
<1>5. /\ Claimed(j).status = "running" /\ Claimed(j).started = now
      /\ Claimed(j).runs = j.runs + 1 /\ Claimed(j).lost = j.lost
  BY Zenon DEF Claimed
<1>3. /\ Finished(j) \in Job
      /\ Finished(j).status = "ended"
      /\ Finished(j).runs = j.runs /\ Finished(j).lost = j.lost
  BY Zenon DEF Finished
<1>4. /\ OutcomeLost(j) \in Job
      /\ OutcomeLost(j).status = j.status /\ OutcomeLost(j).started = j.started
      /\ OutcomeLost(j).runs = j.runs /\ OutcomeLost(j).lost = j.lost + 1
  BY DEF OutcomeLost
<1> QED
  BY <1>1, <1>2, <1>3, <1>4, <1>5, Zenon

\* Updating one row of the table.
LEMMA UpdateRow ==
  ASSUME NEW s \in Seq(Job), NEW i \in 1 .. Len(s), NEW r \in Job
  PROVE  LET t == [s EXCEPT ![i] = r] IN
         /\ t \in Seq(Job)
         /\ Len(t) = Len(s)
         /\ t[i] = r
         /\ \A k \in 1 .. Len(s) : k # i => t[k] = s[k]
  BY ExceptSeq

-----------------------------------------------------------------------------
(* The invariant *)

\* The empty table of a fresh store satisfies the invariant.
LEMMA InitIInv == Init => IInv
<1> SUFFICES ASSUME Init PROVE IInv
  BY Zenon
<1>1. jobs \in Seq(Job) /\ Len(jobs) = 0
  BY EmptySeq, Zenon DEF Init
<1>2. TypeOK
  BY <1>1, Zenon DEF Init, TypeOK, PCs
<1>3. Ids = {}
  BY <1>1 DEF Ids
<1> QED
  BY <1>2, <1>3, Zenon DEF Init, IInv, ClaimHeld, RunsAccounted, CurInRunOne, RunningStamped

\* What the type invariant says of one row.
LEMMA RowFacts ==
  ASSUME TypeOK
  PROVE  /\ Len(jobs) \in Nat
         /\ \A i \in Ids : /\ jobs[i] \in Job
                           /\ jobs[i].status \in Statuses
                           /\ jobs[i].runs \in Nat /\ jobs[i].lost \in Nat
<1>1. jobs \in Seq(Job)
  BY Zenon DEF TypeOK
<1>2. Len(jobs) \in Nat /\ \A i \in Ids : jobs[i] \in Job
  BY <1>1, ElementOfSeq, LenProperties, Zenon DEF Ids
<1> QED
  BY <1>2, Zenon DEF Job

\* The conjuncts of IInv about the table and the goroutine.
Table == jobs \in Seq(Job) /\ ClaimHeld /\ RunsAccounted /\ CurInRunOne /\ RunningStamped

\* A step that leaves the table and the run in progress alone.
LEMMA SameTable ==
  ASSUME IInv, jobs' = jobs, cur' = cur,
         pc' \in {"exec", "finish"} <=> pc \in {"exec", "finish"}
  PROVE  Table'
  BY Zenon DEF IInv, TypeOK, Table, ClaimHeld, RunsAccounted, CurInRunOne, RunningStamped, Ids

\* A step that inserts a row nobody has run.
LEMMA InsertedRow ==
  ASSUME IInv, NEW r \in Job, r.status = "pending", r.runs = 0, r.lost = 0,
         jobs' = Append(jobs, r), UNCHANGED <<pc, cur>>
  PROVE  Table'
<1>1. /\ jobs' \in Seq(Job) /\ Len(jobs') = Len(jobs) + 1
      /\ \A i \in Ids : jobs'[i] = jobs[i]
      /\ jobs'[Len(jobs) + 1] = r
  BY AppendRow, Zenon DEF IInv, TypeOK, Ids
<1>2. Len(jobs) \in Nat /\ Ids' = Ids \cup {Len(jobs) + 1} /\ Len(jobs) + 1 \notin Ids
  BY <1>1, RowFacts DEF IInv, Ids
<1>3. ClaimHeld' /\ CurInRunOne'
  BY <1>1, <1>2, Zenon DEF IInv, ClaimHeld, CurInRunOne
<1>4. RunsAccounted'
  <2> SUFFICES ASSUME NEW i \in Ids'
               PROVE  (jobs[i].runs = jobs[i].lost
                   + (IF jobs[i].status = "ended" \/ (pc \in {"exec", "finish"} /\ cur = i) THEN 1 ELSE 0))'
    BY Zenon DEF RunsAccounted
  <2>1. CASE i \in Ids
    BY <1>1, <2>1, Zenon DEF IInv, RunsAccounted
  <2>2. CASE i = Len(jobs) + 1
    BY <1>1, <1>2, <2>2 DEF IInv, ClaimHeld
  <2> QED
    BY <1>2, <2>1, <2>2, Zenon
<1>5. RunningStamped'
  BY <1>1, <1>2, Zenon DEF IInv, RunningStamped
<1> QED
  BY <1>1, <1>3, <1>4, <1>5, Zenon DEF Table

\* requeueStale never meets the row in progress' accounting: it turns claims
\* without a runner back into pending rows.
LEMMA RequeuedRows ==
  ASSUME IInv, pc = "requeue", NEW kinds, RequeueStaleJobs(kinds), pc' = "enqueue", cur' = cur
  PROVE  Table'
<1>1. Len(jobs) \in Nat /\ \A i \in Ids : jobs[i] \in Job
  BY RowFacts, Zenon DEF IInv
<1>2. \A i \in Ids : Requeued(jobs[i]) \in Job
  BY <1>1, RowOperators, Zenon DEF IInv, TypeOK
<1>3. jobs' \in [1 .. Len(jobs) -> Job]
  BY <1>1, <1>2, Zenon DEF RequeueStaleJobs, Ids
<1>4. jobs' \in Seq(Job) /\ Ids' = Ids
  BY <1>1, <1>3, TableOfRows, Zenon DEF Ids
<1>5. \A i \in Ids : jobs'[i] = jobs[i] \/ (jobs[i].status = "running" /\ jobs'[i] = Requeued(jobs[i]))
  BY Zenon DEF RequeueStaleJobs, Stale
<1>6. \A i \in Ids : /\ Requeued(jobs[i]).status = "pending"
                     /\ Requeued(jobs[i]).runs = jobs[i].runs
                     /\ Requeued(jobs[i]).lost = jobs[i].lost
  BY <1>1, RowOperators, Zenon DEF IInv, TypeOK
<1>7. ClaimHeld' /\ CurInRunOne'
  BY Zenon DEF IInv, ClaimHeld, CurInRunOne
<1>8. RunsAccounted' /\ RunningStamped'
  BY <1>4, <1>5, <1>6 DEF IInv, RunsAccounted, RunningStamped
<1> QED
  BY <1>4, <1>7, <1>8, Zenon DEF Table

\* The claim: the row becomes the one in progress.
LEMMA ClaimedRow ==
  ASSUME IInv, NEW i \in Ids, ClaimDueJob(i)
  PROVE  Table'
<1>1. /\ Len(jobs) \in Nat /\ jobs[i] \in Job /\ jobs[i].status = "pending"
      /\ jobs[i].runs \in Nat /\ jobs[i].lost \in Nat
  BY RowFacts, Zenon DEF IInv, ClaimDueJob, OldestDue, Due
<1>2. /\ Claimed(jobs[i]) \in Job
      /\ Claimed(jobs[i]).status = "running" /\ Claimed(jobs[i]).started = now
      /\ Claimed(jobs[i]).runs = jobs[i].runs + 1 /\ Claimed(jobs[i]).lost = jobs[i].lost
  BY <1>1, RowOperators, Zenon DEF IInv, TypeOK
<1>3. /\ jobs' \in Seq(Job) /\ Len(jobs') = Len(jobs) /\ jobs'[i] = Claimed(jobs[i])
      /\ \A k \in Ids : k # i => jobs'[k] = jobs[k]
  BY <1>2, UpdateRow DEF IInv, TypeOK, ClaimDueJob, Ids
<1>4. Ids' = Ids /\ cur' = i /\ pc' = "exec" /\ pc = "claim"
  BY <1>3, Zenon DEF Ids, ClaimDueJob
<1>5. ClaimHeld' /\ CurInRunOne'
  BY <1>2, <1>3, <1>4, Zenon DEF ClaimHeld, CurInRunOne
<1>6. RunsAccounted'
  BY <1>1, <1>2, <1>3, <1>4 DEF IInv, RunsAccounted
<1>7. RunningStamped'
  BY <1>2, <1>3, <1>4, Zenon DEF IInv, TypeOK, RunningStamped
<1> QED
  BY <1>3, <1>5, <1>6, <1>7, Zenon DEF Table

\* The end of a run, recorded (FinishJob) or lost (a refused statement, an exit
\* or a crash inside runOne).
LEMMA EndedRun ==
  ASSUME IInv, pc \in {"exec", "finish"}, cur' = 0, pc' \notin {"exec", "finish"},
         \/ jobs' = [jobs EXCEPT ![cur] = Finished(jobs[cur])]
         \/ jobs' = [jobs EXCEPT ![cur] = OutcomeLost(jobs[cur])]
  PROVE  Table'
<1>1. /\ Len(jobs) \in Nat /\ cur \in Ids /\ jobs[cur] \in Job /\ jobs[cur].status = "running"
      /\ jobs[cur].runs \in Nat /\ jobs[cur].lost \in Nat
      /\ jobs[cur].started \in Nat /\ jobs[cur].runs = jobs[cur].lost + 1
  BY RowFacts, Zenon DEF IInv, ClaimHeld, RunsAccounted, RunningStamped
<1> DEFINE r == jobs'[cur]
<1>2. /\ Finished(jobs[cur]) \in Job
      /\ Finished(jobs[cur]).status = "ended"
      /\ Finished(jobs[cur]).runs = jobs[cur].runs /\ Finished(jobs[cur]).lost = jobs[cur].lost
      /\ OutcomeLost(jobs[cur]) \in Job
      /\ OutcomeLost(jobs[cur]).status = "running"
      /\ OutcomeLost(jobs[cur]).started = jobs[cur].started
      /\ OutcomeLost(jobs[cur]).runs = jobs[cur].runs
      /\ OutcomeLost(jobs[cur]).lost = jobs[cur].lost + 1
  BY <1>1, RowOperators, Zenon DEF IInv, TypeOK
<1>3. /\ jobs' \in Seq(Job) /\ Len(jobs') = Len(jobs)
      /\ r = Finished(jobs[cur]) \/ r = OutcomeLost(jobs[cur])
      /\ \A k \in Ids : k # cur => jobs'[k] = jobs[k]
  BY <1>1, <1>2, UpdateRow DEF IInv, TypeOK, Ids
<1>4. Ids' = Ids
  BY <1>3, Zenon DEF Ids
<1>5. ClaimHeld' /\ CurInRunOne'
  BY Zenon DEF ClaimHeld, CurInRunOne
<1>6. RunsAccounted'
  BY <1>1, <1>2, <1>3, <1>4 DEF IInv, RunsAccounted
<1>7. RunningStamped'
  BY <1>1, <1>2, <1>3, <1>4 DEF IInv, RunningStamped
<1> QED
  BY <1>3, <1>5, <1>6, <1>7, Zenon DEF Table

\* Every action keeps the scalar variables in their types.
LEMMA NextScalars ==
  ASSUME IInv, Next
  PROVE  /\ now' \in Nat /\ pc' \in PCs /\ todo' \subseteq Kinds /\ ins' \subseteq Kinds
         /\ cur' \in Nat /\ stop' \in {"no", "cancelled", "closed"}
         /\ inputs' \in Nat /\ faults' \in Nat
<1> USE TimeAssumption DEF IInv, TypeOK, PCs
<1>1. CASE RequeueStale
  BY <1>1 DEF RequeueStale, Accepted, Refused
<1>2. CASE Enqueue
  BY <1>2 DEF Enqueue, EnqueueDone, EnqueueRead, EnqueueInsert, Accepted, Refused
<1>3. CASE Claim
  BY <1>3, RowFacts DEF Claim, ClaimNone, ClaimDueJob, Ids, Accepted, Refused
<1>4. CASE Run
  BY <1>4 DEF Run, FinishJob, Exec
<1>5. CASE NextTick \/ Return
  BY <1>5, Zenon DEF NextTick, Return
<1>6. CASE Outside
  BY <1>6 DEF Outside, EnqueueJob, ScheduleReap
<1>7. CASE Tick \/ Stop \/ CloseStore \/ Start
  BY <1>7 DEF Tick, Stop, CloseStore, Start
<1>8. CASE Exit \/ Crash
  BY <1>8 DEF Exit, Crash, Down
<1> QED
  BY <1>1, <1>2, <1>3, <1>4, <1>5, <1>6, <1>7, <1>8, Zenon DEF Next, Loop

\* Every step of the loop, of the inputs and of the process keeps the invariant.
LEMMA NextIInv == IInv /\ [Next]_vars => IInv'
<1> SUFFICES ASSUME IInv, [Next]_vars PROVE IInv'
  BY Zenon
<1>1. CASE UNCHANGED vars
  BY <1>1, Zenon DEF vars, IInv, TypeOK, ClaimHeld, RunsAccounted, CurInRunOne, RunningStamped, Ids
<1>2. CASE Next
  <2>1. Table'
    <3>1. CASE RequeueStale
      <4>1. CASE \E kinds \in SUBSET Kinds : RequeueStaleJobs(kinds)
        BY <3>1, <4>1, RequeuedRows, Zenon DEF RequeueStale
      <4>2. CASE UNCHANGED jobs
        BY <3>1, <4>2, SameTable, Zenon DEF RequeueStale
      <4> QED
        BY <3>1, <4>1, <4>2, Zenon DEF RequeueStale
    <3>2. ASSUME NEW k \in Kinds, EnqueueInsert(k) PROVE Table'
      <4>1. CASE UNCHANGED jobs
        BY <3>2, <4>1, SameTable, Zenon DEF EnqueueInsert
      <4>2. CASE jobs' = Append(jobs, Pending(k, NoAgent, now))
        <5>1. now \in Nat
          BY Zenon DEF IInv, TypeOK
        <5> QED
          BY <3>2, <4>2, <5>1, PendingIsJob, InsertedRow, Zenon DEF EnqueueInsert
      <4> QED
        BY <3>2, <4>1, <4>2, Zenon DEF EnqueueInsert
    <3>3. ASSUME NEW k \in Kinds, NEW a \in Agents \cup {NoAgent}, EnqueueJob(k, a) PROVE Table'
      BY <3>3, PendingIsJob, InsertedRow, Zenon DEF EnqueueJob, IInv, TypeOK
    <3>4. ASSUME NEW a \in Agents, ScheduleReap(a) PROVE Table'
      <4>1. now + Retention \in Nat /\ ReapKind \in Kinds
        BY TimeAssumption, KindsAssumption DEF IInv, TypeOK
      <4> QED
        BY <3>4, <4>1, PendingIsJob, InsertedRow, Zenon DEF ScheduleReap
    <3>5. ASSUME NEW i \in Ids, ClaimDueJob(i) PROVE Table'
      BY <3>5, ClaimedRow, Zenon
    <3>6. CASE FinishJob
      BY <3>6, EndedRun, Zenon DEF FinishJob
    <3>7. CASE Exit \/ Crash
      <4>1. CASE cur = 0
        <5>1. pc \notin {"exec", "finish"}
          BY <4>1, RowFacts DEF IInv, ClaimHeld, Ids
        <5> QED
          BY <3>7, <4>1, <5>1, SameTable, Zenon DEF Exit, Crash, Down, Lost
      <4>2. CASE cur # 0
        <5>1. pc \in {"exec", "finish"}
          BY <4>2, Zenon DEF IInv, CurInRunOne
        <5> QED
          BY <3>7, <4>2, <5>1, EndedRun, Zenon DEF Exit, Crash, Down, Lost
      <4> QED
        BY <4>1, <4>2, Zenon
    <3>8. CASE EnqueueDone \/ (\E k \in Kinds : EnqueueRead(k)) \/ ClaimNone \/ Exec
      BY <3>8, SameTable, Zenon DEF EnqueueDone, EnqueueRead, ClaimNone, Exec
    <3>9. CASE NextTick \/ Return \/ Tick \/ Stop \/ CloseStore \/ Start
      BY <3>9, SameTable, Zenon DEF NextTick, Return, Tick, Stop, CloseStore, Start
    <3> QED
      BY <1>2, <3>1, <3>2, <3>3, <3>4, <3>5, <3>6, <3>7, <3>8, <3>9, Zenon
         DEF Next, Loop, Enqueue, Claim, Run, Outside
  <2> QED
    BY <1>2, <2>1, NextScalars, Zenon DEF IInv, TypeOK, Table
<1> QED
  BY <1>1, <1>2, Zenon

\* The inductive invariant holds in every behaviour of the scheduler loop.
THEOREM Inductive == Spec => []IInv
  BY InitIInv, NextIInv, PTL DEF Spec

-----------------------------------------------------------------------------
(* What follows *)

\* The variables of the scheduler loop and the rows of the jobs table keep
\* their types.
THEOREM TypeCorrect == Spec => []TypeOK
<1>1. IInv => TypeOK
  BY Zenon DEF IInv
<1> QED
  BY <1>1, Inductive, PTL

\* The row a live runner works on is claimed in the table: neither
\* RequeueStaleJobs nor anyone's FinishJob takes it away from runOne.
THEOREM ClaimsAreHeld == Spec => []ClaimHeld
<1>1. IInv => ClaimHeld
  BY Zenon DEF IInv
<1> QED
  BY <1>1, Inductive, PTL

\* Every claim of a row by ClaimDueJob ends in a recorded outcome, is still
\* being run, or lost its outcome: no row is run twice otherwise.
THEOREM EveryRunAccounted == Spec => []RunsAccounted
<1>1. IInv => RunsAccounted
  BY Zenon DEF IInv
<1> QED
  BY <1>1, Inductive, PTL

\* What any step does to a row that exists: it stays; it is unchanged unless it
\* was pending and claimed, running and ended, or requeued as stale.
LEMMA RowStep ==
  ASSUME IInv, Next
  PROVE  \A i \in Ids :
           /\ i <= Len(jobs')
           /\ \/ jobs'[i] = jobs[i]
              \/ jobs[i].status = "pending" /\ jobs'[i].status = "running"
              \/ jobs[i].status = "running" /\ jobs'[i].status # "pending"
              \/ jobs[i].status = "running" /\ Stale(jobs[i]) /\ cur = 0
<1> USE RowFacts DEF IInv
<1>1. CASE UNCHANGED jobs
  BY <1>1 DEF Ids
<1>2. CASE RequeueStale
  <2>1. CASE \E kinds \in SUBSET Kinds : RequeueStaleJobs(kinds)
    <3>1. PICK kinds \in SUBSET Kinds : RequeueStaleJobs(kinds)
      BY <2>1, Zenon
    <3>2. \A i \in Ids : Requeued(jobs[i]) \in Job
      BY RowOperators, Zenon DEF TypeOK
    <3>3. jobs' \in [1 .. Len(jobs) -> Job]
      BY <3>1, <3>2, Zenon DEF RequeueStaleJobs, Ids
    <3>4. Len(jobs') = Len(jobs)
      BY <3>3, TableOfRows, Zenon
    <3> QED
      BY <1>2, <3>1, <3>4 DEF RequeueStale, RequeueStaleJobs, Stale, Ids, CurInRunOne
  <2> QED
    BY <1>1, <1>2, <2>1, Zenon DEF RequeueStale
<1>3. ASSUME NEW r \in Job, jobs' = Append(jobs, r)
      PROVE  \A i \in Ids : i <= Len(jobs') /\ jobs'[i] = jobs[i]
  BY <1>3, AppendRow DEF TypeOK, Ids
<1>4. ASSUME NEW i \in Ids, ClaimDueJob(i)
      PROVE  /\ Len(jobs') = Len(jobs) /\ jobs[i].status = "pending" /\ jobs'[i].status = "running"
             /\ \A k \in Ids : k # i => jobs'[k] = jobs[k]
  <2>1. Claimed(jobs[i]) \in Job /\ Claimed(jobs[i]).status = "running"
    BY RowOperators, Zenon DEF TypeOK
  <2> QED
    BY <1>4, <2>1, UpdateRow DEF ClaimDueJob, OldestDue, Due, TypeOK, Ids
<1>5. ASSUME pc \in {"exec", "finish"},
             \/ jobs' = [jobs EXCEPT ![cur] = Finished(jobs[cur])]
             \/ jobs' = [jobs EXCEPT ![cur] = OutcomeLost(jobs[cur])]
      PROVE  /\ Len(jobs') = Len(jobs) /\ jobs[cur].status = "running" /\ jobs'[cur].status # "pending"
             /\ \A k \in Ids : k # cur => jobs'[k] = jobs[k]
  <2>1. cur \in Ids /\ jobs[cur].status = "running"
    BY <1>5, Zenon DEF ClaimHeld
  <2>2. /\ Finished(jobs[cur]) \in Job /\ Finished(jobs[cur]).status = "ended"
        /\ OutcomeLost(jobs[cur]) \in Job /\ OutcomeLost(jobs[cur]).status = "running"
    BY <2>1, RowOperators, Zenon DEF TypeOK
  <2> QED
    BY <1>5, <2>1, <2>2, UpdateRow DEF TypeOK, Ids
<1>6. CASE (\E k \in Kinds : EnqueueInsert(k)) \/ Outside
  <2>1. now \in Nat /\ now + Retention \in Nat /\ ReapKind \in Kinds
    BY TimeAssumption, KindsAssumption DEF TypeOK
  <2>2. UNCHANGED jobs \/ \E r \in Job : jobs' = Append(jobs, r)
    BY <1>6, <2>1, PendingIsJob, Zenon DEF EnqueueInsert, Outside, EnqueueJob, ScheduleReap
  <2> QED
    BY <1>1, <1>3, <2>2, Zenon
<1>7. CASE \E i \in Ids : ClaimDueJob(i)
  BY <1>4, <1>7 DEF Ids
<1>8. CASE FinishJob \/ Exit \/ Crash
  <2>1. \/ UNCHANGED jobs
        \/ /\ pc \in {"exec", "finish"}
           /\ \/ jobs' = [jobs EXCEPT ![cur] = Finished(jobs[cur])]
              \/ jobs' = [jobs EXCEPT ![cur] = OutcomeLost(jobs[cur])]
    BY <1>8, Zenon DEF FinishJob, Exit, Crash, Down, Lost, CurInRunOne
  <2> QED
    BY <1>1, <1>5, <2>1 DEF Ids
<1>9. CASE EnqueueDone \/ (\E k \in Kinds : EnqueueRead(k)) \/ ClaimNone \/ Exec
  BY <1>1, <1>9, Zenon DEF EnqueueDone, EnqueueRead, ClaimNone, Exec
<1>10. CASE NextTick \/ Return \/ Tick \/ Stop \/ CloseStore \/ Start
  BY <1>1, <1>10, Zenon DEF NextTick, Return, Tick, Stop, CloseStore, Start
<1> QED
  BY <1>2, <1>6, <1>7, <1>8, <1>9, <1>10, Zenon DEF Next, Loop, Enqueue, Claim, Run, Outside

\* A recorded outcome is final: no step of the loop, the jobs API or a restart
\* rewrites a row FinishJob has ended, or drops a row.
THEOREM OutcomesAreFinal == Spec => OutcomeIsFinal
<1> DEFINE A == \A i \in Ids : i <= Len(jobs') /\ (jobs[i].status = "ended" => jobs'[i] = jobs[i])
<1>1. IInv /\ [Next]_vars => [A]_vars
  BY RowStep, Zenon DEF vars
<1> QED
  BY <1>1, Inductive, PTL DEF Spec, OutcomeIsFinal
=============================================================================
