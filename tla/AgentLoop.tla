------------------------------ MODULE AgentLoop ------------------------------
(***************************************************************************)
(* One agent and its Fleet server: the control loop of agent/run/loop.go,  *)
(* the client of agent/poll, and the handlers behind it (requireAgent,     *)
(* handlePoll, handleReport of fleet/api/agent_endpoints.go).              *)
(*                                                                         *)
(* The loop is one goroutine with at most one request outstanding.  A      *)
(* request may be lost, or time out at the client while its handler goes   *)
(* on at the server, so that the handlers of several requests overlap.     *)
(* A policy is identified with its ETag, which is a hash of its content.   *)
(***************************************************************************)
EXTENDS Naturals

CONSTANTS
  Policies,   \* ETags
  First,      \* the policy of the group at enrollment
  Tasks,      \* snapshots the engine runs by itself
  Slots,      \* handlers the server may be running at once
  Events,     \* which of "crash", "store", "partial", "revoke" may happen
  None,
  MaxCommands \* bound: commands are numbered 1 .. MaxCommands

ASSUME AgentLoopAssumption ==
  /\ First \in Policies /\ None \notin Policies \cup Tasks \cup Slots \cup Nat /\ Tasks \cap Nat = {}
  /\ Events \subseteq {"crash", "store", "partial", "revoke"}
  /\ MaxCommands \in Nat

Commands == 1 .. MaxCommands

VARIABLES
  policy,    \* the policy document of the agent's group
  issued,    \* commands rows: 1 .. issued exist
  acked,     \* commands with acked_at set
  reports,   \* keys of the reports rows
  etag,      \* agents.policy_etag
  revoked,   \* agents.revoked_at is set
  srv,       \* the handler in each slot
  agent,     \* the loop
  saved,     \* the ETag in agent.json
  engine,    \* the policy the engine runs
  finished,  \* finished tasks the engine still lists
  seen,      \* Loop.seen
  executed,  \* highest command carried out so far
  applied    \* policies that were applied completely so far

server == <<policy, issued, acked, reports, etag, revoked>>
device == <<saved, engine, finished, seen, executed, applied>>
vars == <<server, srv, agent, device>>

Free == [op |-> "none", pc |-> "auth", live |-> FALSE, etag |-> None, key |-> None, doc |-> None]
Waiting == [pc |-> "idle", etag |-> None, slot |-> None, doc |-> None, queue |-> {}]

\* Report keys: a command's id, or the task.  Both ends of the "cmd-<id>" and
\* "<start>-<task>" scheme are unique, so a key is the thing itself.
Keys == Commands \cup Tasks

Handler == [op : {"none", "poll", "report"}, pc : {"auth", "touch", "pending", "add", "ack"}, live : BOOLEAN,
            etag : Policies \cup {None}, key : Keys \cup {None}, doc : Policies \cup {None}]

Loop == [pc : {"idle", "waiting", "apply", "next", "stopped"}, etag : Policies \cup {None},
         slot : Slots \cup {None}, doc : Policies \cup {None}, queue : SUBSET Keys]

TypeOK ==
  /\ policy \in Policies /\ issued \in 0 .. MaxCommands /\ acked \subseteq 1 .. issued
  /\ reports \subseteq Keys /\ etag \in Policies \cup {None} /\ revoked \in BOOLEAN
  /\ srv \in [Slots -> Handler]
  /\ agent \in Loop
  /\ saved \in Policies \cup {None} /\ engine \in Policies \cup {None, "mixed"}
  /\ finished \subseteq Tasks /\ seen \subseteq Tasks /\ executed \in 0 .. MaxCommands
  /\ applied \subseteq Policies

\* Just enrolled: nothing applied, no ETag.
Init ==
  /\ policy = First /\ issued = 0 /\ acked = {} /\ reports = {} /\ etag = None /\ revoked = FALSE
  /\ srv = [s \in Slots |-> Free]
  /\ agent = Waiting
  /\ saved = None /\ engine = None /\ finished = {} /\ seen = {} /\ executed = 0 /\ applied = {}

-----------------------------------------------------------------------------
(* The admin and the engine *)

SetPolicy(p) ==
  /\ p # policy
  /\ policy' = p
  /\ UNCHANGED <<issued, acked, reports, etag, revoked, srv, agent, device>>

AddCommand ==
  /\ issued < MaxCommands
  /\ issued' = issued + 1
  /\ UNCHANGED <<policy, acked, reports, etag, revoked, srv, agent, device>>

Revoke ==
  /\ "revoke" \in Events /\ ~revoked
  /\ revoked' = TRUE
  /\ UNCHANGED <<policy, issued, acked, reports, etag, srv, agent, device>>

\* A task ends, or one that is not followed (None).  Where the list has become longer than maxFinishedTasks, the task
\* that started first leaves it, be it reported or not; the limit counts all tasks, so it may be any of those followed.
TaskEnds(t) ==
  /\ t \notin finished \cup reports /\ agent.pc # "stopped"
  /\ \E oldest \in Tasks \cup {None} : finished' = (finished \cup ({t} \cap Tasks)) \ {oldest}
  /\ UNCHANGED <<server, srv, agent, saved, engine, seen, executed, applied>>

-----------------------------------------------------------------------------
(* The loop *)

\* The client posts; the request gets a handler at the server.
Post(s, op, key) ==
  /\ srv[s] = Free
  /\ srv' = [srv EXCEPT ![s] = [op |-> op, pc |-> "auth", live |-> TRUE, key |-> key, doc |-> None,
                                etag |-> IF op = "poll" THEN agent.etag ELSE None]]
  /\ agent' = [agent EXCEPT !.pc = "waiting", !.slot = s]

\* PollOnce or WatchOnce is over.
Returned == [agent EXCEPT !.pc = "idle", !.slot = None, !.doc = None, !.queue = {}]

StartPoll(s) ==
  /\ agent.pc = "idle"
  /\ Post(s, "poll", None)
  /\ UNCHANGED <<server, device>>

\* Mutant: tasks are remembered before they are reported.
StartWatchMarks ==
  /\ agent.pc = "idle" /\ ~(finished \subseteq seen)
  /\ agent' = [agent EXCEPT !.pc = "next", !.queue = finished \ seen]
  /\ seen' = seen \cup finished
  /\ UNCHANGED <<server, srv, saved, engine, finished, executed, applied>>

\* WatchOnce: the finished tasks that are not in seen, one report each.
StartWatch ==
  /\ agent.pc = "idle" /\ ~(finished \subseteq seen)
  /\ agent' = [agent EXCEPT !.pc = "next", !.queue = finished \ seen]
  /\ UNCHANGED <<server, srv, device>>

\* Mutant: the ETag is adopted before Apply has succeeded.
ApplyAdoptsFirst ==
  /\ agent.pc = "apply"
  /\ \/ /\ engine' = agent.doc /\ applied' = applied \cup {agent.doc}
        /\ agent' = [agent EXCEPT !.pc = "next", !.etag = agent.doc, !.doc = None]
        /\ saved' \in {saved, agent.doc}
     \/ agent' = [Returned EXCEPT !.etag = agent.doc] /\ UNCHANGED <<engine, saved, applied>>
  /\ UNCHANGED <<server, srv, finished, seen, executed>>

\* A new document: Apply, then the new ETag in memory and, best effort, on
\* disk.  A failed Apply ends the poll; it may have set some of the sources.
Apply ==
  /\ agent.pc = "apply"
  /\ \/ /\ engine' = agent.doc /\ applied' = applied \cup {agent.doc}
        /\ agent' = [agent EXCEPT !.pc = "next", !.etag = agent.doc, !.doc = None]
        /\ saved' \in {saved, agent.doc}
     \/ /\ engine' \in {engine} \cup (IF "partial" \in Events THEN {"mixed"} ELSE {})
        /\ agent' = Returned
        /\ UNCHANGED <<saved, applied>>
  /\ UNCHANGED <<server, srv, finished, seen, executed>>

\* Mutant: commands are taken from the end of the list.
CarryOutLast(s, c) ==
  /\ agent.pc = "next" /\ c \in agent.queue
  /\ c \in Commands => \A d \in agent.queue : d <= c
  /\ executed' = IF c \in Commands /\ c > executed THEN c ELSE executed
  /\ Post(s, "report", c)
  /\ UNCHANGED <<server, saved, engine, finished, seen, applied>>

\* Carry out the next command of the document (they are listed by id) and
\* report it, or report the next task (listed in any order).
CarryOut(s, c) ==
  /\ agent.pc = "next" /\ c \in agent.queue
  /\ c \in Commands => \A d \in agent.queue : c <= d
  /\ executed' = IF c \in Commands /\ c > executed THEN c ELSE executed
  /\ Post(s, "report", c)
  /\ UNCHANGED <<server, saved, engine, finished, seen, applied>>

Done ==
  /\ agent.pc = "next" /\ agent.queue = {}
  /\ agent' = Returned
  /\ UNCHANGED <<server, srv, device>>

\* The request is lost, or its answer is, or the client's timeout comes first.
Timeout ==
  /\ agent.pc = "waiting"
  /\ \/ srv[agent.slot].pc = "auth" /\ srv' = [srv EXCEPT ![agent.slot] = Free]
     \/ srv' = [srv EXCEPT ![agent.slot].live = FALSE]
  /\ agent' = Returned
  /\ UNCHANGED <<server, device>>

\* The agent dies and is started again.  The engine's policies are in the
\* repository; its task list is not.
Crash ==
  /\ "crash" \in Events /\ agent.pc # "stopped"
  /\ agent' = [Waiting EXCEPT !.etag = saved]
  /\ finished' = {} /\ seen' = {}
  /\ srv' = [s \in Slots |-> IF srv[s] = Free THEN Free ELSE [srv[s] EXCEPT !.live = FALSE]]
  /\ UNCHANGED <<server, saved, engine, executed, applied>>

-----------------------------------------------------------------------------
(* The handlers *)

\* Handler s answers: the client, if it still waits, goes on as agent a.
Answer(s, a) ==
  /\ srv' = [srv EXCEPT ![s] = Free]
  /\ agent' = IF srv[s].live THEN a ELSE agent

Step(s, h) == srv' = [srv EXCEPT ![s] = h] /\ UNCHANGED agent

\* Run returns ErrRevoked: the process exits with a status that its service
\* manager does not restart.
Stopped == [Returned EXCEPT !.pc = "stopped"]

\* An internal error at the server: the client gives up this round.
Fail(s) ==
  /\ srv[s].op # "none" /\ srv[s].pc # "auth"
  /\ Answer(s, Returned)
  /\ UNCHANGED <<server, device>>

\* requireAgent: 401 for a revoked agent, and for a store that cannot be read.
\* handlePoll then reads the policy document, handleReport keeps the row.
Authenticate(s) ==
  /\ srv[s].op # "none" /\ srv[s].pc = "auth"
  /\ \/ /\ revoked \/ "store" \in Events
        /\ Answer(s, Stopped)
     \/ /\ ~revoked /\ srv[s].op = "poll"
        /\ Step(s, [srv[s] EXCEPT !.pc = "touch", !.doc = policy])
     \/ /\ ~revoked /\ srv[s].op = "report"
        /\ Step(s, [srv[s] EXCEPT !.pc = "add", !.etag = etag])
  /\ UNCHANGED <<server, device>>

\* Mutant: the policy on offer is recorded as applied.
PollTouchOffered(s) ==
  /\ srv[s].op = "poll" /\ srv[s].pc = "touch"
  /\ etag' = srv[s].doc
  /\ Step(s, [srv[s] EXCEPT !.pc = "pending"])
  /\ UNCHANGED <<policy, issued, acked, reports, revoked, device>>

\* handlePoll records the ETag the agent sent ...
PollTouch(s) ==
  /\ srv[s].op = "poll" /\ srv[s].pc = "touch"
  /\ etag' \in {etag, srv[s].etag}
  /\ Step(s, [srv[s] EXCEPT !.pc = "pending"])
  /\ UNCHANGED <<policy, issued, acked, reports, revoked, device>>

\* PendingCommands.
Pending == 1 .. issued \ acked

\* Mutant: an unchanged ETag is answered before the commands are looked at.
PollAnswerEarly(s) ==
  /\ srv[s].op = "poll" /\ srv[s].pc = "pending"
  /\ Answer(s, IF srv[s].doc = srv[s].etag THEN Returned
               ELSE [agent EXCEPT !.pc = "apply", !.slot = None, !.doc = srv[s].doc, !.queue = Pending])
  /\ UNCHANGED <<server, device>>

\* ... and answers with the document and the pending commands; 304 when the
\* ETag is the agent's and there are none.
PollAnswer(s) ==
  /\ srv[s].op = "poll" /\ srv[s].pc = "pending"
  /\ Answer(s, IF srv[s].doc # srv[s].etag
               THEN [agent EXCEPT !.pc = "apply", !.slot = None, !.doc = srv[s].doc, !.queue = Pending]
               ELSE [agent EXCEPT !.pc = IF Pending = {} THEN "idle" ELSE "next", !.slot = None, !.queue = Pending])
  /\ UNCHANGED <<server, device>>

\* Mutant: the command is acknowledged before its report is stored.
ReportAddLate(s) ==
  /\ srv[s].op = "report" /\ srv[s].pc = "add"
  /\ acked' = acked \cup ({srv[s].key} \cap Commands)
  /\ reports' = reports \cup ({srv[s].key} \cap Tasks)
  /\ Step(s, [srv[s] EXCEPT !.pc = "ack"])
  /\ UNCHANGED <<policy, issued, etag, revoked, device>>

\* handleReport: AddReport, where a known key changes nothing ...
ReportAdd(s) ==
  /\ srv[s].op = "report" /\ srv[s].pc = "add"
  /\ reports' = reports \cup {srv[s].key}
  /\ Step(s, [srv[s] EXCEPT !.pc = "ack"])
  /\ UNCHANGED <<policy, issued, acked, etag, revoked, device>>

\* ... AckCommand for a command ...
ReportAck(s) ==
  /\ srv[s].op = "report" /\ srv[s].pc = "ack"
  /\ acked' = acked \cup ({srv[s].key} \cap Commands)
  /\ Step(s, [srv[s] EXCEPT !.pc = "touch"])
  /\ UNCHANGED <<policy, issued, reports, etag, revoked, device>>

\* ... and TouchAgent with the ETag the row had when the request came in.
\* The client goes on with its list; a reported task is marked as seen.
ReportAnswer(s) ==
  /\ srv[s].op = "report" /\ srv[s].pc = "touch"
  /\ etag' \in {etag, srv[s].etag}
  /\ Answer(s, [agent EXCEPT !.pc = "next", !.slot = None, !.queue = @ \ {srv[s].key}])
  /\ seen' = IF srv[s].live THEN seen \cup ({srv[s].key} \cap Tasks) ELSE seen
  /\ UNCHANGED <<policy, issued, acked, reports, revoked, saved, engine, finished, executed, applied>>

Next ==
  \/ \E p \in Policies : SetPolicy(p)
  \/ AddCommand \/ Revoke \/ (\E t \in Tasks \cup {None} : TaskEnds(t))
  \/ \E s \in Slots :
       \/ StartPoll(s) \/ (\E c \in Keys : CarryOut(s, c))
       \/ Authenticate(s) \/ PollTouch(s) \/ PollAnswer(s)
       \/ ReportAdd(s) \/ ReportAck(s) \/ ReportAnswer(s) \/ Fail(s)
  \/ StartWatch \/ Apply \/ Done \/ Timeout \/ Crash

Spec == Init /\ [][Next]_vars

-----------------------------------------------------------------------------
(* Properties *)

\* Commands take effect in the order they were given: once a command has been
\* carried out, no earlier one is carried out again, through lost reports,
\* redelivery, late handlers and restarts.  (A pause after its resume would
\* leave the device without backups.)
CommandOrder ==
  [][\A c \in Commands : agent.pc = "next" /\ agent'.pc = "waiting" /\ srv'[agent'.slot].key = c
       => c >= executed]_vars

\* A command that counts as done was carried out and its report is stored.
AckedIsReported == acked \subseteq reports /\ \A c \in acked : c <= executed

\* "reports every finished task not yet reported, then remembers it": a task that WatchOnce will not report again is in
\* the server's records, whatever was lost or answered late.
SeenIsReported == seen \subseteq reports

\* "recording doc.ETag here would show the fleet a policy as applied that the
\* agent may never receive": the recorded ETag is one the agent did apply.
RecordedWasApplied == etag \in applied \cup {None}

\* "ErrRevoked means the Fleet no longer accepts this agent's bearer token":
\* the agent stops for good only when it was revoked.
StopsOnlyWhenRevoked == agent.pc = "stopped" => revoked

-----------------------------------------------------------------------------
(* Liveness.  The timers of Run fire again and again and handlers run to   *)
(* their end; the network, the store and the engine do not fail for ever,  *)
(* and the admin stops changing the policy.                                *)

Live(s, op) == srv[s].live /\ srv[s].op = op

Fairness ==
  /\ SF_vars(\E s \in Slots : StartPoll(s)) /\ SF_vars(StartWatch)
  /\ WF_vars(\E s \in Slots, c \in Keys : CarryOut(s, c)) /\ WF_vars(Done)
  /\ SF_vars(Apply /\ agent'.pc = "next")
  /\ \A s \in Slots :
       /\ \A op \in {"poll", "report"} : SF_vars(Authenticate(s) /\ Live(s, op))
       /\ SF_vars(PollTouch(s) /\ srv[s].live /\ etag' = srv[s].etag)
       /\ SF_vars(PollAnswer(s) /\ srv[s].live)
       /\ SF_vars(ReportAdd(s) /\ srv[s].live) /\ SF_vars(ReportAck(s) /\ srv[s].live)
       /\ SF_vars(ReportAnswer(s) /\ srv[s].live)
       /\ WF_vars(Fail(s) \/ Authenticate(s) \/ PollTouch(s) \/ PollAnswer(s) \/ ReportAdd(s) \/ ReportAck(s) \/ ReportAnswer(s))

Calm == \E p \in Policies : <>[](policy = p)

FairSpec == Spec /\ Fairness

\* Every command is carried out and acknowledged, unless the agent is revoked.
CommandsDone == \A c \in Commands : c <= issued ~> (c \in acked \/ revoked)

\* A revoked agent stops.
RevokedStops == revoked ~> agent.pc = "stopped"

\* Once the admin leaves the policy alone the engine comes to run it and the
\* server comes to record it.
Converges == Calm => (<>[](engine = policy /\ etag = policy) \/ <>revoked)
=============================================================================
