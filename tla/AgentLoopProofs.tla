--------------------------- MODULE AgentLoopProofs ---------------------------
(***************************************************************************)
(* Proofs about AgentLoop, for any number of policies, commands, tasks and *)
(* overlapping handlers.                                                   *)
(*                                                                         *)
(* The argument for CommandOrder: a list of commands is cut from the       *)
(* unacknowledged ones, so it holds every unacknowledged command below any *)
(* of its members (Prefix); a member leaves it only when it is             *)
(* acknowledged; so what is carried out next has nothing unacknowledged    *)
(* below it, and everything below the highest command carried out is       *)
(* acknowledged (Settled) and is never listed again (Ahead).               *)
(***************************************************************************)
EXTENDS AgentLoop, TLAPS

\* What a handler knows of the state it left behind.
HandlerInv ==
  \A s \in Slots :
    LET h == srv[s] IN
    /\ h.etag \in applied \cup {None}
    /\ h.op = "poll" /\ h.pc # "auth" => h.doc \in Policies
    /\ h.op = "report" => h.key \in Keys
    /\ h.op = "report" /\ h.key \in Commands => h.key <= executed
    /\ h.op = "report" /\ h.pc \in {"ack", "touch"} => h.key \in reports
    /\ h.op = "report" /\ h.pc = "touch" /\ h.key \in Commands => h.key \in acked

\* What the loop is doing.
LoopInv ==
  /\ agent.pc = "waiting" => agent.slot \in Slots
  /\ agent.pc = "apply" => agent.doc \in Policies
  /\ agent.queue \cap Commands \subseteq 1 .. issued

EtagInv == {agent.etag, saved, etag} \subseteq applied \cup {None}

\* Everything below the highest command carried out is acknowledged.
Settled == executed <= issued /\ \A c \in Commands : c < executed => c \in acked

\* No listed command is below it.
Ahead == \A c \in agent.queue \cap Commands : executed <= c

\* A list holds every unacknowledged command below its members.
Prefix ==
  \A m \in agent.queue \cap Commands : \A c \in Commands : c < m /\ c \notin acked => c \in agent.queue

IInv == TypeOK /\ HandlerInv /\ LoopInv /\ EtagInv /\ Settled /\ Ahead /\ Prefix /\ AckedIsReported

\* The three ways a handler's record changes without leaving its type.
LEMMA HandlerUpdates ==
  ASSUME NEW h \in Handler, NEW d \in Policies \cup {None}
  PROVE  /\ [h EXCEPT !.live = FALSE] \in Handler
         /\ [h EXCEPT !.pc = "touch", !.doc = d] \in Handler
         /\ [h EXCEPT !.pc = "add", !.etag = d] \in Handler
  BY Zenon DEF Handler

\* A freshly enrolled agent and its server satisfy the invariant.
LEMMA InitIInv == Init => IInv
<1> SUFFICES ASSUME Init PROVE IInv
  BY Zenon
<1> USE AgentLoopAssumption DEF Init, Free, Waiting, Keys, Commands
<1>1. TypeOK
  <2>1. agent \in Loop
    BY Zenon DEF Loop
  <2>2. srv \in [Slots -> Handler]
    BY Zenon DEF Handler
  <2>3. policy \in Policies /\ issued \in 0 .. MaxCommands /\ acked \subseteq 1 .. issued
    OBVIOUS
  <2>4. reports \subseteq Keys /\ etag \in Policies \cup {None} /\ revoked \in BOOLEAN
    BY Zenon
  <2>5. saved \in Policies \cup {None} /\ engine \in Policies \cup {None, "mixed"}
    BY Zenon
  <2>6. finished \subseteq Tasks /\ seen \subseteq Tasks /\ executed \in 0 .. MaxCommands /\ applied \subseteq Policies
    OBVIOUS
  <2> QED
    BY <2>1, <2>2, <2>3, <2>4, <2>5, <2>6, Zenon DEF TypeOK
<1>2. HandlerInv
  BY Zenon DEF HandlerInv
<1>3. LoopInv
  BY Zenon DEF LoopInv
<1>4. EtagInv
  BY Zenon DEF EtagInv
<1>5. Settled
  BY DEF Settled
<1>6. Ahead
  BY Zenon DEF Ahead
<1>7. Prefix
  BY Zenon DEF Prefix
<1>8. AckedIsReported
  BY Zenon DEF AckedIsReported
<1> QED
  BY <1>1, <1>2, <1>3, <1>4, <1>5, <1>6, <1>7, <1>8, Zenon DEF IInv

\* A new policy touches nothing that a handler or the loop holds.
LEMMA SetPolicyKeeps ==
  ASSUME IInv, NEW p \in Policies, SetPolicy(p)
  PROVE  IInv'
<1> USE AgentLoopAssumption DEF IInv, TypeOK, SetPolicy, server, device
<1>1. TypeOK'
  BY DEF HandlerInv, LoopInv, Settled, Handler, Loop, Keys, Commands
<1>2. HandlerInv'
  BY Zenon DEF HandlerInv, LoopInv, EtagInv, Settled, Handler, Loop, Keys, Commands
<1>3. LoopInv'
  BY Zenon DEF LoopInv, HandlerInv, Handler, Loop, Keys, Commands
<1>4. EtagInv'
  BY Zenon DEF EtagInv, HandlerInv, Handler, Loop
<1>5. Settled'
  BY Zenon DEF Settled, LoopInv, Ahead, Prefix, Loop, Keys, Commands
<1>6. Ahead'
  BY Zenon DEF Ahead, Settled, Handler, Loop, Keys, Commands
<1>7. Prefix'
  BY Zenon DEF Prefix, HandlerInv, Handler, Loop, Keys, Commands
<1>8. AckedIsReported'
  BY Zenon DEF AckedIsReported, HandlerInv, Handler, Keys, Commands
<1> QED
  BY <1>1, <1>2, <1>3, <1>4, <1>5, <1>6, <1>7, <1>8, Zenon

\* A new command has an id above every listed and every executed one.
LEMMA AddCommandKeeps ==
  ASSUME IInv, AddCommand
  PROVE  IInv'
<1> USE AgentLoopAssumption DEF IInv, TypeOK, AddCommand, server, device
<1>1. TypeOK'
  BY DEF HandlerInv, LoopInv, Settled, Handler, Loop, Keys, Commands
<1>2. HandlerInv'
  BY Zenon DEF HandlerInv, LoopInv, EtagInv, Settled, Handler, Loop, Keys, Commands
<1>3. LoopInv'
  BY DEF LoopInv, HandlerInv, Handler, Loop, Keys, Commands
<1>4. EtagInv'
  BY Zenon DEF EtagInv, HandlerInv, Handler, Loop
<1>5. Settled'
  BY DEF Settled, LoopInv, Ahead, Prefix, Loop, Keys, Commands
<1>6. Ahead'
  BY Zenon DEF Ahead, Settled, Handler, Loop, Keys, Commands
<1>7. Prefix'
  BY Zenon DEF Prefix, HandlerInv, Handler, Loop, Keys, Commands
<1>8. AckedIsReported'
  BY Zenon DEF AckedIsReported, HandlerInv, Handler, Keys, Commands
<1> QED
  BY <1>1, <1>2, <1>3, <1>4, <1>5, <1>6, <1>7, <1>8, Zenon

\* Revocation is seen by the next request only.
LEMMA RevokeKeeps ==
  ASSUME IInv, Revoke
  PROVE  IInv'
<1> USE AgentLoopAssumption DEF IInv, TypeOK, Revoke, server, device
<1>1. TypeOK'
  BY ZenonT(60) DEF HandlerInv, LoopInv, Settled, Handler, Loop, Keys, Commands
<1>2. HandlerInv'
  BY Zenon DEF HandlerInv, LoopInv, EtagInv, Settled, Handler, Loop, Keys, Commands
<1>3. LoopInv'
  BY Zenon DEF LoopInv, HandlerInv, Handler, Loop, Keys, Commands
<1>4. EtagInv'
  BY Zenon DEF EtagInv, HandlerInv, Handler, Loop
<1>5. Settled'
  BY Zenon DEF Settled, LoopInv, Ahead, Prefix, Loop, Keys, Commands
<1>6. Ahead'
  BY Zenon DEF Ahead, Settled, Handler, Loop, Keys, Commands
<1>7. Prefix'
  BY Zenon DEF Prefix, HandlerInv, Handler, Loop, Keys, Commands
<1>8. AckedIsReported'
  BY Zenon DEF AckedIsReported, HandlerInv, Handler, Keys, Commands
<1> QED
  BY <1>1, <1>2, <1>3, <1>4, <1>5, <1>6, <1>7, <1>8, Zenon

\* A task that ends only adds to what may be reported.
LEMMA TaskEndsKeeps ==
  ASSUME IInv, NEW t \in Tasks \cup {None}, TaskEnds(t)
  PROVE  IInv'
<1> USE AgentLoopAssumption DEF IInv, TypeOK, TaskEnds, server, device
<1>1. TypeOK'
  BY DEF HandlerInv, LoopInv, Settled, Handler, Loop, Keys, Commands
<1>2. HandlerInv'
  BY Zenon DEF HandlerInv, LoopInv, EtagInv, Settled, Handler, Loop, Keys, Commands
<1>3. LoopInv'
  BY Zenon DEF LoopInv, HandlerInv, Handler, Loop, Keys, Commands
<1>4. EtagInv'
  BY Zenon DEF EtagInv, HandlerInv, Handler, Loop
<1>5. Settled'
  BY Zenon DEF Settled, LoopInv, Ahead, Prefix, Loop, Keys, Commands
<1>6. Ahead'
  BY Zenon DEF Ahead, Settled, Handler, Loop, Keys, Commands
<1>7. Prefix'
  BY Zenon DEF Prefix, HandlerInv, Handler, Loop, Keys, Commands
<1>8. AckedIsReported'
  BY Zenon DEF AckedIsReported, HandlerInv, Handler, Keys, Commands
<1> QED
  BY <1>1, <1>2, <1>3, <1>4, <1>5, <1>6, <1>7, <1>8, Zenon

\* A poll takes a free handler with the ETag of the last applied policy.
LEMMA StartPollKeeps ==
  ASSUME IInv, NEW s \in Slots, StartPoll(s)
  PROVE  IInv'
<1> USE AgentLoopAssumption DEF IInv, TypeOK, StartPoll, Post, Free, server, device
<1>1. TypeOK'
  <2>1. agent' \in Loop
    BY Zenon DEF Loop, Keys, Commands, LoopInv, HandlerInv, Handler
  <2>2. srv' \in [Slots -> Handler]
    BY DEF Handler, Loop, Keys, Commands, LoopInv
  <2> QED
    BY <2>1, <2>2, Zenon DEF HandlerInv, LoopInv, Settled, Handler, Loop, Keys, Commands
<1>2. HandlerInv'
  BY DEF HandlerInv, LoopInv, EtagInv, Settled, Handler, Loop, Keys, Commands
<1>3. LoopInv'
  BY Zenon DEF LoopInv, HandlerInv, Handler, Loop, Keys, Commands
<1>4. EtagInv'
  BY Zenon DEF EtagInv, HandlerInv, Handler, Loop
<1>5. Settled'
  BY Zenon DEF Settled, LoopInv, Ahead, Prefix, Loop, Keys, Commands
<1>6. Ahead'
  BY Zenon DEF Ahead, Settled, Handler, Loop, Keys, Commands
<1>7. Prefix'
  BY Zenon DEF Prefix, HandlerInv, Handler, Loop, Keys, Commands
<1>8. AckedIsReported'
  BY Zenon DEF AckedIsReported, HandlerInv, Handler, Keys, Commands
<1> QED
  BY <1>1, <1>2, <1>3, <1>4, <1>5, <1>6, <1>7, <1>8, Zenon

\* Carrying out the lowest listed command: by Prefix nothing unacknowledged is below it.
LEMMA CarryOutKeeps ==
  ASSUME IInv, NEW s \in Slots, NEW c \in Keys, CarryOut(s, c)
  PROVE  IInv'
<1> USE AgentLoopAssumption DEF IInv, TypeOK, CarryOut, Post, Free, server, device
<1>1. TypeOK'
  <2>1. agent' \in Loop
    BY Zenon DEF Loop, Keys, Commands, LoopInv, HandlerInv, Handler
  <2>2. srv' \in [Slots -> Handler]
    BY DEF Handler, Loop, Keys, Commands, LoopInv
  <2> QED
    BY <2>1, <2>2 DEF HandlerInv, LoopInv, Settled, Handler, Loop, Keys, Commands
<1>2. HandlerInv'
  BY DEF HandlerInv, LoopInv, EtagInv, Settled, Handler, Loop, Keys, Commands
<1>3. LoopInv'
  BY Zenon DEF LoopInv, HandlerInv, Handler, Loop, Keys, Commands
<1>4. EtagInv'
  BY Zenon DEF EtagInv, HandlerInv, Handler, Loop
<1>5. Settled'
  BY DEF Settled, LoopInv, Ahead, Prefix, Loop, Keys, Commands
<1>6. Ahead'
  BY Zenon DEF Ahead, Settled, Handler, Loop, Keys, Commands
<1>7. Prefix'
  BY Zenon DEF Prefix, HandlerInv, Handler, Loop, Keys, Commands
<1>8. AckedIsReported'
  BY DEF AckedIsReported, HandlerInv, Handler, Keys, Commands
<1> QED
  BY <1>1, <1>2, <1>3, <1>4, <1>5, <1>6, <1>7, <1>8, Zenon

\* A watch round lists finished tasks only, no command.
LEMMA StartWatchKeeps ==
  ASSUME IInv, StartWatch
  PROVE  IInv'
<1> USE AgentLoopAssumption DEF IInv, TypeOK, StartWatch, server, device
<1>1. TypeOK'
  BY Zenon DEF HandlerInv, LoopInv, Settled, Handler, Loop, Keys, Commands
<1>2. HandlerInv'
  BY Zenon DEF HandlerInv, LoopInv, EtagInv, Settled, Handler, Loop, Keys, Commands
<1>3. LoopInv'
  BY DEF LoopInv, HandlerInv, Handler, Loop, Keys, Commands
<1>4. EtagInv'
  BY Zenon DEF EtagInv, HandlerInv, Handler, Loop
<1>5. Settled'
  BY Zenon DEF Settled, LoopInv, Ahead, Prefix, Loop, Keys, Commands
<1>6. Ahead'
  BY DEF Ahead, Settled, Handler, Loop, Keys, Commands
<1>7. Prefix'
  BY DEF Prefix, HandlerInv, Handler, Loop, Keys, Commands
<1>8. AckedIsReported'
  BY Zenon DEF AckedIsReported, HandlerInv, Handler, Keys, Commands
<1> QED
  BY <1>1, <1>2, <1>3, <1>4, <1>5, <1>6, <1>7, <1>8, Zenon

\* Apply adopts the ETag once it succeeded, and drops the round when it failed.
LEMMA ApplyKeeps ==
  ASSUME IInv, Apply
  PROVE  IInv'
<1> USE AgentLoopAssumption DEF IInv, TypeOK, server, device
<1>0. /\ agent \in Loop /\ agent.doc \in Policies
      /\ UNCHANGED <<policy, issued, acked, reports, etag, revoked, srv, finished, seen, executed>>
  BY Zenon DEF Apply, LoopInv
<1>1. CASE /\ engine' = agent.doc /\ applied' = applied \cup {agent.doc}
           /\ agent' = [agent EXCEPT !.pc = "next", !.etag = agent.doc, !.doc = None]
           /\ saved' \in {saved, agent.doc}
  <2>1. agent'.pc = "next" /\ agent'.etag = agent.doc /\ agent'.queue = agent.queue
    BY <1>0, <1>1, Zenon DEF Loop
  <2>2. agent' \in Loop
    BY <1>0, <1>1, Zenon DEF Loop
  <2> HIDE <1>1
  <2>3. saved' \in {saved, agent.doc} /\ applied' = applied \cup {agent.doc} /\ engine' = agent.doc
    BY <1>1, Zenon
  <2>4. TypeOK'
    BY <1>0, <2>2, <2>3, Zenon
  <2>5. HandlerInv'
    BY <1>0, <2>3, Zenon DEF HandlerInv
  <2>6. LoopInv' /\ Ahead' /\ Prefix'
    BY <1>0, <2>1, Zenon DEF LoopInv, Ahead, Prefix
  <2>7. EtagInv'
    BY <1>0, <2>1, <2>3, Zenon DEF EtagInv
  <2> QED
    BY <1>0, <2>4, <2>5, <2>6, <2>7, Zenon DEF Settled, AckedIsReported
<1>2. CASE /\ engine' \in {engine} \cup (IF "partial" \in Events THEN {"mixed"} ELSE {})
           /\ agent' = Returned
           /\ UNCHANGED <<saved, applied>>
  <2>1. agent' \in Loop /\ agent'.pc = "idle" /\ agent'.etag = agent.etag /\ agent'.queue = {}
    BY <1>0, <1>2, Zenon DEF Loop, Returned
  <2>2. TypeOK'
    BY <1>0, <1>2, <2>1, Zenon
  <2>3. HandlerInv' /\ EtagInv'
    BY <1>0, <1>2, <2>1, Zenon DEF HandlerInv, EtagInv
  <2>4. LoopInv' /\ Ahead' /\ Prefix'
    BY <1>0, <2>1, Zenon DEF LoopInv, Ahead, Prefix
  <2> QED
    BY <1>0, <2>2, <2>3, <2>4, Zenon DEF Settled, AckedIsReported
<1> QED
  BY <1>1, <1>2, Zenon DEF Apply

\* An empty list ends the round.
LEMMA DoneKeeps ==
  ASSUME IInv, Done
  PROVE  IInv'
<1> USE AgentLoopAssumption DEF IInv, TypeOK, Done, Returned, server, device
<1>1. TypeOK'
  BY Zenon DEF HandlerInv, LoopInv, Settled, Handler, Loop, Keys, Commands
<1>2. HandlerInv'
  BY Zenon DEF HandlerInv, LoopInv, EtagInv, Settled, Handler, Loop, Keys, Commands
<1>3. LoopInv'
  BY Zenon DEF LoopInv, HandlerInv, Handler, Loop, Keys, Commands
<1>4. EtagInv'
  BY Zenon DEF EtagInv, HandlerInv, Handler, Loop
<1>5. Settled'
  BY Zenon DEF Settled, LoopInv, Ahead, Prefix, Loop, Keys, Commands
<1>6. Ahead'
  BY Zenon DEF Ahead, Settled, Handler, Loop, Keys, Commands
<1>7. Prefix'
  BY Zenon DEF Prefix, HandlerInv, Handler, Loop, Keys, Commands
<1>8. AckedIsReported'
  BY Zenon DEF AckedIsReported, HandlerInv, Handler, Keys, Commands
<1> QED
  BY <1>1, <1>2, <1>3, <1>4, <1>5, <1>6, <1>7, <1>8, Zenon

\* A client that gives up drops its list; its handler may still run.
LEMMA TimeoutKeeps ==
  ASSUME IInv, Timeout
  PROVE  IInv'
<1> USE AgentLoopAssumption DEF IInv, TypeOK, Timeout, Returned, Free, server, device
<1>1. TypeOK'
  <2>1. agent' \in Loop
    BY Zenon DEF Loop, Keys, Commands, LoopInv, HandlerInv, Handler
  <2>2. srv' \in [Slots -> Handler]
    <3>1. agent.slot \in Slots /\ srv[agent.slot] \in Handler
      BY Zenon DEF LoopInv
    <3>2. Free \in Handler /\ [srv[agent.slot] EXCEPT !.live = FALSE] \in Handler
      BY <3>1, Zenon DEF Handler
    <3> QED
      BY <3>1, <3>2
  <2> QED
    BY <2>1, <2>2, Zenon DEF HandlerInv, LoopInv, Settled, Handler, Loop, Keys, Commands
<1>2. HandlerInv'
  BY DEF HandlerInv, LoopInv, EtagInv, Settled, Handler, Loop, Keys, Commands
<1>3. LoopInv'
  BY Zenon DEF LoopInv, HandlerInv, Handler, Loop, Keys, Commands
<1>4. EtagInv'
  BY Zenon DEF EtagInv, HandlerInv, Handler, Loop
<1>5. Settled'
  BY Zenon DEF Settled, LoopInv, Ahead, Prefix, Loop, Keys, Commands
<1>6. Ahead'
  BY Zenon DEF Ahead, Settled, Handler, Loop, Keys, Commands
<1>7. Prefix'
  BY Zenon DEF Prefix, HandlerInv, Handler, Loop, Keys, Commands
<1>8. AckedIsReported'
  BY Zenon DEF AckedIsReported, HandlerInv, Handler, Keys, Commands
<1> QED
  BY <1>1, <1>2, <1>3, <1>4, <1>5, <1>6, <1>7, <1>8, Zenon

\* A restart forgets the list and the tasks and reads the saved ETag.
LEMMA CrashKeeps ==
  ASSUME IInv, Crash
  PROVE  IInv'
<1> USE AgentLoopAssumption DEF IInv, TypeOK, Crash, Waiting, Free, server, device
<1>1. TypeOK'
  <2>1. agent' \in Loop
    BY Zenon DEF Loop, Keys, Commands, LoopInv, HandlerInv, Handler
  <2>2. srv' \in [Slots -> Handler]
    <3>1. Free \in Handler
      BY Zenon DEF Handler
    <3>2. \A s \in Slots : [srv[s] EXCEPT !.live = FALSE] \in Handler
      BY HandlerUpdates, AgentLoopAssumption, Zenon
    <3> QED
      BY <3>1, <3>2, Zenon
  <2> QED
    BY <2>1, <2>2, Zenon DEF HandlerInv, LoopInv, Settled, Handler, Loop, Keys, Commands
<1>2. HandlerInv'
  BY DEF HandlerInv, LoopInv, EtagInv, Settled, Handler, Loop, Keys, Commands
<1>3. LoopInv'
  BY Zenon DEF LoopInv, HandlerInv, Handler, Loop, Keys, Commands
<1>4. EtagInv'
  BY Zenon DEF EtagInv, HandlerInv, Handler, Loop
<1>5. Settled'
  BY Zenon DEF Settled, LoopInv, Ahead, Prefix, Loop, Keys, Commands
<1>6. Ahead'
  BY Zenon DEF Ahead, Settled, Handler, Loop, Keys, Commands
<1>7. Prefix'
  BY Zenon DEF Prefix, HandlerInv, Handler, Loop, Keys, Commands
<1>8. AckedIsReported'
  BY Zenon DEF AckedIsReported, HandlerInv, Handler, Keys, Commands
<1> QED
  BY <1>1, <1>2, <1>3, <1>4, <1>5, <1>6, <1>7, <1>8, Zenon

\* A handler that fails answers with an error; the client drops its round.
LEMMA FailKeeps ==
  ASSUME IInv, NEW s \in Slots, Fail(s)
  PROVE  IInv'
<1> USE AgentLoopAssumption DEF IInv, TypeOK, Fail, Answer, Returned, Free, server, device
<1>1. TypeOK'
  BY Zenon DEF HandlerInv, LoopInv, Settled, Handler, Loop, Keys, Commands
<1>2. HandlerInv'
  BY DEF HandlerInv, LoopInv, EtagInv, Settled, Handler, Loop, Keys, Commands
<1>3. LoopInv'
  BY Zenon DEF LoopInv, HandlerInv, Handler, Loop, Keys, Commands
<1>4. EtagInv'
  BY Zenon DEF EtagInv, HandlerInv, Handler, Loop
<1>5. Settled'
  BY Zenon DEF Settled, LoopInv, Ahead, Prefix, Loop, Keys, Commands
<1>6. Ahead'
  BY Zenon DEF Ahead, Settled, Handler, Loop, Keys, Commands
<1>7. Prefix'
  BY Zenon DEF Prefix, HandlerInv, Handler, Loop, Keys, Commands
<1>8. AckedIsReported'
  BY Zenon DEF AckedIsReported, HandlerInv, Handler, Keys, Commands
<1> QED
  BY <1>1, <1>2, <1>3, <1>4, <1>5, <1>6, <1>7, <1>8, Zenon

\* requireAgent refuses the call, or the handler goes on with what it read.
LEMMA AuthenticateKeeps ==
  ASSUME IInv, NEW s \in Slots, Authenticate(s)
  PROVE  IInv'
<1> USE AgentLoopAssumption DEF IInv, TypeOK
<1>0. UNCHANGED <<policy, issued, acked, reports, etag, revoked, saved, engine, finished, seen, executed, applied>>
  BY Zenon DEF Authenticate, server, device
<1>1. CASE Answer(s, Stopped)
  <2>1. srv' = [srv EXCEPT ![s] = Free] /\ (agent' = agent \/ agent' = Stopped)
    BY <1>1, Zenon DEF Answer
  <2>2. agent' \in Loop /\ agent'.etag = agent.etag /\ (agent' = agent \/ (agent'.pc = "stopped" /\ agent'.queue = {}))
    BY <2>1, ZenonT(60) DEF Loop, Stopped, Returned
  <2>3. srv' \in [Slots -> Handler]
    BY <2>1, Zenon DEF Free, Handler
  <2>4. HandlerInv'
    BY <1>0, <2>1, Zenon DEF HandlerInv, Free, Keys, Commands
  <2>5. LoopInv' /\ EtagInv' /\ Ahead' /\ Prefix'
    BY <1>0, <2>2, Zenon DEF LoopInv, EtagInv, Ahead, Prefix
  <2> QED
    BY <1>0, <2>2, <2>3, <2>4, <2>5, Zenon DEF Settled, AckedIsReported
<1>2. CASE srv[s].op = "poll" /\ Step(s, [srv[s] EXCEPT !.pc = "touch", !.doc = policy])
  <2>1. srv' \in [Slots -> Handler]
    BY <1>2, HandlerUpdates, Zenon DEF Step
  <2>2. HandlerInv'
    BY <1>0, <1>2 DEF HandlerInv, Step, Handler
  <2> QED
    BY <1>0, <1>2, <2>1, <2>2, Zenon DEF Step, LoopInv, EtagInv, Ahead, Prefix, Settled, AckedIsReported
<1>3. CASE srv[s].op = "report" /\ Step(s, [srv[s] EXCEPT !.pc = "add", !.etag = etag])
  <2>1. srv' \in [Slots -> Handler]
    BY <1>3, HandlerUpdates, Zenon DEF Step
  <2>2. HandlerInv'
    BY <1>0, <1>3 DEF HandlerInv, EtagInv, Step, Handler
  <2> QED
    BY <1>0, <1>3, <2>1, <2>2, Zenon DEF Step, LoopInv, EtagInv, Ahead, Prefix, Settled, AckedIsReported
<1> QED
  BY <1>1, <1>2, <1>3, Zenon DEF Authenticate

\* TouchAgent records the ETag of the request, which is one that was applied.
LEMMA PollTouchKeeps ==
  ASSUME IInv, NEW s \in Slots, PollTouch(s)
  PROVE  IInv'
<1> USE AgentLoopAssumption DEF IInv, TypeOK, PollTouch, Step, server, device
<1>1. TypeOK'
  BY DEF HandlerInv, LoopInv, Settled, Handler, Loop, Keys, Commands
<1>2. HandlerInv'
  BY DEF HandlerInv, LoopInv, EtagInv, Settled, Handler, Loop, Keys, Commands
<1>3. LoopInv'
  BY Zenon DEF LoopInv, HandlerInv, Handler, Loop, Keys, Commands
<1>4. EtagInv'
  BY DEF EtagInv, HandlerInv, Handler, Loop
<1>5. Settled'
  BY Zenon DEF Settled, LoopInv, Ahead, Prefix, Loop, Keys, Commands
<1>6. Ahead'
  BY Zenon DEF Ahead, Settled, Handler, Loop, Keys, Commands
<1>7. Prefix'
  BY Zenon DEF Prefix, HandlerInv, Handler, Loop, Keys, Commands
<1>8. AckedIsReported'
  BY Zenon DEF AckedIsReported, HandlerInv, Handler, Keys, Commands
<1> QED
  BY <1>1, <1>2, <1>3, <1>4, <1>5, <1>6, <1>7, <1>8, Zenon

\* The answer lists the commands that are unacknowledged when it is cut.
LEMMA PollAnswerKeeps ==
  ASSUME IInv, NEW s \in Slots, PollAnswer(s)
  PROVE  IInv'
<1> USE AgentLoopAssumption DEF IInv, TypeOK, PollAnswer, Answer, Pending, Returned, Free, server, device
<1>1. TypeOK'
  <2>1. agent' \in Loop
    <3>1. Pending \subseteq Keys /\ srv[s].doc \in Policies \cup {None} /\ agent \in Loop
      BY DEF Keys, Commands, Handler
    <3>2. [agent EXCEPT !.pc = "apply", !.slot = None, !.doc = srv[s].doc, !.queue = Pending] \in Loop
      BY <3>1, Zenon DEF Loop
    <3>3. [agent EXCEPT !.pc = IF Pending = {} THEN "idle" ELSE "next", !.slot = None, !.queue = Pending] \in Loop
      BY <3>1, Zenon DEF Loop
    <3> QED
      BY <3>1, <3>2, <3>3, Zenon
  <2>2. srv' \in [Slots -> Handler]
    BY Zenon DEF Handler, Loop, Keys, Commands, LoopInv
  <2> QED
    BY <2>1, <2>2, Zenon DEF HandlerInv, LoopInv, Settled, Handler, Loop, Keys, Commands
<1>2. HandlerInv'
  BY DEF HandlerInv, LoopInv, EtagInv, Settled, Handler, Loop, Keys, Commands
<1>3. LoopInv'
  BY DEF LoopInv, HandlerInv, Handler, Loop, Keys, Commands
<1>4. EtagInv'
  BY Zenon DEF EtagInv, HandlerInv, Handler, Loop
<1>5. Settled'
  BY Zenon DEF Settled, LoopInv, Ahead, Prefix, Loop, Keys, Commands
<1>6. Ahead'
  BY DEF Ahead, Settled, Handler, Loop, Keys, Commands
<1>7. Prefix'
  BY DEF Prefix, HandlerInv, Handler, Loop, Keys, Commands
<1>8. AckedIsReported'
  BY Zenon DEF AckedIsReported, HandlerInv, Handler, Keys, Commands
<1> QED
  BY <1>1, <1>2, <1>3, <1>4, <1>5, <1>6, <1>7, <1>8, Zenon

\* The report is stored before its command is acknowledged.
LEMMA ReportAddKeeps ==
  ASSUME IInv, NEW s \in Slots, ReportAdd(s)
  PROVE  IInv'
<1> USE AgentLoopAssumption DEF IInv, TypeOK, ReportAdd, Step, server, device
<1>1. TypeOK'
  BY DEF HandlerInv, LoopInv, Settled, Handler, Loop, Keys, Commands
<1>2. HandlerInv'
  BY DEF HandlerInv, LoopInv, EtagInv, Settled, Handler, Loop, Keys, Commands
<1>3. LoopInv'
  BY Zenon DEF LoopInv, HandlerInv, Handler, Loop, Keys, Commands
<1>4. EtagInv'
  BY Zenon DEF EtagInv, HandlerInv, Handler, Loop
<1>5. Settled'
  BY Zenon DEF Settled, LoopInv, Ahead, Prefix, Loop, Keys, Commands
<1>6. Ahead'
  BY Zenon DEF Ahead, Settled, Handler, Loop, Keys, Commands
<1>7. Prefix'
  BY Zenon DEF Prefix, HandlerInv, Handler, Loop, Keys, Commands
<1>8. AckedIsReported'
  BY Zenon DEF AckedIsReported, HandlerInv, Handler, Keys, Commands
<1> QED
  BY <1>1, <1>2, <1>3, <1>4, <1>5, <1>6, <1>7, <1>8, Zenon

\* Only a command that was carried out and reported is acknowledged.
LEMMA ReportAckKeeps ==
  ASSUME IInv, NEW s \in Slots, ReportAck(s)
  PROVE  IInv'
<1> USE AgentLoopAssumption DEF IInv, TypeOK, ReportAck, Step, server, device
<1>1. TypeOK'
  BY DEF HandlerInv, LoopInv, Settled, Handler, Loop, Keys, Commands
<1>2. HandlerInv'
  BY DEF HandlerInv, LoopInv, EtagInv, Settled, Handler, Loop, Keys, Commands
<1>3. LoopInv'
  BY Zenon DEF LoopInv, HandlerInv, Handler, Loop, Keys, Commands
<1>4. EtagInv'
  BY Zenon DEF EtagInv, HandlerInv, Handler, Loop
<1>5. Settled'
  BY Zenon DEF Settled, LoopInv, Ahead, Prefix, Loop, Keys, Commands
<1>6. Ahead'
  BY Zenon DEF Ahead, Settled, Handler, Loop, Keys, Commands
<1>7. Prefix'
  BY Zenon DEF Prefix, HandlerInv, Handler, Loop, Keys, Commands
<1>8. AckedIsReported'
  BY DEF AckedIsReported, HandlerInv, Handler, Keys, Commands
<1> QED
  BY <1>1, <1>2, <1>3, <1>4, <1>5, <1>6, <1>7, <1>8, Zenon

\* The answered report leaves the list: by then its command is acknowledged.
LEMMA ReportAnswerKeeps ==
  ASSUME IInv, NEW s \in Slots, ReportAnswer(s)
  PROVE  IInv'
<1> USE AgentLoopAssumption DEF IInv, TypeOK, ReportAnswer, Answer, Free, server, device
<1>1. TypeOK'
  <2>1. agent' \in Loop
    BY Zenon DEF Loop, Keys, Commands, LoopInv, HandlerInv, Handler
  <2>2. srv' \in [Slots -> Handler]
    BY Zenon DEF Handler, Loop, Keys, Commands, LoopInv
  <2> QED
    BY <2>1, <2>2 DEF HandlerInv, LoopInv, Settled, Handler, Loop, Keys, Commands
<1>2. HandlerInv'
  BY DEF HandlerInv, LoopInv, EtagInv, Settled, Handler, Loop, Keys, Commands
<1>3. LoopInv'
  BY Zenon DEF LoopInv, HandlerInv, Handler, Loop, Keys, Commands
<1>4. EtagInv'
  BY DEF EtagInv, HandlerInv, Handler, Loop
<1>5. Settled'
  BY Zenon DEF Settled, LoopInv, Ahead, Prefix, Loop, Keys, Commands
<1>6. Ahead'
  BY Zenon DEF Ahead, Settled, Handler, Loop, Keys, Commands
<1>7. Prefix'
  BY DEF Prefix, HandlerInv, Handler, Loop, Keys, Commands
<1>8. AckedIsReported'
  BY Zenon DEF AckedIsReported, HandlerInv, Handler, Keys, Commands
<1> QED
  BY <1>1, <1>2, <1>3, <1>4, <1>5, <1>6, <1>7, <1>8, Zenon

\* Every step of the system, and every step that leaves it alone, keeps the
\* invariant.
LEMMA NextKeeps == IInv /\ [Next]_vars => IInv'
<1> SUFFICES ASSUME IInv, [Next]_vars PROVE IInv'
  BY Zenon
<1>1. CASE UNCHANGED vars
  BY <1>1, Zenon DEF vars, server, device, IInv, TypeOK, HandlerInv, LoopInv, EtagInv, Settled, Ahead, Prefix, AckedIsReported
<1>2. CASE Next
  BY Zenon, <1>2, SetPolicyKeeps, AddCommandKeeps, RevokeKeeps, TaskEndsKeeps, StartPollKeeps, CarryOutKeeps,
     AuthenticateKeeps, PollTouchKeeps, PollAnswerKeeps, ReportAddKeeps, ReportAckKeeps, ReportAnswerKeeps,
     FailKeeps, StartWatchKeeps, ApplyKeeps, DoneKeeps, TimeoutKeeps, CrashKeeps, Zenon DEF Next
<1> QED
  BY <1>1, <1>2, Zenon

\* The loop, its handlers and the server's tables stay within the inductive
\* invariant for ever, whatever is lost, delayed, overtaken or restarted.
THEOREM Inductive == Spec => []IInv
  BY InitIInv, NextKeeps, PTL DEF Spec

\* Type correctness of the agent loop and of the handlers it talks to.
THEOREM TypeCorrect == Spec => []TypeOK
<1>1. IInv => TypeOK
  BY Zenon DEF IInv
<1> QED
  BY <1>1, Inductive, PTL

\* handleReport acknowledges a command only after its report was stored, and
\* only commands that the agent carried out are acknowledged.
THEOREM AckedWasReported == Spec => []AckedIsReported
<1>1. IInv => AckedIsReported
  BY Zenon DEF IInv
<1> QED
  BY <1>1, Inductive, PTL

\* The policy version the fleet shows for an agent is one it has applied.
THEOREM RecordedEtag == Spec => []RecordedWasApplied
<1>1. IInv => RecordedWasApplied
  BY Zenon DEF IInv, EtagInv, RecordedWasApplied
<1> QED
  BY <1>1, Inductive, PTL

\* Reports are never dropped, and a task is marked as seen only by the answer
\* to a report that was stored.
LEMMA SeenKeeps ==
  ASSUME IInv, SeenIsReported, [Next]_vars
  PROVE  SeenIsReported'
<1> USE DEF SeenIsReported
<1>1. CASE UNCHANGED vars
  BY <1>1, Zenon DEF vars, server, device
<1>2. ASSUME NEW s \in Slots, ReportAnswer(s) PROVE SeenIsReported'
  BY <1>2, Zenon DEF ReportAnswer, IInv, HandlerInv
<1>3. ASSUME NEW s \in Slots, ReportAdd(s) PROVE SeenIsReported'
  BY <1>3, Zenon DEF ReportAdd, device
<1>4. ASSUME Crash PROVE SeenIsReported'
  BY <1>4, Zenon DEF Crash
<1>5. ASSUME NEW s \in Slots, ReportAck(s) \/ PollTouch(s) \/ PollAnswer(s) \/ Fail(s) \/ StartPoll(s) \/ Authenticate(s)
      PROVE  SeenIsReported'
  BY <1>5, Zenon DEF ReportAck, PollTouch, PollAnswer, Fail, StartPoll, Authenticate, server, device
<1>6. ASSUME NEW s \in Slots, NEW c \in Keys, CarryOut(s, c) PROVE SeenIsReported'
  BY <1>6, Zenon DEF CarryOut, server
<1>7. ASSUME NEW p \in Policies, SetPolicy(p) PROVE SeenIsReported'
  BY <1>7, Zenon DEF SetPolicy, device
<1>8. ASSUME NEW t \in Tasks \cup {None}, TaskEnds(t) PROVE SeenIsReported'
  BY <1>8, Zenon DEF TaskEnds, server
<1>9. ASSUME AddCommand \/ Revoke \/ StartWatch \/ Apply \/ Done \/ Timeout PROVE SeenIsReported'
  BY <1>9, Zenon DEF AddCommand, Revoke, StartWatch, Apply, Done, Timeout, server, device
<1> QED
  BY <1>1, <1>2, <1>3, <1>4, <1>5, <1>6, <1>7, <1>8, <1>9, Zenon DEF Next

\* WatchOnce remembers no snapshot as reported that the server has not recorded.
THEOREM SeenWasReported == Spec => []SeenIsReported
<1>1. Init => SeenIsReported
  BY Zenon DEF Init, SeenIsReported
<1> QED
  BY <1>1, SeenKeeps, Inductive, PTL DEF Spec

\* A loop that has a list and then waits has just carried out one of its
\* members: no other step of the client or of a handler does that.
LEMMA OnlyCarryOut ==
  ASSUME IInv, [Next]_vars, agent.pc = "next", agent'.pc = "waiting"
  PROVE  \E s \in Slots, c \in Keys : CarryOut(s, c)
<1> USE DEF IInv, TypeOK
<1>1. agent' # agent /\ ~UNCHANGED vars
  BY Zenon DEF vars
<1>2. Next
  BY <1>1, Zenon
<1>3. ~(StartWatch \/ Apply \/ Done \/ Timeout \/ Crash)
  BY Zenon DEF StartWatch, Apply, Done, Timeout, Crash, Returned, Waiting, Loop
<1>4. ~(AddCommand \/ Revoke) /\ (\A p \in Policies : ~SetPolicy(p)) /\ (\A t \in Tasks \cup {None} : ~TaskEnds(t))
  BY <1>1, Zenon DEF AddCommand, Revoke, SetPolicy, TaskEnds
<1>5. ASSUME NEW s \in Slots
      PROVE  ~StartPoll(s) /\ ~PollTouch(s) /\ ~ReportAdd(s) /\ ~ReportAck(s)
  BY <1>1, Zenon DEF StartPoll, PollTouch, ReportAdd, ReportAck, Step
<1>6. Returned.pc = "idle" /\ Stopped.pc = "stopped"
  BY Zenon DEF Returned, Stopped, Loop
<1>7. ASSUME NEW s \in Slots
      PROVE  ~Authenticate(s) /\ ~Fail(s)
  BY <1>1, <1>6, Zenon DEF Authenticate, Fail, Answer, Step
<1>8. ASSUME NEW s \in Slots
      PROVE  ~PollAnswer(s)
  BY <1>1, <1>6, Zenon DEF PollAnswer, Answer, Loop
<1>9. ASSUME NEW s \in Slots
      PROVE  ~ReportAnswer(s)
  BY <1>1, <1>6, Zenon DEF ReportAnswer, Answer, Loop
<1> QED
  BY <1>2, <1>3, <1>4, <1>5, <1>7, <1>8, <1>9, Zenon DEF Next

\* Commands take effect in the order they were given: what PollOnce carries
\* out is never below a command carried out before.
THEOREM CommandsInOrder == Spec => CommandOrder
<1> DEFINE Ordered ==
      \A c \in Commands : agent.pc = "next" /\ agent'.pc = "waiting" /\ srv'[agent'.slot].key = c => c >= executed
<1>1. ASSUME IInv, [Next]_vars PROVE [Ordered]_vars
  <2> SUFFICES ASSUME NEW c \in Commands, agent.pc = "next", agent'.pc = "waiting", srv'[agent'.slot].key = c
               PROVE  c >= executed
    BY Zenon
  <2>1. PICK s \in Slots, k \in Keys : CarryOut(s, k)
    BY <1>1, OnlyCarryOut, Zenon
  <2>2. agent'.slot = s /\ srv'[s].key = k
    BY <1>1, <2>1, Zenon DEF CarryOut, Post, IInv, TypeOK, Loop
  <2>3. c \in agent.queue
    BY <2>1, <2>2, Zenon DEF CarryOut
  <2> QED
    BY <1>1, <2>3, Zenon DEF IInv, TypeOK, Ahead, Commands
<1> QED
  BY <1>1, Inductive, PTL DEF Spec, CommandOrder

=============================================================================
