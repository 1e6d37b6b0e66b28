------------------------------ MODULE Enrollment ------------------------------
(***************************************************************************)
(* The life of a device on the server: handleEnroll with the token it      *)
(* spends, the provisioner and the deferred unwind of                      *)
(* fleet/api/agent_endpoints.go and fleet/enroll; handleAgentRevoke; and   *)
(* the reap job of fleet/jobs/reap.go, which removes the repository when   *)
(* the retention window of a revoked device is over.                       *)
(*                                                                         *)
(* A device id is minted by one enrollment and never reused.  One tick is  *)
(* a day, the unit of the retention window: handlers end within the day    *)
(* they start in, a reap may run on.                                       *)
(***************************************************************************)
EXTENDS Naturals, FiniteSets

CONSTANTS
  Devices,
  Fleets,    \* the assignments of target kinds to devices; "disk" and "cloud" are hosted
  MaxUses,   \* max_uses of the token, 0 for unlimited
  Windows,   \* values revoked_retention_days is set to
  Default,   \* DefaultRetentionDays
  Events,    \* which of "hangup", "crash", "command", "read" may happen
  None,
  MaxNow     \* bound: the last day

ASSUME EnrollmentAssumption ==
  /\ IsFiniteSet(Devices) /\ Fleets \subseteq [Devices -> {"disk", "cloud", "filesystem", "b2"}]
  /\ MaxUses \in Nat /\ Windows \subseteq Nat \ {0} /\ Default \in Windows
  /\ Events \subseteq {"hangup", "crash", "command", "read"}
  /\ None \notin Nat /\ MaxNow \in Nat

VARIABLES
  uses, tokenRevoked,  \* the enrollment token
  row,        \* agents row: "none", "half" (empty bundle) or "full"
  key,        \* the gateway key the device writes with: "none", "active" or "disabled"
  kits,       \* devices with a read-only gateway key, minted for a restore kit
  b2,         \* its live B2 keys that the server was told of
  repo,       \* devices with a repository
  pinned,     \* devices that a commands or jobs row references
  revokedAt,  \* agents.revoked_at
  since,      \* the first value revoked_at had
  retired,    \* devices with retired_at set
  enr,        \* the enrollment of each device
  left,       \* history: which cleanups of its failure could not be carried out
  rvk,        \* handleAgentRevoke of each device
  reap,       \* the reap job; set is the setting when it started
  queued,     \* the newest reap row, while it is one of a revocation that has not run
  window,     \* revoked_retention_days
  now

vars == <<uses, tokenRevoked, row, key, b2, repo, pinned, revokedAt, since, retired, enr, rvk, reap, window, now,
          left, kits, queued>>

token == <<uses, tokenRevoked>>
creds == <<key, b2>>
stamps == <<revokedAt, since, retired>>
aside == <<left, kits, queued>>

\* The kind of the target that the device's group names.
Kind == [d \in Devices |-> enr[d].kind]

Hosted == {d \in Devices : Kind[d] \in {"disk", "cloud"}}
Local == {d \in Devices : Kind[d] \in {"disk", "filesystem"}}

EnrollSteps == {"idle", "create", "provision", "reader", "initialize", "rollback", "bundle",
                "revoke", "delete", "remove", "done", "failed", "refused", "dead"}

NoReap == [pc |-> "idle", todo |-> {}, d |-> None, set |-> None]

TypeOK ==
  /\ uses \in Nat /\ tokenRevoked \in BOOLEAN
  /\ row \in [Devices -> {"none", "half", "full"}]
  /\ key \in [Devices -> {"none", "active", "disabled"}]
  /\ b2 \in [Devices -> SUBSET {"writer", "reader"}]
  /\ repo \subseteq Devices /\ pinned \subseteq Devices /\ retired \subseteq Devices
  /\ revokedAt \in [Devices -> Nat \cup {None}] /\ since \in [Devices -> Nat \cup {None}]
  /\ enr \in [Devices -> [pc : EnrollSteps, hung : BOOLEAN, kind : {"disk", "cloud", "filesystem", "b2"}]]
  /\ rvk \in [Devices -> {"idle", "b2", "keys", "stamp", "schedule", "done"}]
  /\ reap \in [pc : {"idle", "next", "repo", "retire"}, todo : SUBSET Devices, d : Devices \cup {None}, set : Windows \cup {None}]
  /\ window \in Windows /\ now \in Nat
  /\ left \in [Devices -> SUBSET {"keys", "row", "repo"}] /\ kits \subseteq Devices
  /\ queued \in [agent : Devices, at : Nat] \cup {None}

Init ==
  /\ uses = 0 /\ tokenRevoked = FALSE
  /\ row = [d \in Devices |-> "none"]
  /\ key = [d \in Devices |-> "none"]
  /\ b2 = [d \in Devices |-> {}]
  /\ repo = {} /\ pinned = {} /\ retired = {}
  /\ revokedAt = [d \in Devices |-> None] /\ since = [d \in Devices |-> None]
  /\ \E kind \in Fleets : enr = [d \in Devices |-> [pc |-> "idle", hung |-> FALSE, kind |-> kind[d]]]
  /\ rvk = [d \in Devices |-> "idle"]
  /\ reap = NoReap
  /\ window \in Windows
  /\ now = 0
  /\ left = [d \in Devices |-> {}]
  /\ kits = {} /\ queued = None

-----------------------------------------------------------------------------
(* handleEnroll *)

\* The request's context ends with the request.
Over == {"done", "failed", "refused", "dead"}

Goto(d, pc) ==
  enr' = [enr EXCEPT ![d] = [pc |-> pc, hung |-> @.hung /\ pc \notin Over, kind |-> @.kind]]

\* A call with the request's context can go through only while the client is there.
Alive(d) == ~enr[d].hung

\* A cleanup that fails is logged at most, and the ones after it are still tried.
Leave(d, what) == left' = [left EXCEPT ![d] = @ \cup what]

Usable == ~tokenRevoked /\ (MaxUses = 0 \/ uses < MaxUses)

\* ConsumeToken, one conditional UPDATE, then the reads of group, target and
\* credentials: a failure of one of those has spent the use.
Consume(d) ==
  /\ enr[d].pc = "idle"
  /\ \/ Usable /\ uses' = uses + 1 /\ (Goto(d, "create") \/ Goto(d, "refused"))
     \/ UNCHANGED uses /\ Goto(d, "refused")
  /\ UNCHANGED <<tokenRevoked, row, creds, repo, pinned, stamps, rvk, reap, window, now, aside>>

\* The row goes in with an empty bundle; from here on a failure unwinds.
CreateRow(d) ==
  /\ enr[d].pc = "create"
  /\ \/ Alive(d) /\ row' = [row EXCEPT ![d] = "half"] /\ Goto(d, "provision")
     \/ UNCHANGED row /\ Goto(d, "refused")
  /\ UNCHANGED <<token, creds, repo, pinned, stamps, rvk, reap, window, now, aside>>

\* Provision up to the repository: the gateway key row, the directory, or the
\* first of the two B2 keys.  A cloud backend may fail after the key row.
Provision(d) ==
  /\ enr[d].pc = "provision"
  /\ \/ /\ d \in Hosted /\ Alive(d)
        /\ key' = [key EXCEPT ![d] = "active"]
        /\ Goto(d, "initialize") \/ (Kind[d] = "cloud" /\ Goto(d, "delete"))
        /\ UNCHANGED <<b2, repo>>
     \/ /\ Kind[d] = "filesystem" /\ repo' = repo \cup {d} /\ Goto(d, "initialize")
        /\ UNCHANGED creds
     \/ /\ Kind[d] = "b2" /\ Alive(d)
        /\ b2' = [b2 EXCEPT ![d] = {"writer"}] /\ Goto(d, "reader")
        /\ UNCHANGED <<key, repo>>
     \/ Goto(d, "delete") /\ UNCHANGED <<creds, repo>>
  /\ UNCHANGED <<token, row, pinned, stamps, rvk, reap, window, now, aside>>

\* DeleteKey for each of a device's B2 keys: each may fail, all do without a
\* context, and Revoke goes on to the next.
DeleteB2Keys(d, may) ==
  \E kept \in SUBSET b2[d] :
    /\ may \/ kept = b2[d]
    /\ b2' = [b2 EXCEPT ![d] = kept]
    /\ Leave(d, IF kept = {} THEN {} ELSE {"keys"})

\* The reader key; when it cannot be made the writer key is deleted, with the
\* same context and the error dropped.
CreateReader(d) ==
  /\ enr[d].pc = "reader"
  /\ \/ /\ Alive(d) /\ b2' = [b2 EXCEPT ![d] = @ \cup {"reader"}] /\ UNCHANGED left
        /\ Goto(d, "initialize")
     \/ DeleteB2Keys(d, Alive(d)) /\ Goto(d, "delete")
  /\ UNCHANGED <<token, row, key, repo, pinned, stamps, rvk, reap, window, now, kits, queued>>

\* initialize: a failure may have written part of the repository.
Initialize(d) ==
  /\ enr[d].pc = "initialize"
  /\ \/ (Alive(d) \/ d \in Local) /\ repo' = repo \cup {d} /\ Goto(d, "bundle")
     \/ repo' \in {repo, repo \cup {d}} /\ Goto(d, "rollback")
  /\ UNCHANGED <<token, row, creds, pinned, stamps, rvk, reap, window, now, aside>>

\* rollback, with the request's context and every error dropped.  Provision then
\* returns no bundle.
Rollback(d) ==
  /\ enr[d].pc = "rollback"
  /\ DeleteB2Keys(d, Alive(d))
  /\ key' = key \/ (Alive(d) /\ key[d] = "active" /\ key' = [key EXCEPT ![d] = "disabled"])
  /\ repo' = repo \/ (Kind[d] = "disk" /\ repo' = repo \ {d})
  /\ Goto(d, "delete")
  /\ UNCHANGED <<token, row, pinned, stamps, rvk, reap, window, now, kits, queued>>

\* Mutant: the deferred unwind sees no bundle.
SetAgentBundleShadowed(d) ==
  /\ enr[d].pc = "bundle"
  /\ \/ Alive(d) /\ row[d] # "none" /\ row' = [row EXCEPT ![d] = "full"] /\ Goto(d, "done")
     \/ UNCHANGED row /\ Goto(d, "delete")
  /\ UNCHANGED <<token, creds, repo, pinned, stamps, rvk, reap, window, now, aside>>

\* Seal the bundle and SetAgentBundle; success ends the enrollment.
SetAgentBundle(d) ==
  /\ enr[d].pc = "bundle"
  /\ \/ Alive(d) /\ row[d] # "none" /\ row' = [row EXCEPT ![d] = "full"] /\ Goto(d, "done")
     \/ UNCHANGED row /\ Goto(d, "revoke")
  /\ UNCHANGED <<token, creds, repo, pinned, stamps, rvk, reap, window, now, aside>>

\* The unwind, on a context of its own: the B2 keys if Provision returned a
\* bundle (the failures before that enter at DeleteAgent) ...
UnwindRevoke(d) ==
  /\ enr[d].pc = "revoke"
  /\ DeleteB2Keys(d, TRUE)
  /\ Goto(d, "delete")
  /\ UNCHANGED <<token, row, key, repo, pinned, stamps, rvk, reap, window, now, kits, queued>>

\* ... the rows, in one transaction, which fails as a whole: always while a
\* foreign key of commands or jobs names the device ...
DeleteAgent(d) ==
  /\ enr[d].pc = "delete"
  /\ \/ /\ d \notin pinned
        /\ row' = [row EXCEPT ![d] = "none"] /\ key' = [key EXCEPT ![d] = "none"] /\ kits' = kits \ {d}
        /\ revokedAt' = [revokedAt EXCEPT ![d] = None] /\ since' = [since EXCEPT ![d] = None]
        /\ UNCHANGED left
     \/ Leave(d, {"row"}) /\ UNCHANGED <<row, key, kits, revokedAt, since>>
  /\ Goto(d, "remove")
  /\ UNCHANGED <<token, b2, repo, pinned, retired, rvk, reap, window, now, queued>>

\* ... and the repository of a hosted disk target.
RemoveHostedRepository(d) ==
  /\ enr[d].pc = "remove"
  /\ \/ repo' = (IF Kind[d] = "disk" THEN repo \ {d} ELSE repo) /\ UNCHANGED left
     \/ Kind[d] = "disk" /\ Leave(d, {"repo"}) /\ UNCHANGED repo
  /\ Goto(d, "failed")
  /\ UNCHANGED <<token, row, creds, pinned, stamps, rvk, reap, window, now, kits, queued>>

InFlight == {d \in Devices : enr[d].pc \notin Over \cup {"idle"}}

\* The client goes away: its context is cancelled.
HangUp(d) ==
  /\ "hangup" \in Events /\ d \in InFlight /\ Alive(d)
  /\ enr' = [enr EXCEPT ![d] = [pc |-> @.pc, hung |-> TRUE, kind |-> @.kind]]
  /\ UNCHANGED <<token, row, creds, repo, pinned, stamps, rvk, reap, window, now, aside>>

-----------------------------------------------------------------------------
(* What admins do *)

RevokeToken ==
  /\ ~tokenRevoked
  /\ tokenRevoked' = TRUE
  /\ UNCHANGED <<uses, row, creds, repo, pinned, stamps, enr, rvk, reap, window, now, aside>>

\* handleAgentCommand: any agent row will do, a half-enrolled one too.
Command(d) ==
  /\ "command" \in Events /\ row[d] # "none" /\ d \notin pinned
  /\ pinned' = pinned \cup {d}
  /\ UNCHANGED <<token, row, creds, repo, stamps, enr, rvk, reap, window, now, aside>>

\* readOnlyKey, for a kit: it looks at the target and the bundle, not at
\* revoked_at or retired_at.
MintKit(d) ==
  /\ row[d] = "full" /\ d \in Hosted /\ d \notin kits
  /\ kits' = kits \cup {d}
  /\ UNCHANGED <<token, row, creds, repo, pinned, stamps, enr, rvk, reap, window, now, left, queued>>

RevokeGoto(d, pc) == rvk' = [rvk EXCEPT ![d] = pc]

\* handleAgentRevoke: the row is read once, and an empty bundle skips the B2
\* cleanup.
RevokeRead(d) ==
  /\ rvk[d] \in {"idle", "done"} /\ row[d] # "none"
  /\ RevokeGoto(d, IF row[d] = "full" THEN "b2" ELSE "keys")
  /\ UNCHANGED <<token, row, creds, repo, pinned, stamps, enr, reap, window, now, aside>>

\* Best effort: a bundle that does not open, a group, target or admin key that
\* cannot be read, or a refused deletion leave keys behind.
RevokeB2(d) ==
  /\ rvk[d] = "b2"
  /\ \E kept \in SUBSET b2[d] : b2' = [b2 EXCEPT ![d] = kept]
  /\ RevokeGoto(d, "keys")
  /\ UNCHANGED <<token, row, key, repo, pinned, stamps, enr, reap, window, now, aside>>

\* The store may fail here and at the stamp, which ends the request.
RevokeKeys(d) ==
  /\ rvk[d] = "keys"
  /\ \/ key' = [key EXCEPT ![d] = IF @ = "active" THEN "disabled" ELSE @] /\ RevokeGoto(d, "stamp")
     \/ UNCHANGED key /\ RevokeGoto(d, "idle")
  /\ UNCHANGED <<token, row, b2, repo, pinned, stamps, enr, reap, window, now, aside>>

\* RevokeAgent stamps the row again if it was stamped before; it says nothing
\* when the row is gone.
RevokeStamp(d) ==
  /\ rvk[d] = "stamp"
  /\ \/ /\ row[d] # "none"
        /\ revokedAt' = [revokedAt EXCEPT ![d] = now]
        /\ since' = [since EXCEPT ![d] = IF @ = None THEN now ELSE @]
        /\ RevokeGoto(d, "schedule")
     \/ row[d] = "none" /\ UNCHANGED <<revokedAt, since>> /\ RevokeGoto(d, "schedule")
     \/ UNCHANGED <<revokedAt, since>> /\ RevokeGoto(d, "idle")
  /\ UNCHANGED <<token, row, creds, repo, pinned, retired, enr, reap, window, now, aside>>

\* Mutant: the floor instead of the setting.
WindowFloor == {w \in Windows : \A v \in Windows : w <= v}

\* RevokedRetentionDays: an unreadable setting counts as the default.
WindowRead == IF "read" \in Events THEN {window, Default} ELSE {window}

\* ScheduleReap inserts a job row that references the agent, for the end of the
\* window.
RevokeSchedule(d) ==
  /\ rvk[d] = "schedule"
  /\ \/ /\ row[d] # "none" /\ pinned' = pinned \cup {d}
        /\ \E w \in WindowRead : queued' = [agent |-> d, at |-> now + w]
        /\ RevokeGoto(d, "done")
     \/ UNCHANGED <<pinned, queued>> /\ RevokeGoto(d, "idle")
  /\ UNCHANGED <<token, row, creds, repo, stamps, enr, reap, window, now, left, kits>>

SetWindow(w) ==
  /\ w # window
  /\ window' = w
  /\ UNCHANGED <<token, row, creds, repo, pinned, stamps, enr, rvk, reap, now, aside>>

-----------------------------------------------------------------------------
(* The reap job *)

\* reapCandidates, and the age check of the loop.
Due(d, w) == revokedAt[d] # None /\ d \notin retired /\ revokedAt[d] + w <= now

\* Reads the window and the candidates.  A row that names an agent takes that
\* one, a sweep takes all; devices still inside the window are left alone, and
\* with nobody to take the job is over.  Admins insert rows of both sorts, due at
\* once, so a run may start at any time; one may be the queued row's.
ReapStart ==
  /\ reap.pc = "idle"
  /\ \E w \in WindowRead, ds \in {Devices} \cup {{d} : d \in Devices} :
       LET todo == {d \in ds : Due(d, w)} IN
       /\ reap' = IF todo = {} THEN NoReap ELSE [pc |-> "next", todo |-> todo, d |-> None, set |-> window]
       /\ queued' = queued \/ (queued # None /\ ds = {queued.agent} /\ queued.at <= now /\ queued' = None)
  /\ UNCHANGED <<token, row, creds, repo, pinned, stamps, enr, rvk, window, now, left, kits>>

\* What is left to do after device d.
ReapSkip(d) == reap' = IF reap.todo = {d} THEN NoReap ELSE [pc |-> "next", todo |-> reap.todo \ {d}, d |-> None, set |-> reap.set]

\* reapAgent: the credentials first, all of them.
ReapKeys(d) ==
  /\ reap.pc = "next" /\ d \in reap.todo
  /\ \/ /\ key' = [key EXCEPT ![d] = "none"] /\ kits' = kits \ {d}
        /\ reap' = [reap EXCEPT !.pc = "repo", !.d = d]
     \/ UNCHANGED <<key, kits>> /\ ReapSkip(d)
  /\ UNCHANGED <<token, row, b2, repo, pinned, stamps, enr, rvk, window, now, left, queued>>

\* Mutant: a failed removal does not stop the retirement.
ReapRepoGoesOn ==
  /\ reap.pc = "repo"
  /\ repo' \in {repo, repo \ {reap.d}} /\ reap' = [reap EXCEPT !.pc = "retire"]
  /\ UNCHANGED <<token, row, creds, pinned, stamps, enr, rvk, window, now, aside>>

\* The bytes second, where they are on this server ...
ReapRepo ==
  /\ reap.pc = "repo"
  /\ \/ repo' = (IF reap.d \in Local THEN repo \ {reap.d} ELSE repo) /\ reap' = [reap EXCEPT !.pc = "retire"]
     \/ reap.d \in Local /\ UNCHANGED repo /\ ReapSkip(reap.d)
  /\ UNCHANGED <<token, row, creds, pinned, stamps, enr, rvk, window, now, aside>>

\* Mutant: the update matches no row.
ReapRetireNone ==
  /\ reap.pc = "retire"
  /\ ReapSkip(reap.d)
  /\ UNCHANGED <<token, row, creds, repo, pinned, stamps, enr, rvk, window, now, aside>>

\* ... and the stamp last.
ReapRetire ==
  /\ reap.pc = "retire"
  /\ retired' \in {retired, retired \cup {reap.d}}
  /\ ReapSkip(reap.d)
  /\ UNCHANGED <<token, row, creds, repo, pinned, revokedAt, since, enr, rvk, window, now, aside>>

-----------------------------------------------------------------------------

\* The process dies and starts again.
Crash ==
  /\ "crash" \in Events
  /\ enr' = [d \in Devices |-> IF d \in InFlight THEN [pc |-> "dead", hung |-> FALSE, kind |-> Kind[d]] ELSE enr[d]]
  /\ rvk' = [d \in Devices |-> IF rvk[d] = "done" THEN "done" ELSE "idle"]
  /\ reap' = NoReap
  /\ UNCHANGED <<token, row, creds, repo, pinned, stamps, window, now, aside>>

Tick ==
  /\ now < MaxNow
  /\ InFlight = {} /\ \A d \in Devices : rvk[d] \in {"idle", "done"}
  /\ now' = now + 1
  /\ UNCHANGED <<token, row, creds, repo, pinned, stamps, enr, rvk, reap, window, aside>>

Next ==
  \/ \E d \in Devices :
       \/ Consume(d) \/ CreateRow(d) \/ Provision(d) \/ CreateReader(d) \/ Initialize(d) \/ Rollback(d)
       \/ SetAgentBundle(d) \/ UnwindRevoke(d) \/ DeleteAgent(d) \/ RemoveHostedRepository(d) \/ HangUp(d)
       \/ Command(d) \/ MintKit(d)
       \/ RevokeRead(d) \/ RevokeB2(d) \/ RevokeKeys(d) \/ RevokeStamp(d) \/ RevokeSchedule(d)
       \/ ReapKeys(d)
  \/ RevokeToken \/ (\E w \in Windows : SetWindow(w))
  \/ ReapStart \/ ReapRepo \/ ReapRetire \/ Crash \/ Tick

Spec == Init /\ [][Next]_vars

-----------------------------------------------------------------------------
(* Properties *)

\* A token never admits more enrollments than max_uses, however many requests
\* race for its last use and whatever becomes of those it admitted.
TokenBudget == MaxUses # 0 => Cardinality({d \in Devices : enr[d].pc \notin {"idle", "refused"}}) <= MaxUses

\* "Every failure from here on must hand back what has been minted - the
\* agent's B2 keys, its gateway key, the half-finished row": what an enrollment
\* that answered with an error leaves behind is what the call that should have
\* removed it failed on.  No path to the answer skips a cleanup, whoever hangs up
\* or revokes meanwhile, and one that fails does not stop the others.
HandedBack ==
  \A d \in Devices : enr[d].pc = "failed" =>
    /\ b2[d] # {} => "keys" \in left[d]
    /\ row[d] # "none" \/ key[d] # "none" => "row" \in left[d]
    /\ Kind[d] = "disk" /\ d \in repo => "repo" \in left[d]

\* "the row is only stamped once both are gone": a retired device has no gateway
\* key to write with and no repository on this server, whatever failed, crashed
\* or was revoked again on the way.  A kit may mint it a read-only key even then.
RetiredIsGone ==
  \A d \in retired : key[d] = "none" /\ (d \in Local => d \notin repo)

\* "a bad value must never shorten the window": the repository of an enrolled
\* device goes only when it has been revoked for the window that was configured
\* when the sweep started.
WindowHonoured ==
  [][\A d \in Devices : row[d] = "full" /\ d \in repo /\ d \notin repo'
       => since[d] # None /\ reap.set # None /\ since[d] + reap.set <= now]_vars

\* "the device's keys are revoked", says errNoLocalData of a B2 device: a
\* revocation that answered 204 leaves no B2 key alive.
RevokedKeysAreDead == \A d \in Devices : rvk[d] = "done" /\ enr[d].pc = "done" => b2[d] = {}

-----------------------------------------------------------------------------
(* Liveness.  enqueueIntervals inserts no sweep while the newest reap row is  *)
(* pending, and that is the row of the last revocation until it has run.      *)
(* While there is none it inserts one again and again (every day by default). *)
(* An attempt on a device does not fail for ever.                             *)

ReapSweep == queued = None /\ ReapStart /\ reap'.todo = {d \in Devices : Due(d, window)} /\ reap'.todo # {}

Fairness ==
  /\ WF_vars(ReapSweep)
  /\ WF_vars((\E d \in Devices : ReapKeys(d)) \/ ReapRepo \/ ReapRetire)
  /\ \A d \in Devices :
       /\ SF_vars(ReapKeys(d) /\ reap'.pc = "repo")
       /\ SF_vars(ReapRepo /\ reap.d = d /\ reap'.pc = "retire")
       /\ SF_vars(ReapRetire /\ reap.d = d /\ d \in retired')

FairSpec == Spec /\ Fairness

\* Once revocations have stopped and the last row they queued has run, no device
\* stays past its retention window without being retired: failures and crashes at
\* any step of an attempt only delay it.  While revocations go on, a device whose
\* own row failed may be left for as long as they do.
DueIsReaped == <>[](queued = None) => \A d \in Devices : []<>~Due(d, window)
=============================================================================
