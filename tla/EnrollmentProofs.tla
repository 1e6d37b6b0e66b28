-------------------------- MODULE EnrollmentProofs --------------------------
(* For any number of devices, any token and any windows: a token is not      *)
(* overspent, a retired device is gone from the server, and a repository is  *)
(* not reaped before its window is over.                                     *)
(*                                                                           *)
(* The argument for the last two is about time.  A device that the reap job  *)
(* takes was first revoked on an earlier day (Aged).  Its enrollment is over *)
(* by then, since handlers end within the day they start in (Settled), so no *)
(* step of an enrollment can bring back a key or a repository behind the     *)
(* job's back, and a later revocation moves revoked_at but not since.        *)
EXTENDS Enrollment, FiniteSetTheorems, TLAPS

(* First revoked on an earlier day.                                          *)
Aged(d) == since[d] # None /\ since[d] < now
OnDisk(d) == enr[d].kind \in {"disk", "filesystem"}

Rows ==
  \A d \in Devices :
    /\ row[d] = "full" => enr[d].pc = "done"
    /\ enr[d].pc \in {"idle", "create"} => row[d] = "none" /\ revokedAt[d] = None /\ since[d] = None

Stamped ==
  \A d \in Devices :
    /\ since[d] # None => since[d] <= now
    /\ revokedAt[d] # None => since[d] # None /\ since[d] <= revokedAt[d]

Settled == \A d \in Devices : Aged(d) => enr[d].pc \in Over

Sweep ==
  /\ reap.pc = "idle" => reap.todo = {}
  /\ \A d \in reap.todo : Aged(d)
  /\ reap.pc \in {"repo", "retire"} => reap.d \in reap.todo /\ key[reap.d] = "none"
  /\ reap.pc = "retire" => (OnDisk(reap.d) => reap.d \notin repo)
  /\ "read" \notin Events => \A d \in reap.todo : reap.set # None /\ since[d] + reap.set <= now

Gone == \A d \in retired : Aged(d) /\ key[d] = "none" /\ (OnDisk(d) => d \notin repo)

IInv == TypeOK /\ Rows /\ Stamped /\ Settled /\ Sweep /\ Gone

Admitted == {d \in Devices : enr[d].pc \notin {"idle", "refused"}}

(* The uses cover the enrollments that were admitted.                        *)
Spent == Cardinality(Admitted) <= uses /\ (MaxUses # 0 => uses <= MaxUses)

-----------------------------------------------------------------------------
(* The invariant holds at first.                                             *)
LEMMA InitIInv == Init => IInv
  <1> SUFFICES ASSUME Init PROVE IInv
    BY Zenon
  <1> USE EnrollmentAssumption DEF Init
  <1>1. TypeOK
    <2>1. PICK kind \in Fleets : enr = [d \in Devices |-> [pc |-> "idle", hung |-> FALSE, kind |-> kind[d]]]
      BY Zenon
    <2>2. \A d \in Devices : kind[d] \in {"disk", "cloud", "filesystem", "b2"}
      BY <2>1, Zenon
    <2>3. enr \in [Devices -> [pc : EnrollSteps, hung : BOOLEAN, kind : {"disk", "cloud", "filesystem", "b2"}]]
      BY <2>1, <2>2, Zenon DEF EnrollSteps
    <2> QED
      BY <2>3, Zenon DEF TypeOK, NoReap
  <1>2. Rows /\ Stamped /\ Settled
    BY <1>1, Zenon DEF Rows, Stamped, Settled, Aged
  <1>3. Sweep /\ Gone
    BY Zenon DEF Sweep, Gone, NoReap
  <1> QED
    BY <1>1, <1>2, <1>3, Zenon DEF IInv

(* What a step of an enrollment does to the enrollments.                     *)
LEMMA GotoEffect ==
  ASSUME TypeOK, NEW d \in Devices, NEW pc \in EnrollSteps, Goto(d, pc)
  PROVE  /\ enr' \in [Devices -> [pc : EnrollSteps, hung : BOOLEAN, kind : {"disk", "cloud", "filesystem", "b2"}]]
         /\ \A e \in Devices : enr'[e].kind = enr[e].kind /\ (e # d => enr'[e] = enr[e])
         /\ enr'[d].pc = pc
  <1>1. enr' = [enr EXCEPT ![d] = [pc |-> pc, hung |-> enr[d].hung /\ pc \notin Over, kind |-> enr[d].kind]]
    BY Zenon DEF Goto
  <1>2. (enr[d].hung /\ pc \notin Over) \in BOOLEAN
    BY Zenon
  <1>3. \A h \in BOOLEAN : [pc |-> pc, hung |-> h, kind |-> enr[d].kind]
              \in [pc : EnrollSteps, hung : BOOLEAN, kind : {"disk", "cloud", "filesystem", "b2"}]
    BY Zenon DEF TypeOK
  <1> QED
    BY <1>1, <1>2, <1>3 DEF TypeOK

(* What a cleanup that fails leaves on record.                               *)
LEMMA LeaveEffect ==
  ASSUME TypeOK, NEW d \in Devices, NEW what \in SUBSET {"keys", "row", "repo"}, Leave(d, what)
  PROVE  /\ left' \in [Devices -> SUBSET {"keys", "row", "repo"}]
         /\ left'[d] = left[d] \cup what /\ \A e \in Devices \ {d} : left'[e] = left[e]
  <1>1. left \in [Devices -> SUBSET {"keys", "row", "repo"}] /\ left' = [left EXCEPT ![d] = left[d] \cup what]
    BY Zenon DEF TypeOK, Leave
  <1>2. left[d] \cup what \in SUBSET {"keys", "row", "repo"}
    BY <1>1
  <1> QED
    BY <1>1, <1>2, Zenon

(* Deleting B2 keys: those that are still there are on record.               *)
LEMMA DeleteEffect ==
  ASSUME TypeOK, NEW d \in Devices, NEW may, DeleteB2Keys(d, may)
  PROVE  /\ b2' \in [Devices -> SUBSET {"writer", "reader"}]
         /\ left' \in [Devices -> SUBSET {"keys", "row", "repo"}]
         /\ b2'[d] \subseteq b2[d] /\ (b2'[d] = {} \/ "keys" \in left'[d]) /\ left[d] \subseteq left'[d]
         /\ \A e \in Devices \ {d} : b2'[e] = b2[e] /\ left'[e] = left[e]
  <1>1. PICK kept \in SUBSET b2[d] : b2' = [b2 EXCEPT ![d] = kept] /\ Leave(d, IF kept = {} THEN {} ELSE {"keys"})
    BY Zenon DEF DeleteB2Keys
  <1>2. b2 \in [Devices -> SUBSET {"writer", "reader"}]
    BY Zenon DEF TypeOK
  <1>3. kept \in SUBSET {"writer", "reader"}
    BY <1>2, Zenon
  <1>4. (IF kept = {} THEN {} ELSE {"keys"}) \in SUBSET {"keys", "row", "repo"}
    BY Zenon
  <1>5. /\ left' \in [Devices -> SUBSET {"keys", "row", "repo"}]
        /\ left'[d] = left[d] \cup (IF kept = {} THEN {} ELSE {"keys"})
        /\ \A e \in Devices \ {d} : left'[e] = left[e]
    BY <1>1, <1>4, LeaveEffect, Zenon
  <1> QED
    BY <1>1, <1>2, <1>3, <1>5, Zenon

(* A device whose enrollment is not over has not been revoked on an earlier  *)
(* day, so what happens to it does not concern the reap job.                 *)
LEMMA NotAged ==
  ASSUME IInv, NEW d \in Devices, enr[d].pc \notin Over
  PROVE  ~Aged(d)
  BY Zenon DEF IInv, Settled

(* Whatever an enrollment does to its own device, the reap job and the       *)
(* retired devices are left alone.                                           *)
LEMMA OwnDevice ==
  ASSUME IInv, NEW d \in Devices, ~Aged(d),
         \A e \in Devices \ {d} : /\ enr'[e] = enr[e] /\ key'[e] = key[e] /\ since'[e] = since[e]
                                  /\ (e \in repo' <=> e \in repo),
         since'[d] \in {since[d], None}, UNCHANGED <<reap, retired, window, now>>
  PROVE  Settled' /\ Sweep' /\ Gone'
  <1>1. ~Aged(d)'
    BY Zenon DEF Aged
  <1>2. \A e \in Devices \ {d} : (Aged(e)' <=> Aged(e)) /\ (OnDisk(e)' <=> OnDisk(e))
    BY Zenon DEF Aged, OnDisk
  <1>3. d \notin reap.todo /\ d \notin retired /\ reap.todo \subseteq Devices /\ retired \subseteq Devices
    BY Zenon DEF IInv, Sweep, Gone, TypeOK
  <1>4. Settled'
    BY <1>1, <1>2, Zenon DEF IInv, Settled, Over
  <1>5. Sweep'
    BY <1>2, <1>3, Zenon DEF IInv, Sweep
  <1>6. Gone'
    BY <1>2, <1>3, Zenon DEF IInv, Gone
  <1> QED
    BY <1>4, <1>5, <1>6, Zenon

(* A step of an enrollment that is not over.                                 *)
LEMMA EnrollStep ==
  ASSUME IInv, NEW d \in Devices, enr[d].pc \notin Over, NEW pc \in EnrollSteps \ {"idle"}, Goto(d, pc),
         uses' \in Nat, UNCHANGED <<tokenRevoked, pinned, retired, rvk, reap, window, now, queued>>,
         left' \in [Devices -> SUBSET {"keys", "row", "repo"}], kits' \subseteq Devices,
         row' \in [Devices -> {"none", "half", "full"}], key' \in [Devices -> {"none", "active", "disabled"}],
         b2' \in [Devices -> SUBSET {"writer", "reader"}], repo' \subseteq Devices,
         revokedAt' \in [Devices -> Nat \cup {None}], since' \in [Devices -> Nat \cup {None}],
         \A e \in Devices \ {d} : /\ row'[e] = row[e] /\ key'[e] = key[e] /\ (e \in repo' <=> e \in repo)
                                  /\ revokedAt'[e] = revokedAt[e] /\ since'[e] = since[e],
         \/ revokedAt'[d] = revokedAt[d] /\ since'[d] = since[d]
         \/ revokedAt'[d] = None /\ since'[d] = None,
         row'[d] = "full" => pc = "done",
         pc = "create" => row'[d] = "none" /\ revokedAt'[d] = None /\ since'[d] = None
  PROVE  IInv'
  <1>1. /\ enr' \in [Devices -> [pc : EnrollSteps, hung : BOOLEAN, kind : {"disk", "cloud", "filesystem", "b2"}]]
        /\ \A e \in Devices : enr'[e].kind = enr[e].kind /\ (e # d => enr'[e] = enr[e])
        /\ enr'[d].pc = pc
    BY GotoEffect, Zenon DEF IInv
  <1>2. TypeOK'
    BY <1>1, Zenon DEF IInv, TypeOK
  <1>3. Rows'
    BY <1>1 DEF IInv, Rows
  <1>4. Stamped'
    BY Zenon DEF IInv, Stamped
  <1>5. ~Aged(d)
    BY NotAged, Zenon
  <1>6. Settled' /\ Sweep' /\ Gone'
    BY <1>1, <1>5, OwnDevice, Zenon
  <1> QED
    BY <1>2, <1>3, <1>4, <1>6, Zenon DEF IInv

(* The steps of handleEnroll keep the invariant.                             *)
LEMMA EnrollKeeps ==
  ASSUME IInv, NEW d \in Devices,
         \/ Consume(d) \/ CreateRow(d) \/ Provision(d) \/ CreateReader(d) \/ Initialize(d) \/ Rollback(d)
         \/ SetAgentBundle(d) \/ UnwindRevoke(d) \/ DeleteAgent(d) \/ RemoveHostedRepository(d)
  PROVE  IInv'
  <1> USE DEF token, creds, stamps, aside
  <1>0. TypeOK /\ Rows
    BY Zenon DEF IInv
  <1>1. CASE Consume(d)
    <2>1. PICK pc \in {"create", "refused"} : Goto(d, pc)
      BY <1>1, Zenon DEF Consume
    <2>2. uses' \in Nat /\ enr[d].pc = "idle" /\ UNCHANGED <<row, key, b2, repo, revokedAt, since>>
      BY <1>0, <1>1 DEF Consume, TypeOK
    <2>3. row[d] = "none" /\ revokedAt[d] = None /\ since[d] = None
      BY <1>0, <2>2, Zenon DEF Rows
    <2> QED
      BY <1>0, <1>1, <2>1, <2>2, <2>3, EnrollStep, ZenonT(60) DEF Consume, EnrollSteps, Over, TypeOK
  <1>2. CASE CreateRow(d)
    <2>1. PICK pc \in {"provision", "refused"} : Goto(d, pc)
      BY <1>2, Zenon DEF CreateRow
    <2>2. enr[d].pc = "create" /\ row[d] = "none"
      BY <1>0, <1>2, Zenon DEF CreateRow, Rows
    <2>3. row' \in {row, [row EXCEPT ![d] = "half"]}
      BY <1>2, Zenon DEF CreateRow
    <2>4. /\ row' \in [Devices -> {"none", "half", "full"}] /\ row'[d] # "full"
          /\ \A e \in Devices \ {d} : row'[e] = row[e]
      BY <1>0, <2>2, <2>3, ZenonT(60) DEF TypeOK
    <2>5. UNCHANGED <<uses, tokenRevoked, key, b2, repo, pinned, revokedAt, since, retired, rvk, reap, window, now, left, kits, queued>>
      BY <1>2, Zenon DEF CreateRow
    <2> QED
      BY <1>0, <2>1, <2>2, <2>4, <2>5, EnrollStep, Zenon DEF EnrollSteps, Over, TypeOK
  <1>3. CASE Provision(d)
    <2>1. PICK pc \in {"initialize", "delete", "reader"} : Goto(d, pc)
      BY <1>3, Zenon DEF Provision
    <2>2. /\ enr[d].pc = "provision" /\ key' \in {key, [key EXCEPT ![d] = "active"]}
          /\ b2' \in {b2, [b2 EXCEPT ![d] = {"writer"}]} /\ repo' \in {repo, repo \cup {d}}
      BY <1>3, Zenon DEF Provision
    <2>3. b2' \in [Devices -> SUBSET {"writer", "reader"}]
      <3>1. {"writer"} \in SUBSET {"writer", "reader"}
        BY Zenon
      <3> QED
        BY <1>0, <2>2, <3>1 DEF TypeOK
    <2>6. /\ key' \in [Devices -> {"none", "active", "disabled"}]
          /\ \A e \in Devices \ {d} : key'[e] = key[e] /\ (e \in repo' <=> e \in repo)
      BY <1>0, <2>2, ZenonT(60) DEF TypeOK
    <2>4. row[d] # "full"
      BY <1>0, <2>2, Zenon DEF Rows
    <2>5. UNCHANGED <<uses, tokenRevoked, row, pinned, revokedAt, since, retired, rvk, reap, window, now, left, kits, queued>>
      BY <1>3, Zenon DEF Provision
    <2>7. repo' \subseteq Devices
      BY <1>0, <2>2 DEF TypeOK
    <2> QED
      BY <1>0, <2>1, <2>2, <2>3, <2>4, <2>5, <2>6, <2>7, EnrollStep, Zenon DEF EnrollSteps, Over, TypeOK
  <1>4. CASE CreateReader(d)
    <2>1. PICK pc \in {"initialize", "delete"} : Goto(d, pc)
      BY <1>4, Zenon DEF CreateReader
    <2>2. /\ enr[d].pc = "reader"
          /\ \/ b2' = [b2 EXCEPT ![d] = b2[d] \cup {"reader"}] /\ left' = left
             \/ DeleteB2Keys(d, Alive(d))
      BY <1>4, Zenon DEF CreateReader
    <2>3. b2' \in [Devices -> SUBSET {"writer", "reader"}] /\ left' \in [Devices -> SUBSET {"keys", "row", "repo"}]
      <3>1. CASE b2' = [b2 EXCEPT ![d] = b2[d] \cup {"reader"}] /\ left' = left
        BY <1>0, <3>1 DEF TypeOK
      <3> QED
        BY <1>0, <2>2, <3>1, DeleteEffect, Zenon
    <2>4. row[d] # "full"
      BY <1>0, <2>2, Zenon DEF Rows
    <2>5. UNCHANGED <<uses, tokenRevoked, row, key, repo, pinned, revokedAt, since, retired, rvk, reap, window, now, kits, queued>>
      BY <1>4, Zenon DEF CreateReader
    <2> QED
      BY <1>0, <2>1, <2>2, <2>3, <2>4, <2>5, EnrollStep, Zenon DEF EnrollSteps, Over, TypeOK
  <1>5. CASE Initialize(d)
    <2>1. PICK pc \in {"bundle", "rollback"} : Goto(d, pc)
      BY <1>5, Zenon DEF Initialize
    <2>2. /\ enr[d].pc = "initialize" /\ repo' \in {repo, repo \cup {d}}
          /\ UNCHANGED <<uses, tokenRevoked, row, key, b2, pinned, revokedAt, since, retired, rvk, reap, window, now, left, kits, queued>>
      BY <1>5, Zenon DEF Initialize
    <2>3. row[d] # "full"
      BY <1>0, <2>2, Zenon DEF Rows
    <2> QED
      BY <1>0, <2>1, <2>2, <2>3, EnrollStep, Zenon DEF EnrollSteps, Over, TypeOK
  <1>6. CASE Rollback(d)
    <2>1. Goto(d, "delete") /\ enr[d].pc = "rollback"
      BY <1>6, Zenon DEF Rollback
    <2>2. b2' \in [Devices -> SUBSET {"writer", "reader"}] /\ left' \in [Devices -> SUBSET {"keys", "row", "repo"}]
      BY <1>0, <1>6, DeleteEffect, Zenon DEF Rollback
    <2>3. key' \in [Devices -> {"none", "active", "disabled"}] /\ \A e \in Devices \ {d} : key'[e] = key[e]
      BY <1>0, <1>6, ZenonT(60) DEF Rollback, TypeOK
    <2>4. repo' \in {repo, repo \ {d}}
      BY <1>6, Zenon DEF Rollback
    <2>5. UNCHANGED <<uses, tokenRevoked, row, pinned, revokedAt, since, retired, rvk, reap, window, now, kits, queued>>
      BY <1>6, Zenon DEF Rollback
    <2>6. row[d] # "full"
      BY <1>0, <2>1, Zenon DEF Rows
    <2> QED
      BY <1>0, <2>1, <2>2, <2>3, <2>4, <2>5, <2>6, EnrollStep, Zenon DEF EnrollSteps, Over, TypeOK
  <1>7. CASE SetAgentBundle(d)
    <2>1. PICK pc \in {"done", "revoke"} : Goto(d, pc) /\ (pc = "done" \/ UNCHANGED row)
      BY <1>7, Zenon DEF SetAgentBundle
    <2>2. /\ enr[d].pc = "bundle" /\ row' \in {row, [row EXCEPT ![d] = "full"]}
          /\ UNCHANGED <<uses, tokenRevoked, key, b2, repo, pinned, revokedAt, since, retired, rvk, reap, window, now, left, kits, queued>>
      BY <1>7, Zenon DEF SetAgentBundle
    <2>3. row[d] # "full"
      BY <1>0, <2>2, Zenon DEF Rows
    <2>4. row \in [Devices -> {"none", "half", "full"}]
      BY <1>0, Zenon DEF TypeOK
    <2>5. /\ row' \in [Devices -> {"none", "half", "full"}] /\ \A e \in Devices \ {d} : row'[e] = row[e]
          /\ row'[d] = "full" => pc = "done"
      BY <2>1, <2>2, <2>3, <2>4, Zenon
    <2>6. enr[d].pc \notin Over /\ pc \in EnrollSteps \ {"idle"} /\ pc # "create" /\ Goto(d, pc)
      BY <2>1, <2>2 DEF EnrollSteps, Over
    <2> QED
      BY <1>0, <2>2, <2>5, <2>6, EnrollStep, ZenonT(60) DEF TypeOK
  <1>8. CASE UnwindRevoke(d)
    <2>1. Goto(d, "delete") /\ enr[d].pc = "revoke"
      BY <1>8, Zenon DEF UnwindRevoke
    <2>2. row[d] # "full"
      BY <1>0, <2>1, Zenon DEF Rows
    <2>3. b2' \in [Devices -> SUBSET {"writer", "reader"}] /\ left' \in [Devices -> SUBSET {"keys", "row", "repo"}]
      BY <1>0, <1>8, DeleteEffect, Zenon DEF UnwindRevoke
    <2>4. UNCHANGED <<uses, tokenRevoked, row, key, repo, pinned, revokedAt, since, retired, rvk, reap, window, now, kits, queued>>
      BY <1>8, Zenon DEF UnwindRevoke
    <2> QED
      BY <1>0, <2>1, <2>2, <2>3, <2>4, EnrollStep, Zenon DEF EnrollSteps, Over, TypeOK
  <1>9. CASE DeleteAgent(d)
    <2>1. Goto(d, "remove") /\ enr[d].pc = "delete"
      BY <1>9, Zenon DEF DeleteAgent
    <2>2. row[d] # "full"
      BY <1>0, <2>1, Zenon DEF Rows
    <2>3. UNCHANGED <<uses, tokenRevoked, b2, repo, pinned, retired, rvk, reap, window, now, queued>>
      BY <1>9, Zenon DEF DeleteAgent
    <2>4. CASE Leave(d, {"row"}) /\ UNCHANGED <<row, key, kits, revokedAt, since>>
      <3>1. left' \in [Devices -> SUBSET {"keys", "row", "repo"}]
        BY <1>0, <2>4, LeaveEffect, Zenon
      <3> QED
        BY <1>0, <2>1, <2>2, <2>3, <2>4, <3>1, EnrollStep, ZenonT(60) DEF EnrollSteps, Over, TypeOK
    <2>5. CASE /\ row' = [row EXCEPT ![d] = "none"] /\ key' = [key EXCEPT ![d] = "none"] /\ kits' = kits \ {d}
               /\ revokedAt' = [revokedAt EXCEPT ![d] = None] /\ since' = [since EXCEPT ![d] = None] /\ left' = left
      <3>1. kits' \subseteq Devices
        BY <1>0, <2>5, Zenon DEF TypeOK
      <3>2. /\ row' \in [Devices -> {"none", "half", "full"}] /\ row'[d] = "none"
            /\ \A e \in Devices \ {d} : row'[e] = row[e]
        BY <1>0, <2>5, ZenonT(60) DEF TypeOK
      <3>3. /\ key' \in [Devices -> {"none", "active", "disabled"}]
            /\ \A e \in Devices \ {d} : key'[e] = key[e]
        BY <1>0, <2>5, ZenonT(60) DEF TypeOK
      <3>4. /\ revokedAt' \in [Devices -> Nat \cup {None}] /\ revokedAt'[d] = None
            /\ \A e \in Devices \ {d} : revokedAt'[e] = revokedAt[e]
        BY <1>0, <2>5, ZenonT(60) DEF TypeOK
      <3>5. /\ since' \in [Devices -> Nat \cup {None}] /\ since'[d] = None
            /\ \A e \in Devices \ {d} : since'[e] = since[e]
        BY <1>0, <2>5, ZenonT(60) DEF TypeOK
      <3> QED
        BY <1>0, <2>1, <2>3, <2>5, <3>1, <3>2, <3>3, <3>4, <3>5, EnrollStep, Zenon DEF EnrollSteps, Over, TypeOK
    <2> QED
      BY <1>9, <2>4, <2>5, Zenon DEF DeleteAgent
  <1>10. CASE RemoveHostedRepository(d)
    <2>1. Goto(d, "failed") /\ enr[d].pc = "remove" /\ repo' \in {repo, repo \ {d}}
      BY <1>10, Zenon DEF RemoveHostedRepository
    <2>2. row[d] # "full"
      BY <1>0, <2>1, Zenon DEF Rows
    <2>3. UNCHANGED <<uses, tokenRevoked, row, key, b2, pinned, revokedAt, since, retired, rvk, reap, window, now, kits, queued>>
      BY <1>10, Zenon DEF RemoveHostedRepository
    <2>4. left' \in [Devices -> SUBSET {"keys", "row", "repo"}]
      BY <1>0, <1>10, LeaveEffect, Zenon DEF RemoveHostedRepository, TypeOK
    <2> QED
      BY <1>0, <2>1, <2>2, <2>3, <2>4, EnrollStep, Zenon DEF EnrollSteps, Over, TypeOK
  <1> QED
    BY <1>1, <1>2, <1>3, <1>4, <1>5, <1>6, <1>7, <1>8, <1>9, <1>10, Zenon

(* A client that hangs up, and what admins do.                               *)
LEMMA AdminsKeep ==
  ASSUME IInv, NEW d \in Devices,
         \/ HangUp(d) \/ Command(d) \/ MintKit(d)
         \/ RevokeRead(d) \/ RevokeB2(d) \/ RevokeKeys(d) \/ RevokeStamp(d) \/ RevokeSchedule(d)
  PROVE  IInv'
  <1> USE DEF token, creds, stamps, aside
  <1>0. TypeOK /\ Rows /\ Stamped /\ Settled /\ Sweep /\ Gone
    BY Zenon DEF IInv
  <1>1. CASE HangUp(d)
    <2>1. UNCHANGED <<uses, tokenRevoked, row, key, b2, repo, pinned, revokedAt, since, retired, rvk, reap, window, now, left, kits, queued>>
      BY <1>1, Zenon DEF HangUp
    <2>2. enr' = [enr EXCEPT ![d] = [pc |-> enr[d].pc, hung |-> TRUE, kind |-> enr[d].kind]]
      BY <1>1, Zenon DEF HangUp
    <2>3. /\ enr' \in [Devices -> [pc : EnrollSteps, hung : BOOLEAN, kind : {"disk", "cloud", "filesystem", "b2"}]]
          /\ \A e \in Devices : enr'[e].pc = enr[e].pc /\ enr'[e].kind = enr[e].kind
      <3>1. enr[d] \in [pc : EnrollSteps, hung : BOOLEAN, kind : {"disk", "cloud", "filesystem", "b2"}]
        BY <1>0, Zenon DEF TypeOK
      <3> QED
        BY <1>0, <2>2, <3>1, Zenon DEF TypeOK
    <2>4. TypeOK' /\ Rows' /\ Stamped'
      BY <1>0, <2>1, <2>3 DEF TypeOK, Rows, Stamped
    <2>5. \A e \in Devices : (Aged(e)' <=> Aged(e)) /\ (OnDisk(e)' <=> OnDisk(e))
      BY <2>1, <2>3, Zenon DEF Aged, OnDisk
    <2>6. reap.todo \subseteq Devices /\ retired \subseteq Devices
      BY <1>0, Zenon DEF TypeOK
    <2>7. Settled' /\ Gone'
      BY <1>0, <2>1, <2>3, <2>5, <2>6, Zenon DEF Settled, Gone
    <2>8. Sweep'
      BY <1>0, <2>1, <2>5, <2>6, Zenon DEF Sweep
    <2> QED
      BY <2>4, <2>7, <2>8, Zenon DEF IInv
  <1>2. CASE Command(d)
    <2>1. UNCHANGED <<uses, tokenRevoked, row, key, b2, repo, revokedAt, since, retired, enr, rvk, reap, window, now, left, kits, queued>>
      BY <1>2, Zenon DEF Command
    <2>2. pinned' \subseteq Devices
      BY <1>0, <1>2, ZenonT(60) DEF Command, TypeOK
    <2>3. TypeOK'
      BY <1>0, <2>1, <2>2, Zenon DEF TypeOK
    <2> QED
      BY <1>0, <2>1, <2>3, Zenon DEF IInv, Rows, Stamped, Settled, Sweep, Gone, Aged, OnDisk
  <1>3. CASE RevokeRead(d) \/ RevokeB2(d)
    <2>1. UNCHANGED <<uses, tokenRevoked, row, key, repo, pinned, revokedAt, since, retired, enr, reap, window, now, left, kits, queued>>
      BY <1>3, Zenon DEF RevokeRead, RevokeB2
    <2>2. rvk' \in [Devices -> {"idle", "b2", "keys", "stamp", "schedule", "done"}]
      BY <1>0, <1>3 DEF RevokeRead, RevokeB2, RevokeGoto, TypeOK
    <2>3. b2' \in [Devices -> SUBSET {"writer", "reader"}]
      <3>1. b2' = b2 \/ \E kept \in SUBSET b2[d] : b2' = [b2 EXCEPT ![d] = kept]
        BY <1>3, Zenon DEF RevokeRead, RevokeB2
      <3>2. \A kept \in SUBSET b2[d] : kept \in SUBSET {"writer", "reader"}
        BY <1>0 DEF TypeOK
      <3>3. b2 \in [Devices -> SUBSET {"writer", "reader"}]
        BY <1>0, Zenon DEF TypeOK
      <3> QED
        BY <3>1, <3>2, <3>3
    <2>4. TypeOK'
      BY <1>0, <2>1, <2>2, <2>3, Zenon DEF TypeOK
    <2> QED
      BY <1>0, <2>1, <2>4, Zenon DEF IInv, Rows, Stamped, Settled, Sweep, Gone, Aged, OnDisk
  <1>4. CASE RevokeKeys(d)
    <2>1. UNCHANGED <<uses, tokenRevoked, row, b2, repo, pinned, revokedAt, since, retired, enr, reap, window, now, left, kits, queued>>
      BY <1>4, Zenon DEF RevokeKeys
    <2>2. rvk' \in [Devices -> {"idle", "b2", "keys", "stamp", "schedule", "done"}]
      <3>1. \E pc \in {"idle", "stamp"} : rvk' = [rvk EXCEPT ![d] = pc]
        BY <1>4, Zenon DEF RevokeKeys, RevokeGoto
      <3> QED
        BY <1>0, <3>1, Zenon DEF TypeOK
    <2>3. /\ key' \in [Devices -> {"none", "active", "disabled"}]
          /\ \A e \in Devices : key[e] = "none" => key'[e] = "none"
      <3>1. key' = key \/ key' = [key EXCEPT ![d] = IF @ = "active" THEN "disabled" ELSE @]
        BY <1>4, Zenon DEF RevokeKeys
      <3>2. key \in [Devices -> {"none", "active", "disabled"}]
        BY <1>0, Zenon DEF TypeOK
      <3> QED
        BY <3>1, <3>2
    <2>4. TypeOK'
      BY <1>0, <2>1, <2>2, <2>3, Zenon DEF TypeOK
    <2>5. Rows' /\ Stamped' /\ Settled'
      BY <1>0, <2>1, Zenon DEF Rows, Stamped, Settled, Aged
    <2>6. reap.todo \subseteq Devices /\ retired \subseteq Devices
      BY <1>0, Zenon DEF TypeOK
    <2>7. Sweep' /\ Gone'
      BY <1>0, <2>1, <2>3, <2>6, Zenon DEF Sweep, Gone, Aged, OnDisk
    <2> QED
      BY <2>4, <2>5, <2>7, Zenon DEF IInv
  <1>5. CASE RevokeStamp(d)
    <2>1. UNCHANGED <<uses, tokenRevoked, row, key, b2, repo, pinned, retired, enr, reap, window, now, left, kits, queued>>
      BY <1>5, Zenon DEF RevokeStamp
    <2>2. rvk' \in [Devices -> {"idle", "b2", "keys", "stamp", "schedule", "done"}]
      <3>1. \E pc \in {"idle", "schedule"} : rvk' = [rvk EXCEPT ![d] = pc]
        BY <1>5, Zenon DEF RevokeStamp, RevokeGoto
      <3> QED
        BY <1>0, <3>1, Zenon DEF TypeOK
    <2>3. CASE UNCHANGED <<revokedAt, since>>
      <3>1. TypeOK'
        BY <1>0, <2>1, <2>2, <2>3, Zenon DEF TypeOK
      <3> QED
        BY <1>0, <2>1, <2>3, <3>1, Zenon DEF IInv, Rows, Stamped, Settled, Sweep, Gone, Aged, OnDisk
    <2>4. CASE /\ row[d] # "none" /\ revokedAt' = [revokedAt EXCEPT ![d] = now]
               /\ since' = [since EXCEPT ![d] = IF since[d] = None THEN now ELSE since[d]]
      <3>2. /\ revokedAt' \in [Devices -> Nat \cup {None}] /\ revokedAt'[d] = now
            /\ \A e \in Devices \ {d} : revokedAt'[e] = revokedAt[e]
        BY <1>0, <2>4, ZenonT(60) DEF TypeOK
      <3>3. /\ since' \in [Devices -> Nat \cup {None}]
            /\ \A e \in Devices : since[e] # None \/ e # d => since'[e] = since[e]
            /\ since[d] = None => since'[d] = now
        BY <1>0, <2>4, Zenon DEF TypeOK
      <3>4. now \in Nat /\ None \notin Nat
        BY <1>0, EnrollmentAssumption, Zenon DEF TypeOK
      <3>5. TypeOK'
        BY <1>0, <2>1, <2>2, <3>2, <3>3, Zenon DEF TypeOK
      <3>6. enr[d].pc \notin {"idle", "create"}
        BY <1>0, <2>4, Zenon DEF Rows
      <3>7. Rows'
        BY <1>0, <2>1, <3>2, <3>3, <3>6, Zenon DEF Rows
      <3>8. Stamped'
        BY <1>0, <2>1, <3>2, <3>3, <3>4 DEF Stamped
      <3>9. \A e \in Devices : Aged(e)' <=> Aged(e)
        BY <2>1, <3>3, <3>4 DEF Aged
      <3>10. reap.todo \subseteq Devices /\ retired \subseteq Devices
        BY <1>0, Zenon DEF TypeOK
      <3>11. Settled' /\ Gone'
        BY <1>0, <2>1, <3>9, <3>10, Zenon DEF Settled, Gone, OnDisk
      <3>12. \A e \in reap.todo : since'[e] = since[e]
        BY <1>0, <3>3, <3>10, Zenon DEF Sweep, Aged
      <3>13. Sweep'
        BY <1>0, <2>1, <3>9, <3>10, <3>12, Zenon DEF Sweep, OnDisk
      <3> QED
        BY <3>5, <3>7, <3>8, <3>11, <3>13, Zenon DEF IInv
    <2> QED
      BY <1>5, <2>3, <2>4, Zenon DEF RevokeStamp
  <1>6. CASE RevokeSchedule(d)
    <2>1. UNCHANGED <<uses, tokenRevoked, row, key, b2, repo, revokedAt, since, retired, enr, reap, window, now, left, kits>>
      BY <1>6, Zenon DEF RevokeSchedule
    <2>5. queued' \in [agent : Devices, at : Nat] \cup {None}
      <3>1. now \in Nat /\ WindowRead \subseteq Nat /\ queued \in [agent : Devices, at : Nat] \cup {None}
        BY <1>0, EnrollmentAssumption DEF TypeOK, WindowRead
      <3>2. queued' = queued \/ \E w \in WindowRead : queued' = [agent |-> d, at |-> now + w]
        BY <1>6, Zenon DEF RevokeSchedule
      <3>3. \A w \in WindowRead : now + w \in Nat
        BY <3>1
      <3> QED
        BY <3>1, <3>2, <3>3
    <2>2. pinned' \subseteq Devices
      <3>1. pinned' \in {pinned, pinned \cup {d}}
        BY <1>6, Zenon DEF RevokeSchedule
      <3> QED
        BY <1>0, <3>1 DEF TypeOK
    <2>3. rvk' \in [Devices -> {"idle", "b2", "keys", "stamp", "schedule", "done"}]
      <3>1. \E pc \in {"idle", "done"} : rvk' = [rvk EXCEPT ![d] = pc]
        BY <1>6, Zenon DEF RevokeSchedule, RevokeGoto
      <3> QED
        BY <1>0, <3>1, Zenon DEF TypeOK
    <2>4. TypeOK'
      BY <1>0, <2>1, <2>2, <2>3, <2>5, Zenon DEF TypeOK
    <2> QED
      BY <1>0, <2>1, <2>4, Zenon DEF IInv, Rows, Stamped, Settled, Sweep, Gone, Aged, OnDisk
  <1>7. CASE MintKit(d)
    <2>1. UNCHANGED <<uses, tokenRevoked, row, key, b2, repo, pinned, revokedAt, since, retired, enr, rvk, reap, window, now, left, queued>>
      BY <1>7, Zenon DEF MintKit
    <2>2. kits' \subseteq Devices
      BY <1>0, <1>7, ZenonT(60) DEF MintKit, TypeOK
    <2>3. TypeOK'
      BY <1>0, <2>1, <2>2, Zenon DEF TypeOK
    <2> QED
      BY <1>0, <2>1, <2>3, Zenon DEF IInv, Rows, Stamped, Settled, Sweep, Gone, Aged, OnDisk
  <1> QED
    BY <1>1, <1>2, <1>3, <1>4, <1>5, <1>6, <1>7, Zenon

(* The reap job leaves a device for the next one.                            *)
LEMMA SkipKeeps ==
  ASSUME IInv, NEW d, d \in reap.todo, ReapSkip(d), retired' \subseteq Devices,
         UNCHANGED <<uses, tokenRevoked, row, key, b2, repo, pinned, revokedAt, since, enr, rvk, window, now, left, kits, queued>>,
         \A e \in retired' : Aged(e) /\ key[e] = "none" /\ (OnDisk(e) => e \notin repo)
  PROVE  IInv'
  <1>1. /\ reap'.todo \subseteq reap.todo /\ reap'.pc \in {"idle", "next"}
        /\ reap'.pc = "idle" => reap'.todo = {}
        /\ reap'.todo # {} => reap'.set = reap.set
        /\ reap' \in [pc : {"idle", "next", "repo", "retire"}, todo : SUBSET Devices, d : Devices \cup {None},
                      set : Windows \cup {None}]
    BY Zenon DEF IInv, TypeOK, ReapSkip, NoReap
  <1>2. TypeOK'
    BY <1>1, Zenon DEF IInv, TypeOK
  <1>3. Sweep'
    BY <1>1, Zenon DEF IInv, Sweep, Aged
  <1>4. Gone'
    BY Zenon DEF Gone, Aged, OnDisk
  <1> QED
    BY <1>2, <1>3, <1>4, Zenon DEF IInv, Rows, Stamped, Settled, Aged

(* The token and the settings, the reap job, a crash, a new day.             *)
LEMMA JobKeeps ==
  ASSUME IInv,
         \/ RevokeToken \/ (\E w \in Windows : SetWindow(w))
         \/ ReapStart \/ (\E d \in Devices : ReapKeys(d)) \/ ReapRepo \/ ReapRetire \/ Crash \/ Tick
  PROVE  IInv'
  <1> USE DEF token, creds, stamps, aside
  <1>0. TypeOK /\ Rows /\ Stamped /\ Settled /\ Sweep /\ Gone
    BY Zenon DEF IInv
  <1>00. /\ reap.todo \subseteq Devices /\ retired \subseteq Devices /\ now \in Nat /\ None \notin Nat
         /\ Windows \subseteq Nat \ {0} /\ window \in Windows
    BY <1>0, EnrollmentAssumption, Zenon DEF TypeOK
  <1>1. CASE RevokeToken
    <2>1. UNCHANGED <<uses, row, key, b2, repo, pinned, revokedAt, since, retired, enr, rvk, reap, window, now, left, kits, queued>>
      BY <1>1, Zenon DEF RevokeToken
    <2>2. TypeOK'
      BY <1>0, <1>1, <2>1 DEF RevokeToken, TypeOK
    <2> QED
      BY <1>0, <2>1, <2>2, Zenon DEF IInv, Rows, Stamped, Settled, Sweep, Gone, Aged, OnDisk
  <1>2. CASE \E w \in Windows : SetWindow(w)
    <2>1. /\ window' \in Windows
          /\ UNCHANGED <<uses, tokenRevoked, row, key, b2, repo, pinned, revokedAt, since, retired, enr, rvk, reap, now, left, kits, queued>>
      BY <1>2, Zenon DEF SetWindow
    <2>2. TypeOK'
      BY <1>0, <2>1, Zenon DEF TypeOK
    <2> QED
      BY <1>0, <2>1, <2>2, Zenon DEF IInv, Rows, Stamped, Settled, Sweep, Gone, Aged, OnDisk
  <1>3. CASE ReapStart
    <2>1. /\ UNCHANGED <<uses, tokenRevoked, row, key, b2, repo, pinned, revokedAt, since, retired, enr, rvk, window, now, left, kits>>
          /\ queued' \in {queued, None}
      BY <1>3, Zenon DEF ReapStart
    <2>2. PICK w \in WindowRead, ds \in {Devices} \cup {{d} : d \in Devices} :
            reap' = IF {d \in ds : Due(d, w)} = {} THEN NoReap
                    ELSE [pc |-> "next", todo |-> {d \in ds : Due(d, w)}, d |-> None, set |-> window]
      BY <1>3, Zenon DEF ReapStart
    <2>3. ds \subseteq Devices
      BY Zenon
    <2>4. w \in Nat \ {0} /\ ("read" \notin Events => w = window)
      BY <1>00, EnrollmentAssumption, Zenon DEF WindowRead
    <2>5. /\ reap'.todo \subseteq Devices /\ reap'.todo \subseteq {d \in ds : Due(d, w)}
          /\ reap'.pc = "next" \/ (reap'.pc = "idle" /\ reap'.todo = {})
          /\ reap' \in [pc : {"idle", "next", "repo", "retire"}, todo : SUBSET Devices, d : Devices \cup {None},
                        set : Windows \cup {None}]
      BY <1>00, <2>2, <2>3, Zenon DEF NoReap
    <2>6. \A d \in reap'.todo : Aged(d) /\ ("read" \notin Events => reap'.set # None /\ since[d] + reap'.set <= now)
      <3> SUFFICES ASSUME NEW d \in reap'.todo
                   PROVE  Aged(d) /\ ("read" \notin Events => reap'.set # None /\ since[d] + reap'.set <= now)
        BY Zenon
      <3>1. d \in Devices /\ revokedAt[d] # None /\ revokedAt[d] + w <= now
        BY <2>2, <2>5, Zenon DEF Due
      <3>2. since[d] # None /\ since[d] <= revokedAt[d] /\ since[d] \in Nat /\ revokedAt[d] \in Nat
        BY <1>0, <3>1, Zenon DEF Stamped, TypeOK
      <3>3. reap'.set = window
        BY <2>2, <3>1, Zenon DEF NoReap
      <3> QED
        BY <1>00, <2>4, <3>1, <3>2, <3>3 DEF Aged
    <2>7. TypeOK'
      BY <1>0, <2>1, <2>5, ZenonT(60) DEF TypeOK
    <2>8. Sweep'
      BY <2>1, <2>5, <2>6, Zenon DEF Sweep, Aged
    <2> QED
      BY <1>0, <2>1, <2>7, <2>8, Zenon DEF IInv, Rows, Stamped, Settled, Gone, Aged, OnDisk
  <1>4. CASE \E d \in Devices : ReapKeys(d)
    <2>1. PICK d \in Devices : ReapKeys(d)
      BY <1>4, Zenon
    <2>2. /\ d \in reap.todo
          /\ UNCHANGED <<uses, tokenRevoked, row, b2, repo, pinned, revokedAt, since, retired, enr, rvk, window, now, left, queued>>
      BY <2>1, Zenon DEF ReapKeys
    <2>3. CASE key' = [key EXCEPT ![d] = "none"] /\ kits' = kits \ {d} /\ reap' = [reap EXCEPT !.pc = "repo", !.d = d]
      <3>1. key' \in [Devices -> {"none", "active", "disabled"}] /\ key'[d] = "none"
        BY <1>0, <2>3, Zenon DEF TypeOK
      <3>2. \A e \in Devices : key[e] = "none" => key'[e] = "none"
        BY <1>0, <2>3, Zenon DEF TypeOK
      <3>3. /\ reap'.pc = "repo" /\ reap'.d = d /\ reap'.todo = reap.todo /\ reap'.set = reap.set
            /\ reap' \in [pc : {"idle", "next", "repo", "retire"}, todo : SUBSET Devices, d : Devices \cup {None},
                          set : Windows \cup {None}]
        BY <1>0, <2>3, Zenon DEF TypeOK
      <3>7. kits' \subseteq Devices
        BY <1>0, <2>3, Zenon DEF TypeOK
      <3>4. TypeOK'
        BY <1>0, <2>2, <3>1, <3>3, <3>7, Zenon DEF TypeOK
      <3>5. Sweep'
        BY <1>0, <2>2, <3>1, <3>3, Zenon DEF Sweep, Aged
      <3>6. Gone'
        BY <1>0, <1>00, <2>2, <3>2, Zenon DEF Gone, Aged, OnDisk
      <3> QED
        BY <1>0, <2>2, <3>4, <3>5, <3>6, Zenon DEF IInv, Rows, Stamped, Settled, Aged
    <2>4. CASE UNCHANGED <<key, kits>> /\ ReapSkip(d)
      <3>1. retired' \subseteq Devices /\ \A e \in retired' : Aged(e) /\ key[e] = "none" /\ (OnDisk(e) => e \notin repo)
        BY <1>0, <1>00, <2>2, Zenon DEF Gone
      <3> QED
        BY <2>2, <2>4, <3>1, SkipKeeps, Zenon
    <2> QED
      BY <2>1, <2>3, <2>4, Zenon DEF ReapKeys
  <1>5. CASE ReapRepo
    <2>1. UNCHANGED <<uses, tokenRevoked, row, key, b2, pinned, revokedAt, since, retired, enr, rvk, window, now, left, kits, queued>>
      BY <1>5, Zenon DEF ReapRepo
    <2>2. reap.pc = "repo" /\ reap.d \in reap.todo /\ reap.d \in Devices /\ key[reap.d] = "none"
      BY <1>0, <1>00, <1>5, Zenon DEF ReapRepo, Sweep
    <2>3. CASE repo' = (IF reap.d \in Local THEN repo \ {reap.d} ELSE repo) /\ reap' = [reap EXCEPT !.pc = "retire"]
      <3>1. /\ reap'.pc = "retire" /\ reap'.d = reap.d /\ reap'.todo = reap.todo /\ reap'.set = reap.set
            /\ reap' \in [pc : {"idle", "next", "repo", "retire"}, todo : SUBSET Devices, d : Devices \cup {None},
                          set : Windows \cup {None}]
        BY <1>0, <2>3, Zenon DEF TypeOK
      <3>2. repo' \subseteq repo
        BY <2>3, Zenon
      <3>3. OnDisk(reap.d) => reap.d \notin repo'
        BY <2>2, <2>3, Zenon DEF OnDisk, Local, Kind
      <3>4. TypeOK'
        BY <1>0, <2>1, <3>1, <3>2, Zenon DEF TypeOK
      <3>5. Sweep'
        BY <1>0, <2>1, <2>2, <3>1, <3>3, Zenon DEF Sweep, Aged, OnDisk
      <3>6. Gone'
        BY <1>0, <2>1, <3>2, Zenon DEF Gone, Aged, OnDisk
      <3> QED
        BY <1>0, <2>1, <3>4, <3>5, <3>6, Zenon DEF IInv, Rows, Stamped, Settled, Aged
    <2>4. CASE UNCHANGED repo /\ ReapSkip(reap.d)
      <3>1. retired' \subseteq Devices /\ \A e \in retired' : Aged(e) /\ key[e] = "none" /\ (OnDisk(e) => e \notin repo)
        BY <1>0, <1>00, <2>1, Zenon DEF Gone
      <3> QED
        BY <2>1, <2>2, <2>4, <3>1, SkipKeeps, Zenon
    <2> QED
      BY <1>5, <2>3, <2>4, Zenon DEF ReapRepo
  <1>6. CASE ReapRetire
    <2>1. UNCHANGED <<uses, tokenRevoked, row, key, b2, repo, pinned, revokedAt, since, enr, rvk, window, now, left, kits, queued>>
      BY <1>6, Zenon DEF ReapRetire
    <2>2. /\ reap.d \in reap.todo /\ reap.d \in Devices /\ key[reap.d] = "none" /\ Aged(reap.d)
          /\ (OnDisk(reap.d) => reap.d \notin repo)
      BY <1>0, <1>00, <1>6, Zenon DEF ReapRetire, Sweep
    <2>3. retired' \in {retired, retired \cup {reap.d}} /\ ReapSkip(reap.d)
      BY <1>6, Zenon DEF ReapRetire
    <2>4. \A e \in retired' : e \in Devices /\ Aged(e) /\ key[e] = "none" /\ (OnDisk(e) => e \notin repo)
      BY <1>0, <1>00, <2>2, <2>3 DEF Gone
    <2> QED
      BY <2>1, <2>2, <2>3, <2>4, SkipKeeps, Zenon
  <1>7. CASE Crash
    <2>1. UNCHANGED <<uses, tokenRevoked, row, key, b2, repo, pinned, revokedAt, since, retired, window, now, left, kits, queued>>
      BY <1>7, Zenon DEF Crash
    <2>2. /\ reap' = NoReap
          /\ rvk' = [d \in Devices |-> IF rvk[d] = "done" THEN "done" ELSE "idle"]
          /\ enr' = [d \in Devices |-> IF d \in InFlight THEN [pc |-> "dead", hung |-> FALSE, kind |-> enr[d].kind] ELSE enr[d]]
      BY <1>7, Zenon DEF Crash, Kind
    <2>3. /\ enr' \in [Devices -> [pc : EnrollSteps, hung : BOOLEAN, kind : {"disk", "cloud", "filesystem", "b2"}]]
          /\ \A e \in Devices : /\ enr'[e].kind = enr[e].kind
                                /\ enr'[e].pc = (IF e \in InFlight THEN "dead" ELSE enr[e].pc)
      BY <1>0, <2>2, Zenon DEF TypeOK, EnrollSteps
    <2>4. TypeOK'
      BY <1>0, <2>1, <2>2, <2>3, Zenon DEF TypeOK, NoReap
    <2>5. Rows' /\ Stamped' /\ Settled'
      BY <1>0, <2>1, <2>3, Zenon DEF Rows, Stamped, Settled, Aged, InFlight, Over
    <2>6. Sweep' /\ Gone'
      BY <1>0, <1>00, <2>1, <2>2, <2>3, Zenon DEF Sweep, Gone, NoReap, Aged, OnDisk
    <2> QED
      BY <2>4, <2>5, <2>6, Zenon DEF IInv
  <1>8. CASE Tick
    <2>1. /\ UNCHANGED <<uses, tokenRevoked, row, key, b2, repo, pinned, revokedAt, since, retired, enr, rvk, reap, window, left, kits, queued>>
          /\ now' = now + 1 /\ InFlight = {}
      BY <1>8, Zenon DEF Tick
    <2>2. TypeOK'
      BY <1>0, <2>1 DEF TypeOK
    <2>3. \A e \in Devices : since[e] \in Nat \cup {None}
      BY <1>0, Zenon DEF TypeOK
    <2>4. Rows' /\ Stamped'
      <3>1. Rows /\ Stamped /\ UNCHANGED <<row, enr, revokedAt, since>>
        BY <1>0, <2>1, Zenon
      <3>2. Rows'
        BY <3>1, Zenon DEF Rows
      <3>3. \A e \in Devices : since[e] # None => since[e] <= now'
        BY <1>00, <2>1, <2>3, <3>1 DEF Stamped
      <3> QED
        BY <3>1, <3>2, <3>3, Zenon DEF Stamped
    <2>5. Settled'
      BY <1>0, <1>00, <2>1, Zenon DEF Settled, Aged, InFlight, Rows
    <2>6. \A e \in Devices : Aged(e) => Aged(e)'
      BY <1>00, <2>1, <2>3 DEF Aged
    <2>7. Sweep'
      <3>1. reap.set # None => reap.set \in Nat
        BY <1>0, <1>00, Zenon DEF TypeOK
      <3> QED
        BY <1>0, <1>00, <2>1, <2>3, <2>6, <3>1 DEF Sweep, Aged, OnDisk
    <2>8. Gone'
      BY <1>0, <1>00, <2>1, <2>6, Zenon DEF Gone, OnDisk
    <2> QED
      BY <2>2, <2>4, <2>5, <2>7, <2>8, Zenon DEF IInv
  <1> QED
    BY <1>1, <1>2, <1>3, <1>4, <1>5, <1>6, <1>7, <1>8, Zenon

(* The invariant is inductive.                                               *)
LEMMA NextIInv == IInv /\ [Next]_vars => IInv'
  <1> SUFFICES ASSUME IInv, [Next]_vars PROVE IInv'
    BY Zenon
  <1>1. CASE UNCHANGED vars
    BY <1>1, ZenonT(60) DEF vars, IInv, TypeOK, Rows, Stamped, Settled, Sweep, Gone, Aged, OnDisk
  <1>2. CASE Next
    BY <1>2, EnrollKeeps, AdminsKeep, JobKeeps, Zenon DEF Next
  <1> QED
    BY <1>1, <1>2, Zenon

(* The reap job only ever works on devices that were first revoked on an     *)
(* earlier day and whose enrollment is over, and takes from them the         *)
(* credentials before the bytes and the bytes before the stamp.              *)
THEOREM ReapInvariant == Spec => []IInv
  <1>1. Init => IInv
    BY InitIInv, Zenon
  <1>2. IInv /\ [Next]_vars => IInv'
    BY NextIInv, Zenon
  <1> QED
    BY <1>1, <1>2, PTL DEF Spec

(* "the row is only stamped once both are gone" (reap.go): a retired device  *)
(* has no gateway key to write with and no repository on this server.        *)
THEOREM RetiredDevicesAreGone == Spec => []RetiredIsGone
  <1>1. IInv => RetiredIsGone
    BY Zenon DEF IInv, TypeOK, Gone, RetiredIsGone, Local, Kind, OnDisk
  <1> QED
    BY <1>1, ReapInvariant, PTL

-----------------------------------------------------------------------------
(* While an enrollment can take its repository away again, its row is not    *)
(* full.                                                                     *)
LEMMA OnlyTheReaperRemoves ==
  ASSUME IInv, [Next]_vars, NEW d \in Devices, row[d] = "full", d \in repo, d \notin repo'
  PROVE  d \in reap.todo
  <1> USE DEF token, creds, stamps, aside
  <1>1. enr[d].pc = "done" /\ repo \subseteq Devices
    BY Zenon DEF IInv, Rows, TypeOK
  <1>2. repo' # repo
    BY Zenon
  <1>3. CASE \E e \in Devices : Provision(e) \/ Initialize(e)
    BY <1>3, Zenon DEF Provision, Initialize
  <1>4. CASE \E e \in Devices : Rollback(e) \/ RemoveHostedRepository(e)
    BY <1>1, <1>4, Zenon DEF Rollback, RemoveHostedRepository
  <1>5. CASE ReapRepo
    <2>1. reap.pc = "repo" /\ d = reap.d
      BY <1>5, Zenon DEF ReapRepo
    <2> QED
      BY <2>1, Zenon DEF IInv, Sweep
  <1> QED
    BY <1>2, <1>3, <1>4, <1>5, ZenonT(60)
       DEF Next, vars, Consume, CreateRow, CreateReader, SetAgentBundle, UnwindRevoke, DeleteAgent, HangUp, Command,
           MintKit, RevokeRead, RevokeB2, RevokeKeys, RevokeStamp, RevokeSchedule, ReapKeys, RevokeToken, SetWindow,
           ReapStart, ReapRetire, Crash, Tick

(* "a bad value must never shorten the window" (settings.go): as long as the *)
(* setting can be read, the repository of an enrolled device goes only when  *)
(* the device has been revoked for the whole window that was configured when *)
(* the sweep started.                                                        *)
THEOREM RepositoriesOutliveTheWindow ==
  ASSUME "read" \notin Events
  PROVE  Spec => WindowHonoured
  <1>1. IInv /\ [Next]_vars =>
          [\A d \in Devices : row[d] = "full" /\ d \in repo /\ d \notin repo'
             => since[d] # None /\ reap.set # None /\ since[d] + reap.set <= now]_vars
    <2> SUFFICES ASSUME IInv, [Next]_vars, NEW d \in Devices, row[d] = "full", d \in repo, d \notin repo'
                 PROVE  since[d] # None /\ reap.set # None /\ since[d] + reap.set <= now
      BY Zenon
    <2>1. d \in reap.todo
      BY OnlyTheReaperRemoves, Zenon
    <2> QED
      BY <2>1, Zenon DEF IInv, Sweep, Aged
  <1> QED
    BY <1>1, ReapInvariant, PTL DEF Spec, WindowHonoured

-----------------------------------------------------------------------------
(* What an enrollment has handed back so far: what should be gone by its     *)
(* step is gone, or the call that should have removed it failed.  Only a     *)
(* device on B2 has B2 keys, and a revocation may take them at any time.     *)
HandedOf(d) ==
  /\ enr[d].pc = "reader" => enr[d].kind = "b2"
  /\ enr[d].kind # "b2" \/ enr[d].pc \in {"idle", "create", "provision"} => b2[d] = {}
  /\ enr[d].pc \in {"delete", "remove", "failed"} => b2[d] = {} \/ "keys" \in left[d]
  /\ enr[d].pc = "failed" /\ enr[d].kind = "disk" => d \notin repo \/ "repo" \in left[d]
  /\ enr[d].pc \in {"remove", "failed"} => (row[d] = "none" /\ key[d] = "none") \/ "row" \in left[d]

Handed == \A d \in Devices : HandedOf(d)

(* What happens to one device does not concern the others.                   *)
LEMMA OthersHanded ==
  ASSUME Handed, NEW d \in Devices, HandedOf(d)',
         \A e \in Devices \ {d} : /\ enr'[e] = enr[e] /\ b2'[e] = b2[e] /\ row'[e] = row[e] /\ key'[e] = key[e]
                                  /\ (e \in repo' <=> e \in repo) /\ left'[e] = left[e]
  PROVE  Handed'
  <1>1. \A e \in Devices \ {d} : HandedOf(e)'
    BY DEF Handed, HandedOf
  <1> QED
    BY <1>1, Zenon DEF Handed

(* The steps of handleEnroll.                                                *)
LEMMA EnrollHands ==
  ASSUME TypeOK, Handed, NEW d \in Devices,
         \/ Consume(d) \/ CreateRow(d) \/ Provision(d) \/ CreateReader(d) \/ Initialize(d) \/ Rollback(d)
         \/ SetAgentBundle(d) \/ UnwindRevoke(d) \/ DeleteAgent(d) \/ RemoveHostedRepository(d)
  PROVE  Handed'
  <1> USE DEF token, creds, stamps, aside
  <1>0. HandedOf(d) /\ enr[d].pc \in EnrollSteps /\ enr[d].kind \in {"disk", "cloud", "filesystem", "b2"}
    BY Zenon DEF Handed, TypeOK
  <1>1. PICK pc \in EnrollSteps : Goto(d, pc)
    BY Zenon DEF Consume, CreateRow, Provision, CreateReader, Initialize, Rollback, SetAgentBundle, UnwindRevoke, DeleteAgent,
           RemoveHostedRepository, EnrollSteps
  <1>2. /\ enr'[d].kind = enr[d].kind /\ enr'[d].pc = pc /\ enr'[d].hung = (enr[d].hung /\ pc \notin Over)
        /\ \A e \in Devices \ {d} : enr'[e] = enr[e]
    BY <1>1, ZenonT(60) DEF Goto, TypeOK
  <1>a. \A q : Goto(d, q) => q = pc
    <2>1. enr \in [Devices -> [pc : EnrollSteps, hung : BOOLEAN, kind : {"disk", "cloud", "filesystem", "b2"}]]
      BY Zenon DEF TypeOK
    <2>2. ASSUME NEW q, Goto(d, q) PROVE enr'[d].pc = q
      <3>1. enr'[d] = [pc |-> q, hung |-> enr[d].hung /\ q \notin Over, kind |-> enr[d].kind]
        BY <2>1, <2>2, Zenon DEF Goto
      <3> QED
        BY <3>1
    <2> QED
      BY <1>2, <2>2, Zenon
  <1>b. /\ row \in [Devices -> {"none", "half", "full"}] /\ key \in [Devices -> {"none", "active", "disabled"}]
        /\ b2 \in [Devices -> SUBSET {"writer", "reader"}]
    BY Zenon DEF TypeOK
  <1>c. ASSUME CreateReader(d) \/ Rollback(d) \/ UnwindRevoke(d), DeleteB2Keys(d, TRUE) \/ DeleteB2Keys(d, Alive(d))
        PROVE  /\ b2'[d] \subseteq b2[d] /\ (b2'[d] = {} \/ "keys" \in left'[d]) /\ left[d] \subseteq left'[d]
               /\ \A e \in Devices \ {d} : b2'[e] = b2[e] /\ left'[e] = left[e]
    BY <1>c, DeleteEffect, Zenon
  <1>d. ASSUME NEW what \in SUBSET {"keys", "row", "repo"}, Leave(d, what)
        PROVE  left'[d] = left[d] \cup what /\ \A e \in Devices \ {d} : left'[e] = left[e]
    BY <1>d, LeaveEffect, Zenon
  <1>3. \A e \in Devices \ {d} : row'[e] = row[e] /\ key'[e] = key[e] /\ (e \in repo' <=> e \in repo)
    BY ZenonT(60) DEF TypeOK, Consume, CreateRow, Provision, CreateReader, Initialize, Rollback, SetAgentBundle, UnwindRevoke,
           DeleteAgent, RemoveHostedRepository
  <1>5. \A e \in Devices \ {d} : b2'[e] = b2[e] /\ left'[e] = left[e]
    BY <1>b, <1>c, <1>d, ZenonT(60) DEF Consume, CreateRow, Provision, CreateReader, Initialize, Rollback, SetAgentBundle,
           UnwindRevoke, DeleteAgent, RemoveHostedRepository
  <1>4. HandedOf(d)'
    <2>1. CASE Consume(d)
      BY <1>0, <1>a, <1>b, <1>2, <2>1, Zenon DEF HandedOf, Consume, Alive, Kind, Hosted, Over
    <2>2. CASE CreateRow(d)
      BY <1>0, <1>a, <1>b, <1>2, <2>2, Zenon DEF HandedOf, CreateRow, Alive, Kind, Hosted, Over
    <2>3. CASE Provision(d)
      BY <1>0, <1>a, <1>b, <1>2, <2>3, Zenon DEF HandedOf, Provision, Alive, Kind, Hosted, Over
    <2>4. CASE CreateReader(d)
      BY <1>0, <1>a, <1>b, <1>c, <1>2, <2>4, Zenon DEF HandedOf, CreateReader
    <2>5. CASE Initialize(d)
      BY <1>0, <1>a, <1>b, <1>2, <2>5, Zenon DEF HandedOf, Initialize, Alive, Kind, Hosted, Over
    <2>6. CASE Rollback(d)
      BY <1>0, <1>a, <1>b, <1>c, <1>2, <2>6, Zenon DEF HandedOf, Rollback
    <2>7. CASE SetAgentBundle(d)
      BY <1>0, <1>a, <1>b, <1>2, <2>7, Zenon DEF HandedOf, SetAgentBundle, Alive, Kind, Hosted, Over
    <2>8. CASE UnwindRevoke(d)
      BY <1>0, <1>a, <1>b, <1>c, <1>2, <2>8, Zenon DEF HandedOf, UnwindRevoke
    <2>9. CASE DeleteAgent(d)
      <3>1. pc = "remove" /\ enr[d].pc = "delete" /\ b2' = b2
        BY <1>a, <2>9, Zenon DEF DeleteAgent
      <3>2. left[d] \subseteq left'[d] /\ ((row'[d] = "none" /\ key'[d] = "none") \/ "row" \in left'[d])
        <4>1. CASE Leave(d, {"row"})
          BY <1>d, <4>1, Zenon
        <4> QED
          BY <1>b, <2>9, <4>1, Zenon DEF DeleteAgent
      <3> QED
        BY <1>0, <1>2, <3>1, <3>2, Zenon DEF HandedOf
    <2>10. CASE RemoveHostedRepository(d)
      <3>1. pc = "failed" /\ enr[d].pc = "remove" /\ b2' = b2 /\ row' = row /\ key' = key
        BY <1>a, <2>10, Zenon DEF RemoveHostedRepository
      <3>2. left[d] \subseteq left'[d] /\ (enr[d].kind = "disk" => d \notin repo' \/ "repo" \in left'[d])
        <4>1. CASE Leave(d, {"repo"})
          BY <1>d, <4>1, Zenon
        <4> QED
          BY <2>10, <4>1, Zenon DEF RemoveHostedRepository, Kind
      <3> QED
        BY <1>0, <1>2, <3>1, <3>2, Zenon DEF HandedOf
    <2> QED
      BY <2>1, <2>2, <2>3, <2>4, <2>5, <2>6, <2>7, <2>8, <2>9, <2>10, Zenon
  <1> QED
    BY <1>2, <1>3, <1>4, <1>5, OthersHanded, Zenon

(* The other steps: the client's, the admins', the reap job's and the crash. *)
LEMMA OthersHand ==
  ASSUME TypeOK, Handed, Next,
         ~\E d \in Devices :
            \/ Consume(d) \/ CreateRow(d) \/ Provision(d) \/ CreateReader(d) \/ Initialize(d) \/ Rollback(d)
            \/ SetAgentBundle(d) \/ UnwindRevoke(d) \/ DeleteAgent(d) \/ RemoveHostedRepository(d)
  PROVE  Handed'
  <1> USE DEF token, creds, stamps, aside
  <1>1. ASSUME NEW d \in Devices, HangUp(d) PROVE Handed'
    <2>1. /\ enr'[d].kind = enr[d].kind /\ enr'[d].pc = enr[d].pc
          /\ \A e \in Devices \ {d} : enr'[e] = enr[e]
      BY <1>1, ZenonT(60) DEF HangUp, TypeOK
    <2>2. /\ b2' = b2 /\ row' = row /\ key' = key /\ repo' = repo /\ left' = left
      BY <1>1, Zenon DEF HangUp
    <2>3. HandedOf(d)'
      BY <2>1, <2>2, Zenon DEF Handed, HandedOf
    <2> QED
      BY <2>1, <2>2, <2>3, OthersHanded, Zenon
  <1>2. ASSUME NEW d \in Devices, RevokeB2(d) PROVE Handed'
    <2>1. /\ b2'[d] \subseteq b2[d] /\ (\A e \in Devices \ {d} : b2'[e] = b2[e])
          /\ enr' = enr /\ row' = row /\ key' = key /\ repo' = repo /\ left' = left
      BY <1>2, ZenonT(60) DEF RevokeB2, TypeOK
    <2> QED
      BY <2>1, Zenon DEF Handed, HandedOf
  <1>3. ASSUME NEW d \in Devices, RevokeKeys(d) \/ ReapKeys(d) PROVE Handed'
    <2>1. /\ (key[d] = "none" => key'[d] = "none") /\ (\A e \in Devices \ {d} : key'[e] = key[e])
          /\ enr' = enr /\ row' = row /\ b2' = b2 /\ repo' = repo /\ left' = left
      BY <1>3 DEF RevokeKeys, ReapKeys, TypeOK
    <2> QED
      BY <2>1, Zenon DEF Handed, HandedOf
  <1>4. CASE Crash
    <2>1. \A d \in Devices : \/ enr'[d] = enr[d]
                             \/ enr'[d].pc = "dead" /\ enr'[d].kind = enr[d].kind
      BY <1>4, Zenon DEF Crash, Kind
    <2>2. b2' = b2 /\ row' = row /\ key' = key /\ repo' = repo /\ left' = left
      BY <1>4, Zenon DEF Crash
    <2> QED
      BY <2>1, <2>2, Zenon DEF Handed, HandedOf
  <1>5. ASSUME \/ \E d \in Devices : Command(d) \/ MintKit(d) \/ RevokeRead(d) \/ RevokeStamp(d) \/ RevokeSchedule(d)
               \/ RevokeToken \/ (\E w \in Windows : SetWindow(w)) \/ ReapStart \/ ReapRepo \/ ReapRetire \/ Tick
        PROVE  Handed'
    <2>1. /\ left' = left /\ enr' = enr /\ row' = row /\ b2' = b2 /\ key' = key /\ repo' \subseteq repo
      BY <1>5, Zenon DEF Command, MintKit, RevokeRead, RevokeStamp, RevokeSchedule, RevokeToken, SetWindow, ReapStart, ReapRepo, ReapRetire, Tick
    <2> QED
      BY <2>1, Zenon DEF Handed, HandedOf
  <1> QED
    BY <1>1, <1>2, <1>3, <1>4, <1>5, Zenon DEF Next

(* "Every failure from here on must hand back what has been minted": an      *)
(* enrollment that answered with an error leaves nothing behind but what the *)
(* call that should have removed it failed on, for any number of devices and *)
(* targets, and whatever the clients, the admins, the reap job and crashes   *)
(* do meanwhile.                                                             *)
THEOREM FailedEnrollmentsAreHandedBack == Spec => []HandedBack
  <1>1. Init => Handed
    <2> SUFFICES ASSUME Init, NEW d \in Devices PROVE HandedOf(d)
      BY Zenon DEF Handed
    <2>1. PICK kind \in Fleets : enr[d] = [pc |-> "idle", hung |-> FALSE, kind |-> kind[d]]
      BY Zenon DEF Init
    <2>2. enr[d].pc = "idle"
      BY <2>1
    <2>3. b2[d] = {}
      BY Zenon DEF Init
    <2> QED
      BY <2>2, <2>3, Zenon DEF HandedOf
  <1>2. TypeOK /\ Handed /\ [Next]_vars => Handed'
    <2>1. TypeOK /\ Handed /\ Next => Handed'
      <3> SUFFICES ASSUME TypeOK, Handed, Next PROVE Handed'
        BY Zenon
      <3> DEFINE steps(d) ==
            \/ Consume(d) \/ CreateRow(d) \/ Provision(d) \/ CreateReader(d) \/ Initialize(d) \/ Rollback(d)
            \/ SetAgentBundle(d) \/ UnwindRevoke(d) \/ DeleteAgent(d) \/ RemoveHostedRepository(d)
      <3>1. CASE \E d \in Devices : steps(d)
        BY <3>1, EnrollHands, Zenon
      <3>2. CASE ~\E d \in Devices : steps(d)
        BY <3>2, OthersHand, Zenon
      <3> QED
        BY <3>1, <3>2, Zenon
    <2>2. Handed /\ UNCHANGED vars => Handed'
      BY DEF vars, Handed, HandedOf
    <2> QED
      BY <2>1, <2>2, Zenon
  <1>3. Handed => HandedBack
    BY Zenon DEF Handed, HandedOf, HandedBack, Kind
  <1>4. IInv => TypeOK
    BY Zenon DEF IInv
  <1> QED
    BY <1>1, <1>2, <1>3, ReapInvariant, <1>4, PTL DEF Spec

-----------------------------------------------------------------------------
(* A step admits at most one enrollment, and none without a use.             *)
LEMMA SpentStep ==
  ASSUME TypeOK, Next
  PROVE  \/ Admitted' \subseteq Admitted /\ uses' = uses
         \/ /\ \E d \in Devices : Admitted' \subseteq Admitted \cup {d}
            /\ uses' = uses + 1 /\ (MaxUses # 0 => uses < MaxUses)
  <1> USE DEF token, creds, stamps, aside
  <1>1. CASE \E d \in Devices : Consume(d)
    <2>1. PICK d \in Devices : Consume(d)
      BY <1>1, Zenon
    <2>2. PICK pc \in {"create", "refused"} : Goto(d, pc)
      BY <2>1, Zenon DEF Consume
    <2>3. \A e \in Devices : e # d => enr'[e] = enr[e]
      BY <2>2, GotoEffect, Zenon DEF EnrollSteps
    <2>4. Admitted' \subseteq Admitted \cup {d}
      BY <2>3, Zenon DEF Admitted
    <2>5. CASE Usable /\ uses' = uses + 1
      BY <2>4, <2>5, Zenon DEF Usable
    <2>6. CASE uses' = uses /\ Goto(d, "refused")
      <3>1. enr'[d].pc = "refused"
        BY <2>6, GotoEffect, Zenon DEF EnrollSteps
      <3> QED
        BY <2>4, <2>6, <3>1, Zenon DEF Admitted
    <2> QED
      BY <2>1, <2>5, <2>6, Zenon DEF Consume
  <1>2. CASE \E d \in Devices :
               \/ CreateRow(d) \/ Provision(d) \/ CreateReader(d) \/ Initialize(d) \/ Rollback(d)
               \/ SetAgentBundle(d) \/ UnwindRevoke(d) \/ DeleteAgent(d) \/ RemoveHostedRepository(d)
    <2>1. PICK d \in Devices :
               \/ CreateRow(d) \/ Provision(d) \/ CreateReader(d) \/ Initialize(d) \/ Rollback(d)
               \/ SetAgentBundle(d) \/ UnwindRevoke(d) \/ DeleteAgent(d) \/ RemoveHostedRepository(d)
      BY <1>2, Zenon
    <2>2. uses' = uses /\ enr[d].pc \notin {"idle", "refused"} /\ \E pc \in EnrollSteps : Goto(d, pc)
      BY <2>1, Zenon DEF CreateRow, Provision, CreateReader, Initialize, Rollback, SetAgentBundle, UnwindRevoke, DeleteAgent,
                  RemoveHostedRepository, EnrollSteps
    <2>3. \A e \in Devices : e # d => enr'[e] = enr[e]
      BY <2>2, GotoEffect, Zenon
    <2> QED
      BY <2>2, <2>3, Zenon DEF Admitted
  <1>3. CASE \E d \in Devices : HangUp(d)
    <2>1. PICK d \in Devices : HangUp(d)
      BY <1>3, Zenon
    <2>2. enr' = [enr EXCEPT ![d] = [pc |-> enr[d].pc, hung |-> TRUE, kind |-> enr[d].kind]] /\ uses' = uses
      BY <2>1, Zenon DEF HangUp
    <2>3. \A e \in Devices : enr'[e].pc = enr[e].pc
      BY <2>2, Zenon DEF TypeOK
    <2> QED
      BY <2>2, <2>3, Zenon DEF Admitted
  <1>4. CASE Crash
    <2>1. /\ uses' = uses
          /\ \A e \in Devices : enr'[e] = IF e \in InFlight THEN [pc |-> "dead", hung |-> FALSE, kind |-> enr[e].kind] ELSE enr[e]
      BY <1>4, Zenon DEF Crash, Kind
    <2>2. \A e \in InFlight : e \in Admitted
      BY Zenon DEF InFlight, Admitted, Over
    <2> QED
      BY <2>1, <2>2, Zenon DEF Admitted
  <1>5. CASE \/ \E d \in Devices : \/ Command(d) \/ MintKit(d) \/ RevokeRead(d) \/ RevokeB2(d) \/ RevokeKeys(d)
                                   \/ RevokeStamp(d) \/ RevokeSchedule(d) \/ ReapKeys(d)
             \/ RevokeToken \/ (\E w \in Windows : SetWindow(w)) \/ ReapStart \/ ReapRepo \/ ReapRetire \/ Tick
    <2>1. enr' = enr /\ uses' = uses
      BY <1>5, ZenonT(60) DEF Command, MintKit, RevokeRead, RevokeB2, RevokeKeys, RevokeStamp, RevokeSchedule, ReapKeys, RevokeToken,
                  SetWindow, ReapStart, ReapRepo, ReapRetire, Tick
    <2> QED
      BY <2>1, Zenon DEF Admitted
  <1> QED
    BY <1>1, <1>2, <1>3, <1>4, <1>5, Zenon DEF Next

(* ConsumeToken (tokens.go): a token admits at most max_uses enrollments,    *)
(* however many requests race for its last use.                              *)
THEOREM TokenNotOverspent == Spec => []TokenBudget
  <1>0. IsFiniteSet(Devices) /\ MaxUses \in Nat
    BY EnrollmentAssumption, Zenon
  <1>1. Init => Spent
    <2> SUFFICES ASSUME Init PROVE Spent
      BY Zenon
    <2>1. PICK kind \in Fleets : enr = [d \in Devices |-> [pc |-> "idle", hung |-> FALSE, kind |-> kind[d]]]
      BY Zenon DEF Init
    <2>2. Admitted = {}
      BY <2>1, Zenon DEF Admitted
    <2> QED
      BY <1>0, <2>2, FS_EmptySet DEF Init, Spent
  <1>2. IInv /\ Spent /\ [Next]_vars => Spent'
    <2> SUFFICES ASSUME IInv, Spent, [Next]_vars PROVE Spent'
      BY Zenon
    <2>1. CASE UNCHANGED vars
      BY <2>1, Zenon DEF vars, Spent, Admitted
    <2>2. CASE Next
      <3>1. Admitted \subseteq Devices /\ uses \in Nat /\ TypeOK
        BY Zenon DEF Admitted, IInv, TypeOK
      <3>2. IsFiniteSet(Admitted) /\ Cardinality(Admitted) \in Nat
        BY <1>0, <3>1, FS_Subset, FS_CardinalityType, Zenon
      <3>3. CASE Admitted' \subseteq Admitted /\ uses' = uses
        <4>1. Cardinality(Admitted') <= Cardinality(Admitted) /\ Cardinality(Admitted') \in Nat
          BY <3>2, <3>3, FS_Subset, FS_CardinalityType, Zenon
        <4> QED
          BY <3>1, <3>2, <3>3, <4>1 DEF Spent
      <3>4. CASE /\ \E d \in Devices : Admitted' \subseteq Admitted \cup {d}
                 /\ uses' = uses + 1 /\ (MaxUses # 0 => uses < MaxUses)
        <4>1. PICK d \in Devices : Admitted' \subseteq Admitted \cup {d}
          BY <3>4, Zenon
        <4> DEFINE n == Cardinality(Admitted)
                   N == Cardinality(Admitted \cup {d})
        <4>0. IsFiniteSet(Admitted \cup {d}) /\ N = IF d \in Admitted THEN n ELSE n + 1
          BY <3>2, FS_AddElement, Zenon
        <4>2. N \in Nat /\ N <= n + 1
          BY <3>2, <4>0
        <4>3. Cardinality(Admitted') <= N /\ Cardinality(Admitted') \in Nat
          BY <4>0, <4>1, FS_Subset, FS_CardinalityType, Zenon
        <4> QED
          BY <1>0, <3>1, <3>2, <3>4, <4>2, <4>3 DEF Spent
      <3> QED
        BY <2>2, <3>1, <3>3, <3>4, SpentStep, Zenon
    <2> QED
      BY <2>1, <2>2, Zenon
  <1>3. IInv /\ Spent => TokenBudget
    <2> SUFFICES ASSUME IInv, Spent PROVE TokenBudget
      BY Zenon
    <2>1. Admitted \subseteq Devices /\ uses \in Nat
      BY Zenon DEF Admitted, IInv, TypeOK
    <2>2. Cardinality(Admitted) \in Nat
      BY <1>0, <2>1, FS_Subset, FS_CardinalityType, Zenon
    <2> QED
      BY <1>0, <2>1, <2>2 DEF Spent, TokenBudget, Admitted
  <1> QED
    BY <1>1, <1>2, <1>3, ReapInvariant, PTL DEF Spec
=============================================================================
