------------------------------- MODULE Mirror -------------------------------
(* The mirror job: fleet/jobs/mirror.go over the mirror_hides and repo_stats  *)
(* tables.  For every device it uploads the objects the off-site bucket does  *)
(* not hold and hides, with delete markers, those the hosted store no longer  *)
(* holds, within a budget over a sliding window.                              *)
(*                                                                            *)
(* One target and one of its devices: devices share only the tables, which    *)
(* are keyed by target and device.  The scheduler runs one job at a time; the *)
(* device keeps writing and deleting meanwhile.  Objects are told apart by    *)
(* key alone, as the job does.                                                *)
EXTENDS Naturals, FiniteSets, FiniteSetsExt

CONSTANTS
  NumKeys,    \* object keys, in the order of the listings
  Limits,     \* what the two hide settings may be: [percent, min]
  hideWindow,
  MaxNow,     \* bound: the last instant
  MaxPuts     \* bound: objects the device writes

ASSUME MirrorAssumption ==
  /\ NumKeys \in Nat /\ hideWindow \in Nat /\ MaxNow \in Nat \ {0} /\ MaxPuts \in Nat
  /\ Limits \subseteq [percent : 1..100, min : Nat \ {0}]

VARIABLES
  local,      \* the hosted store's keys
  born,       \* when each was last written, 1 for those that are not there
  puts,       \* bound counter
  live,       \* keys the bucket's listing shows
  versions,   \* keys the bucket holds a version of
  versioned,  \* does the bucket keep versions
  reserved,   \* mirror_hides: hides by the start of the run that reserved them
  hidden,     \* history: delete markers by the start of the run that set them
  mirroredAt, \* repo_stats.mirrored_at, 0 for none
  r,          \* the run
  now

vars == <<local, born, puts, live, versions, versioned, reserved, hidden, mirroredAt, r, now>>
store == <<local, born, puts>>
bucket == <<live, versions, versioned>>

Keys == 1..NumKeys
Times == 1..MaxNow

(* stay and some: the keys that have been in the hosted store all the time,   *)
(* and at some time, since the run began.  The rest is what the run knows.    *)
NoRun == [pc |-> "idle", at |-> 1, limits |-> [percent |-> 1, min |-> 1], versioned |-> FALSE,
          stay |-> {}, some |-> {}, objs |-> {}, have |-> {}, todo |-> {}, gone |-> {}]

TypeOK ==
  /\ local \subseteq Keys /\ born \in [Keys -> Times] /\ puts \in 0..MaxPuts
  /\ live \subseteq Keys /\ versions \subseteq Keys /\ versioned \in BOOLEAN
  /\ reserved \in [Times -> Nat] /\ hidden \in [Times -> Nat]
  /\ mirroredAt \in 0..MaxNow /\ now \in Times
  /\ r \in [pc : {"idle", "walk", "list", "upload", "hide", "record"}, at : Times,
            limits : [percent : 1..100, min : Nat \ {0}], versioned : BOOLEAN,
            stay : SUBSET Keys, some : SUBSET Keys, objs : SUBSET Keys,
            have : SUBSET Keys, todo : SUBSET Keys, gone : SUBSET Keys]

Init ==
  /\ local = Keys /\ born = [k \in Keys |-> 1] /\ puts = 0
  /\ live = {} /\ versions = {} /\ versioned \in BOOLEAN
  /\ reserved = [t \in Times |-> 0] /\ hidden = reserved
  /\ mirroredAt = 0 /\ r = NoRun /\ now = 1

-----------------------------------------------------------------------------
(* The job *)

(* device goes on to record, whatever became of hide.                         *)
Done == r' = [NoRun EXCEPT !.pc = "record", !.at = r.at]

(* Mirror and target: the settings are read, which an admin may have changed  *)
(* since the last run, the bucket is asked whether it keeps versions (no      *)
(* answer counts as no), and the walk of the hosted root begins.              *)
Start ==
  /\ r.pc = "idle"
  /\ \E l \in Limits, v \in {FALSE, versioned} :
       r' = [NoRun EXCEPT !.pc = "walk", !.at = now, !.limits = l, !.versioned = v,
                          !.stay = local, !.some = local]
  /\ UNCHANGED <<store, bucket, reserved, hidden, mirroredAt, now>>

(* Out of time, shut down, crashed, or a listing failed.                      *)
Stop ==
  /\ r.pc # "idle"
  /\ r' = NoRun
  /\ UNCHANGED <<store, bucket, reserved, hidden, mirroredAt, now>>

(* The device's objects, from pages read while it writes and deletes; device  *)
(* is not called for one with none.                                           *)
Walk ==
  /\ r.pc = "walk"
  /\ \E objs \in SUBSET r.some :
       /\ r.stay \subseteq objs
       /\ r' = IF objs = {} THEN NoRun ELSE [r EXCEPT !.pc = "list", !.objs = objs, !.some = {}]
  /\ UNCHANGED <<store, bucket, reserved, hidden, mirroredAt, now>>

(* Mutant: an empty listing counts as a failure.                              *)
MirroredNonEmpty ==
  /\ r.pc = "list"
  /\ r' = IF live = {} THEN NoRun ELSE [r EXCEPT !.pc = "upload", !.have = live, !.todo = r.objs \ live]
  /\ UNCHANGED <<store, bucket, reserved, hidden, mirroredAt, now>>

(* mirrored: the job is the bucket's only writer.                             *)
Mirrored ==
  /\ r.pc = "list"
  /\ r' = [r EXCEPT !.pc = "upload", !.have = live, !.todo = r.objs \ live]
  /\ UNCHANGED <<store, bucket, reserved, hidden, mirroredAt, now>>

(* Keys are taken in order.                                                   *)
First(k, keys) == k \in keys /\ \A j \in keys : k <= j

(* One upload.  An object that is gone from the hosted store fails, as may a  *)
(* call that has stored the object; a failure ends the device's turn.         *)
Stored(k) == live' = live \union {k} /\ versions' = versions \union {k} /\ UNCHANGED versioned

Upload(k) ==
  /\ r.pc = "upload" /\ First(k, r.todo)
  /\ \/ k \in local /\ Stored(k) /\ r' = [r EXCEPT !.todo = @ \ {k}]
     \/ k \in local /\ Stored(k) /\ r' = NoRun
     \/ UNCHANGED bucket /\ r' = NoRun
  /\ UNCHANGED <<store, reserved, hidden, mirroredAt, now>>

(* The hides of some runs, one by one: their number is the sum.               *)
Each(hides, runs) == UNION {{t} \X (1..hides[t]) : t \in runs}

(* Hides by runs that began within the window before this one, or since.      *)
Recent(hides) == Cardinality(Each(hides, {t \in Times : t + hideWindow >= r.at}))

(* limit, in hide *)
Limit == Max({r.limits.min, (Cardinality(r.have) * r.limits.percent) \div 100})

(* Mutant: the reservation is not recorded.                                   *)
ReserveForgets(n) ==
  /\ Recent(reserved) + n <= Limit
  /\ UNCHANGED reserved

(* ReserveMirrorHides, one transaction: old rows go, and the reservation is   *)
(* made if it stays within the limit.                                         *)
Reserve(n) ==
  /\ Recent(reserved) + n <= Limit
  /\ reserved' = [t \in Times |-> (IF t + hideWindow >= r.at THEN reserved[t] ELSE 0)
                                    + (IF t = r.at THEN n ELSE 0)]

(* Mutant: the test for a key of the hosted store is the wrong way round.     *)
HideBeginKept ==
  /\ r.pc = "upload" /\ r.todo = {}
  /\ LET gone == r.have \intersect r.objs
     IN \/ gone # {} /\ r.versioned /\ Reserve(Cardinality(gone))
           /\ r' = [r EXCEPT !.pc = "hide", !.gone = gone]
        \/ Done /\ UNCHANGED reserved
  /\ UNCHANGED <<store, bucket, hidden, mirroredAt, now>>

(* hide, up to its first delete.  It does nothing when nothing is gone, when  *)
(* the bucket keeps no versions, when the store fails or the budget does not  *)
(* allow all of it.                                                           *)
HideBegin ==
  /\ r.pc = "upload" /\ r.todo = {}
  /\ LET gone == r.have \ r.objs
     IN \/ gone # {} /\ r.versioned /\ Reserve(Cardinality(gone))
           /\ r' = [r EXCEPT !.pc = "hide", !.gone = gone]
        \/ Done /\ UNCHANGED reserved
  /\ UNCHANGED <<store, bucket, hidden, mirroredAt, now>>

(* One delete marker; where no versions are kept, a deletion.                 *)
Marked(k) ==
  /\ live' = live \ {k}
  /\ versions' = IF versioned THEN versions ELSE versions \ {k}
  /\ hidden' = [hidden EXCEPT ![r.at] = @ + 1]
  /\ UNCHANGED versioned

(* A key that is hidden already is passed over; a failure, also one of a call *)
(* that has taken effect, ends the hiding.                                    *)
Hide(k) ==
  /\ r.pc = "hide" /\ First(k, r.gone)
  /\ \/ k \in live /\ Marked(k) /\ r' = [r EXCEPT !.gone = @ \ {k}]
     \/ k \in live /\ Marked(k) /\ Done
     \/ k \notin live /\ UNCHANGED <<bucket, hidden>> /\ r' = [r EXCEPT !.gone = @ \ {k}]
     \/ UNCHANGED <<bucket, hidden>> /\ Done
  /\ UNCHANGED <<store, reserved, mirroredAt, now>>

HideEnd ==
  /\ r.pc = "hide" /\ r.gone = {}
  /\ Done
  /\ UNCHANGED <<store, bucket, reserved, hidden, mirroredAt, now>>

(* Mutant: the time of the record instead of the run's.                       *)
RecordNow ==
  /\ r.pc = "record"
  /\ mirroredAt' \in {mirroredAt, now}
  /\ r' = NoRun
  /\ UNCHANGED <<store, bucket, reserved, hidden, now>>

(* SetMirrored, if the device is known and the store lets it.                 *)
Record ==
  /\ r.pc = "record"
  /\ mirroredAt' \in {mirroredAt, r.at}
  /\ r' = NoRun
  /\ UNCHANGED <<store, bucket, reserved, hidden, now>>

-----------------------------------------------------------------------------
(* The device and the clock *)

Put(k) ==
  /\ k \notin local /\ puts < MaxPuts
  /\ local' = local \union {k} /\ born' = [born EXCEPT ![k] = now] /\ puts' = puts + 1
  /\ r' = IF r.pc = "walk" THEN [r EXCEPT !.some = @ \union {k}] ELSE r
  /\ UNCHANGED <<bucket, reserved, hidden, mirroredAt, now>>

(* The device, maintenance between two runs, or a damaged disk.               *)
Remove(k) ==
  /\ k \in local
  /\ local' = local \ {k} /\ born' = [born EXCEPT ![k] = 1] /\ UNCHANGED puts
  /\ r' = [r EXCEPT !.stay = @ \ {k}]
  /\ UNCHANGED <<bucket, reserved, hidden, mirroredAt, now>>

Tick ==
  /\ now < MaxNow
  /\ now' = now + 1
  /\ UNCHANGED <<store, bucket, reserved, hidden, mirroredAt, r>>

Job ==
  \/ Start \/ Stop \/ Walk \/ Mirrored \/ HideBegin \/ HideEnd \/ Record
  \/ \E k \in Keys : Upload(k) \/ Hide(k)

Next ==
  \/ Job
  \/ \E k \in Keys : Put(k) \/ Remove(k)
  \/ Tick

Spec == Init /\ [][Next]_vars

(* The scheduler starts the job again and again and bounds every run, a run   *)
(* is not for ever cut short before its uploads, and the upload of an object  *)
(* that stays does not fail for ever.                                         *)
Fairness ==
  /\ WF_vars(Job) /\ SF_vars(Walk) /\ SF_vars(Mirrored)
  /\ \A k \in Keys : SF_vars(Upload(k) /\ r'.pc = "upload")

FairSpec == Spec /\ Fairness

-----------------------------------------------------------------------------
(* "Live keys are never touched, however old": the job hides only what has    *)
(* been missing from the hosted store at some time since the run began.       *)
OnlyGoneHidden == [][live \ live' \subseteq Keys \ r.stay]_vars

(* "once this run plus the last hideWindow of runs would pass the guard, the  *)
(* device hides nothing": what the runs of the window have hidden, and what   *)
(* this one is still going to hide, is within its limit, also after runs that *)
(* crashed or failed in the middle and whatever the settings were before.     *)
HideBudget == r.pc = "hide" => Recent(hidden) + Cardinality(r.gone) <= Limit

(* "No version is ever deleted".                                              *)
VersionsKept == [][versions \subseteq versions']_vars

(* What mirrored_at tells the dashboard: every object that was written before *)
(* that time and is still in the hosted store is in the mirror.               *)
Offsite == \A k \in local : born[k] < mirroredAt => k \in live

(* No object of the hosted store stays out of the mirror for ever, once the   *)
(* device has stopped writing (MaxPuts): an object that vanishes between walk *)
(* and upload ends the turn, so endless churn could starve the keys after it. *)
EventuallyOffsite == \A k \in Keys : []<>(k \in local => k \in live)
=============================================================================
