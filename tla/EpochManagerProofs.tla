------------------------- MODULE EpochManagerProofs -------------------------
(***************************************************************************)
(* Proofs about EpochManager: for any number of clients, epochs and index  *)
(* writes, and any parameters that Validate accepts, no index entry is     *)
(* lost, a returned index set is complete, and neither the write epoch nor *)
(* the deletion watermark goes back.                                       *)
(***************************************************************************)
EXTENDS EpochManager, WellFoundedInduction, TLAPS

Entry == Int \X Int
Blobs == [type : {"xn", "xs", "xr"}, lo : Nat, hi : Nat, entries : SUBSET Entry, ts : Nat]
Marks == [wm : Nat, ts : Nat]
Snapshot == [validUntil : Int, writeEpoch : Nat, sets : SUBSET Blobs, unc : SUBSET Blobs,
             markers : SUBSET Nat, marks : SUBSET Marks, seen : SUBSET Entry]
PCs == {"idle", "state", "list", "check", "shard", "put", "confirm", "delete"}
Job == [op : Ops \cup {"idle"},
        pc : PCs,
        id : Nat, lo : Int, hi : Int, set : SUBSET (Blobs \cup Entry \cup Shards), first : SUBSET Entry]

Bounded(S) == \E n \in Nat : \A x \in S : x <= n

Types ==
  /\ now \in Nat /\ writes \in Nat /\ plan \in Plans
  /\ index \in SUBSET Blobs /\ acked \in SUBSET Entry
  /\ markers \in SUBSET Nat /\ Bounded(markers)
  /\ marks \in SUBSET Marks /\ Bounded({m.wm : m \in marks})
  /\ state \in [Clients -> Snapshot] /\ load \in [Clients -> Snapshot] /\ job \in [Clients -> Job]

(***************************************************************************)
(* Blobs and snapshots.  An epoch is compacted once two more have begun,   *)
(* and a snapshot shows compactions that are still there.                  *)
(***************************************************************************)
Ordered(idx, top, t) ==
  \A b \in idx : /\ b.ts <= t /\ b.lo <= b.hi
                 /\ b.type = "xn" => b.hi = b.lo /\ b.lo <= top
                 /\ b.type = "xs" => b.hi = b.lo
                 /\ b.type = "xr" => b.hi > 0
                 /\ b.type # "xn" => b.hi <= top - 2

Has(cs, e) == \E s \in cs.sets : s.type = "xs" /\ s.lo = e

\* Ranges that follow each other from epoch 0.
Linked(R) == \A b \in R : b.lo = 0 \/ \E p \in R : p.hi + 1 = b.lo

Based(cs, idx, top, mark, t, acks) ==
  /\ cs.writeEpoch <= top /\ cs.validUntil <= t + EpochRefreshFrequency
  /\ \A b \in cs.sets : b \in idx /\ b.type # "xn" /\ b.hi <= cs.writeEpoch - 2
  /\ Linked(OfType(cs.sets, "xr"))
  /\ \A b \in cs.unc : b.type = "xn" /\ b.ts <= t
  /\ \A m \in cs.marks : m.wm <= mark
  /\ cs.seen \subseteq acks

\* A snapshot in use shows a compaction of every epoch that had one when its refresh began.
Current(cs, idx, t) ==
  t <= cs.validUntil =>
    \A b \in idx : b.type = "xs" /\ b.ts < cs.validUntil - EpochRefreshFrequency => Has(cs, b.lo)

Sound(cs, ops, idx, top, mark, t, acks) ==
  /\ Based(cs, idx, top, mark, t, acks)
  /\ cs.seen # {} => "read" \in ops
  /\ "read" \in ops => Current(cs, idx, t)

Snapshots(c) ==
  \A cs \in {state[c], load[c]} :
    Sound(cs, plan.ops[c], index, Top(markers), Watermark(marks), now, acked)

(***************************************************************************)
(* Entry x of epoch e is held: every compaction that covers e has it, in   *)
(* the storage or about to be written, and its uncompacted blob is there   *)
(* or superseded, by a compaction that is older than the safety margin and *)
(* that the process which compacts knows of.                               *)
(***************************************************************************)
Compacts(c) == plan.ops[c] \cap {"single", "range"} # {}
Raw(idx, x, e) == \E b \in idx : b.type = "xn" /\ b.lo = e /\ x \in b.entries
InSets(idx, x, e) == \A b \in idx : b.type # "xn" /\ b.lo <= e /\ e <= b.hi => x \in b.entries
Carried(j, x, e) == j.op \in {"single", "range"} /\ j.pc = "put" /\ j.lo <= e /\ e <= j.hi => x \in j.set
Old(idx, e, t) == \E b \in idx : b.type = "xs" /\ b.lo = e /\ b.ts < t - CleanupSafetyMargin
Knows(st, ld, e) == (st.validUntil >= 0 => Has(st, e)) /\ (ld # NoLoad => Has(ld, e))

Gone(e) == Old(index, e, now) /\ \A c \in Clients : Compacts(c) => Knows(state[c], load[c], e)

Held(x, e) ==
  /\ InSets(index, x, e)
  /\ \A c \in Clients : Carried(job[c], x, e)
  /\ Raw(index, x, e) \/ Gone(e)

\* What was acknowledged is held, and belongs to a write that began.
Acked == \A x \in acked : x[1] <= writes /\ \E e \in 0 .. Top(markers) : Held(x, e)

(***************************************************************************)
(* Maintenance tasks.                                                      *)
(***************************************************************************)
Task(j, st, top, ops) ==
  /\ j.op \in MaintenanceOps \cup {"read"} => j.op \in ops
  /\ j.op \in {"single", "range"} /\ j.pc \in {"list", "put"} =>
       /\ 0 <= j.lo /\ j.lo <= j.hi /\ j.hi <= top - 2
       /\ j.op = "single" => j.lo = j.hi
       /\ j.op = "range" => j.hi > 0
       /\ j.pc = "put" => j.set \subseteq Entry
       /\ j.pc = "list" =>
            /\ st.validUntil >= 0
            /\ j.op = "single" => ~Has(st, j.lo)
            /\ j.op = "range" => j.lo = RangeEnd(st) + 1 /\ j.hi <= st.writeEpoch - 2
  /\ j.op = "superseded" /\ j.pc = "delete" => st.unc # {}
  /\ j.op \in {"advance", "watermark"} => j.hi \in Nat

Tasks(c) ==
  /\ Task(job[c], state[c], Top(markers), plan.ops[c])
  /\ load[c] # NoLoad => job[c].pc \in {"state", "confirm"}

(***************************************************************************)
(* Index writes.  As long as the epoch of a write is not settled its shards*)
(* are there; once a snapshot that was begun after the last of them says   *)
(* so they are held.                                                       *)
(***************************************************************************)
Mine(c) == {<<job[c].id, s>> : s \in {t \in Shards : job[c].op = "write"}}
Behind(cs, e) == cs.validUntil >= 0 /\ cs.writeEpoch < e + 2

Writes(c) ==
  job[c].op = "write" =>
    /\ job[c].id \in 1 .. writes /\ Mine(c) \cap acked = {}
    /\ job[c].pc \in {"state", "shard", "put", "confirm"}
    /\ -1 <= job[c].lo /\ job[c].lo <= Top(markers) /\ (job[c].pc # "state" => job[c].lo >= 0)
    /\ job[c].set \subseteq Shards /\ (job[c].pc = "confirm" => job[c].set = Shards)
    /\ Top(markers) < job[c].lo + 2 => \A s \in job[c].set : Raw(index, <<job[c].id, s>>, job[c].lo)
    /\ job[c].pc = "confirm" /\ (Behind(state[c], job[c].lo) \/ Behind(load[c], job[c].lo))
         => \A x \in Mine(c) : Held(x, job[c].lo)

OwnWrites == \A c, d \in Clients : job[c].op = "write" /\ job[d].op = "write" /\ job[c].id = job[d].id => c = d

(***************************************************************************)
(* Reads.  While a snapshot is in use, the uncompacted blobs it shows of   *)
(* the epochs around its write epoch are there.                            *)
(***************************************************************************)
Unc(cs, idx, t, x, e) ==
  t < cs.validUntil /\ cs.writeEpoch - 1 <= e /\ e <= cs.writeEpoch + 1
    => \E b \in cs.unc \cap idx : b.lo = e /\ x \in b.entries

\* What a snapshot has seen is held.
Shown(c) ==
  /\ \A x \in state[c].seen : \E e \in 0 .. state[c].writeEpoch :
       Held(x, e) /\ Unc(state[c], index, now, x, e)
  /\ \A x \in load[c].seen : \E e \in 0 .. load[c].writeEpoch : Held(x, e)

\* A read holds what its first snapshot had seen, and will find it.
Reads(c) ==
  job[c].op = "read" =>
    /\ job[c].pc \in {"list", "check"} => job[c].hi # -1
    /\ job[c].hi # -1 =>
         /\ job[c].hi \in Nat /\ job[c].first \subseteq acked
         /\ \A x \in job[c].first : \E e \in 0 .. job[c].hi :
              Held(x, e) /\ Unc(state[c], index, now, x, e)
    /\ job[c].pc = "check" =>
         /\ job[c].set \subseteq Blobs
         /\ \A b \in job[c].set : b.type = "xn" => ~Has(state[c], b.lo)
         /\ now < state[c].validUntil => job[c].first \subseteq Entries(job[c].set \cap index)

IInv ==
  /\ Types /\ Ordered(index, Top(markers), now)
  /\ \A c \in Clients : Snapshots(c) /\ Tasks(c) /\ Writes(c) /\ Shown(c) /\ Reads(c)
  /\ OwnWrites /\ Acked

-----------------------------------------------------------------------------
(* Numbers.  Zenon proves every leaf that does not name another prover. *)

USE Zenon

\* A nonempty set of naturals has a least element.
LEMMA LeastNumber ==
  ASSUME NEW T, T \subseteq Nat, T # {}
  PROVE  \E x \in T : \A y \in T : x <= y
<1> DEFINE R == {ss \in Nat \X Nat : ss[1] < ss[2]}
<1>1. IsWellFoundedOn(R, Nat)
  BY NatLessThanWellFounded DEF OpToRel
<1>2. PICK x \in T : \A y \in T : ~(<<y, x>> \in R)
  BY <1>1, WFMin
<1>3. \A y \in T : ~(y < x)
  BY <1>2
<1>4. QED BY <1>3, SMT

\* Min of a nonempty set of naturals is its least element.
LEMMA MinIsLeast ==
  ASSUME NEW T, T \subseteq Nat, T # {}
  PROVE  Min(T) \in T /\ \A y \in T : Min(T) <= y
BY LeastNumber DEF Min

\* Max of a nonempty set of naturals that has a bound is its greatest element.
LEMMA MaxIsGreatest ==
  ASSUME NEW T, T \subseteq Nat, T # {}, NEW n \in Nat, \A y \in T : y <= n
  PROVE  Max(T) \in T /\ \A y \in T : Max(T) >= y
<1> DEFINE U == {k \in Nat : \A y \in T : y <= k}
<1>1. PICK k \in U : \A l \in U : k <= l
  <2>1. U \subseteq Nat /\ U # {}
    OBVIOUS
  <2> HIDE DEF U
  <2>2. QED BY <2>1, LeastNumber
<1>2. k \in T
  <2>1. SUFFICES ASSUME k \notin T PROVE FALSE
    OBVIOUS
  <2>2. ASSUME NEW y \in T PROVE y \in Nat /\ y <= k - 1
    <3>1. y \in Nat /\ y <= k /\ y # k
      BY <1>1, <2>1
    <3>2. QED BY <1>1, <3>1, SMT
  <2>3. k - 1 \in Nat
    <3>1. PICK y \in T : TRUE
      OBVIOUS
    <3>2. y \in Nat /\ y <= k - 1
      BY <2>2
    <3>3. QED BY <1>1, <3>2, SMT
  <2>4. k - 1 \in U
    BY <2>2, <2>3
  <2>5. k <= k - 1 /\ k \in Nat
    BY <1>1, <2>4
  <2>6. QED BY <2>5, SMT
<1>3. \A y \in T : k >= y
  <2>1. k \in Nat /\ \A y \in T : y <= k /\ y \in Nat
    BY <1>1
  <2>2. QED BY <2>1
<1>4. QED BY <1>2, <1>3 DEF Max

\* A number between 0 and a bound.
LEMMA InRange ==
  ASSUME NEW a \in Int, NEW b \in Nat, a >= 0, a <= b
  PROVE  a \in Nat /\ a \in 0 .. b
BY SMT

\* The write epoch and the watermark that a listing shows.
LEMMA TopIsBound ==
  ASSUME NEW T, T \subseteq Nat, Bounded(T)
  PROVE  Top(T) \in Nat /\ Top(T) \in T \cup {0} /\ \A y \in T : y <= Top(T)
<1>1. PICK n \in Nat : \A y \in T : y <= n
  BY DEF Bounded
<1> DEFINE S == T \cup {0}
<1>2. S \subseteq Nat /\ S # {} /\ \A y \in S : y <= n
  BY <1>1, SMT
<1>3. T \subseteq S /\ Top(T) = Max(S) /\ S = T \cup {0}
  BY DEF Top
<1> HIDE DEF S
<1>4. Max(S) \in S /\ \A y \in S : Max(S) >= y
  BY <1>1, <1>2, MaxIsGreatest
<1>5. \A y \in S : y <= Max(S)
  <2>1. TAKE y \in S
  <2>2. y \in Nat /\ Max(S) \in Nat /\ Max(S) >= y
    BY <1>2, <1>4
  <2>3. QED BY <2>2
<1>6. QED BY <1>2, <1>3, <1>4, <1>5

\* The top does not go back while the old one stays in the set.
LEMMA TopGrows ==
  ASSUME NEW T, T \subseteq Nat, Bounded(T), NEW S, S \subseteq Nat, Bounded(S),
         Top(T) \in S \/ Top(T) = 0
  PROVE  Top(T) <= Top(S)
<1>1. Top(T) \in Nat /\ Top(S) \in Nat /\ \A y \in S : y <= Top(S)
  BY TopIsBound
<1>2. QED BY <1>1, SMT

-----------------------------------------------------------------------------
(***************************************************************************)
(* Steps.  No step but the end of a write loses what is held, and blobs    *)
(* are deleted only by their writer (D), or once they are superseded.      *)
(***************************************************************************)

Gentle(D) ==
  /\ plan' = plan /\ now <= now' /\ writes <= writes' /\ acked \subseteq acked'
  /\ Top(markers) <= Top(markers') /\ Watermark(marks) <= Watermark(marks')
  /\ \A b \in index : b \in index' \/ (b.type = "xn" /\ (b.entries \subseteq D \/ Old(index, b.lo, now)))
  /\ \A b \in index' : b \in index \/ b.ts >= now
  /\ \A x \in Entry \ D, e \in Nat : Held(x, e) => Held(x, e)'

\* The snapshot that stands for none.
LEMMA InvalidFields ==
  /\ Invalid \in Snapshot /\ Invalid.validUntil = -1 /\ Invalid.writeEpoch = 0 /\ Invalid.sets = {}
  /\ Invalid.unc = {} /\ Invalid.marks = {} /\ Invalid.seen = {} /\ NoLoad = Invalid
BY SMT DEF Invalid, NoLoad, Snapshot

\* A client that is idle has nothing to show for it.
LEMMA IdleFields ==
  /\ Idle \in Job /\ Idle.op = "idle" /\ Idle.pc = "idle"
BY SMT DEF Idle, Begin, Job, PCs

\* The write epoch and the watermark are numbers.
LEMMA TopTypes ==
  ASSUME NEW ms \in SUBSET Nat, Bounded(ms), NEW ws \in SUBSET Marks, Bounded({m.wm : m \in ws})
  PROVE  Top(ms) \in Nat /\ Watermark(ws) \in Nat
<1>1. {m.wm : m \in ws} \subseteq Nat
  BY DEF Marks
<1>2. QED BY <1>1, TopIsBound DEF Watermark

\* No snapshot is a sound one.
LEMMA InvalidSound ==
  ASSUME NEW ops, NEW idx, NEW top \in Nat, NEW mark, NEW t \in Nat, NEW acks
  PROVE  Sound(Invalid, ops, idx, top, mark, t, acks)
<1>1. Invalid.writeEpoch <= top /\ Invalid.validUntil <= t + EpochRefreshFrequency
      /\ ~(t <= Invalid.validUntil)
  BY InvalidFields, ParametersValid, SMT DEF Validate
<1>2. QED BY <1>1, InvalidFields DEF Sound, Based, Current, Linked, OfType

\* A sound snapshot stays sound: a compaction that it does not show is younger than it.
LEMMA SoundStays ==
  ASSUME NEW cs \in Snapshot, NEW ops, NEW idx \in SUBSET Blobs, NEW idx2 \in SUBSET Blobs,
         NEW top \in Nat, NEW top2 \in Nat, NEW mark \in Nat, NEW mark2 \in Nat,
         NEW t \in Nat, NEW t2 \in Nat, NEW acks, NEW acks2,
         Sound(cs, ops, idx, top, mark, t, acks),
         top <= top2, mark <= mark2, t <= t2, acks \subseteq acks2,
         \A b \in idx : b \in idx2 \/ b.type = "xn", \A b \in idx2 : b \in idx \/ b.ts >= t
  PROVE  Sound(cs, ops, idx2, top2, mark2, t2, acks2)
<1>1. cs.validUntil \in Int /\ cs.writeEpoch \in Nat /\ cs.unc \subseteq Blobs /\ cs.marks \subseteq Marks
  BY DEF Snapshot
<1>2. Based(cs, idx, top, mark, t, acks)
  BY DEF Sound
<1>3. cs.writeEpoch <= top2 /\ cs.validUntil <= t2 + EpochRefreshFrequency
  <2>1. cs.writeEpoch <= top /\ cs.validUntil <= t + EpochRefreshFrequency
    BY <1>2 DEF Based
  <2>2. QED BY <1>1, <2>1, ParametersValid, SMT DEF Validate
<1>4. \A b \in cs.sets : b \in idx2
  BY <1>2 DEF Based
<1>5. \A b \in cs.unc : b.ts <= t2
  <2>1. TAKE b \in cs.unc
  <2>2. b.ts \in Nat /\ b.ts <= t
    BY <1>1, <1>2 DEF Based, Blobs
  <2>3. QED BY <2>2, SMT
<1>6. \A m \in cs.marks : m.wm <= mark2
  <2>1. TAKE m \in cs.marks
  <2>2. m.wm \in Nat /\ m.wm <= mark
    BY <1>1, <1>2 DEF Based, Marks
  <2>3. QED BY <2>2, SMT
<1>7. Based(cs, idx2, top2, mark2, t2, acks2)
  BY <1>2, <1>3, <1>4, <1>5, <1>6 DEF Based
<1>8. ASSUME Current(cs, idx, t) PROVE Current(cs, idx2, t2)
  <2>1. SUFFICES ASSUME t2 <= cs.validUntil, NEW b \in idx2, b.type = "xs",
                        b.ts < cs.validUntil - EpochRefreshFrequency
                 PROVE  Has(cs, b.lo)
    BY DEF Current
  <2>2. b.ts \in Nat /\ cs.validUntil <= t + EpochRefreshFrequency
    BY <1>2 DEF Based, Blobs
  <2>3. t <= cs.validUntil /\ ~(b.ts >= t)
    BY <1>1, <2>1, <2>2, ParametersValid, SMT DEF Validate
  <2>4. b \in idx
    BY <2>3
  <2>5. QED BY <1>8, <2>1, <2>3, <2>4 DEF Current
<1>9. QED BY <1>7, <1>8 DEF Sound

\* A client whose snapshots stay, or are dropped, has sound ones.
LEMMA SnapshotsKeep ==
  ASSUME Types, Types', NEW D, Gentle(D), NEW d \in Clients, Snapshots(d),
         state'[d] \in {state[d], Invalid}, load'[d] \in {load[d], Invalid}
  PROVE  Snapshots(d)'
<1>1. /\ Top(markers) \in Nat /\ Watermark(marks) \in Nat /\ Top(markers') \in Nat
      /\ Watermark(marks') \in Nat /\ now \in Nat /\ now' \in Nat
      /\ index \in SUBSET Blobs /\ index' \in SUBSET Blobs
      /\ state[d] \in Snapshot /\ load[d] \in Snapshot
  BY TopTypes DEF Types
<1>2. /\ plan' = plan /\ now <= now' /\ acked \subseteq acked'
      /\ Top(markers) <= Top(markers') /\ Watermark(marks) <= Watermark(marks')
      /\ \A b \in index : b \in index' \/ b.type = "xn"
      /\ \A b \in index' : b \in index \/ b.ts >= now
  BY DEF Gentle
<1>3. Sound(Invalid, plan'.ops[d], index', Top(markers'), Watermark(marks'), now', acked')
  BY <1>1, InvalidSound
<1>4. ASSUME NEW cs \in {state[d], load[d]}
      PROVE  Sound(cs, plan'.ops[d], index', Top(markers'), Watermark(marks'), now', acked')
  <2>1. cs \in Snapshot /\ Sound(cs, plan.ops[d], index, Top(markers), Watermark(marks), now, acked)
    BY <1>1 DEF Snapshots
  <2>2. QED BY <1>1, <1>2, <2>1, SoundStays
<1>5. QED BY <1>3, <1>4 DEF Snapshots

\* A compaction that a snapshot shows is of an epoch that was settled.
LEMMA HasSettled ==
  ASSUME NEW cs \in Snapshot, NEW idx \in SUBSET Blobs, NEW top, NEW mark, NEW t, NEW acks,
         Based(cs, idx, top, mark, t, acks), Ordered(idx, top, t), NEW e, Has(cs, e)
  PROVE  e \in Nat /\ e <= cs.writeEpoch - 2
<1>1. PICK s \in cs.sets : s.type = "xs" /\ s.lo = e
  BY DEF Has
<1>2. s \in idx /\ s.hi <= cs.writeEpoch - 2 /\ s.hi = s.lo
  BY <1>1 DEF Based, Ordered
<1>3. s.lo \in Nat
  BY <1>2 DEF Blobs
<1>4. QED BY <1>1, <1>2, <1>3

\* An epoch whose compaction is older than the margin is settled, and a snapshot in use shows
\* the compaction: the margin is longer than a snapshot is used.
LEMMA OldSettled ==
  ASSUME NEW idx \in SUBSET Blobs, NEW top \in Nat, NEW t, Ordered(idx, top, t), NEW e, Old(idx, e, t)
  PROVE  e \in Nat /\ e <= top - 2
<1>1. PICK s \in idx : s.type = "xs" /\ s.lo = e
  BY DEF Old
<1>2. s.hi <= top - 2 /\ s.hi = s.lo /\ s.lo \in Nat
  BY <1>1 DEF Ordered, Blobs
<1>3. QED BY <1>1, <1>2

\* A snapshot in use shows a compaction of every epoch that has one older than the safety margin.
LEMMA OldShown ==
  ASSUME NEW cs \in Snapshot, NEW idx \in SUBSET Blobs, NEW t \in Nat, Current(cs, idx, t),
         t <= cs.validUntil, NEW e, Old(idx, e, t)
  PROVE  Has(cs, e)
<1>1. PICK s \in idx : s.type = "xs" /\ s.lo = e /\ s.ts < t - CleanupSafetyMargin
  BY DEF Old
<1>2. cs.validUntil \in Int /\ s.ts \in Nat
  BY DEF Snapshot, Blobs
<1>3. s.ts < cs.validUntil - EpochRefreshFrequency
  BY <1>1, <1>2, ParametersValid, SMT DEF Validate
<1>4. QED BY <1>1, <1>3 DEF Current

\* What a snapshot in use shows of the epochs around its write epoch stays.
LEMMA UncStays ==
  ASSUME NEW cs \in Snapshot, NEW idx \in SUBSET Blobs, NEW idx2, NEW top, NEW mark,
         NEW t \in Nat, NEW t2 \in Nat, t <= t2, NEW acks, NEW ops, "read" \in ops,
         Sound(cs, ops, idx, top, mark, t, acks), Ordered(idx, top, t), NEW D, NEW x, x \notin D, NEW e,
         \A b \in idx : b \in idx2 \/ (b.type = "xn" /\ (b.entries \subseteq D \/ Old(idx, b.lo, t))),
         Unc(cs, idx, t, x, e)
  PROVE  Unc(cs, idx2, t2, x, e)
<1>1. SUFFICES ASSUME t2 < cs.validUntil, cs.writeEpoch - 1 <= e, e <= cs.writeEpoch + 1
               PROVE  \E b \in cs.unc \cap idx2 : b.lo = e /\ x \in b.entries
  BY DEF Unc
<1>2. cs.validUntil \in Int /\ cs.writeEpoch \in Nat
  BY DEF Snapshot
<1>3. t < cs.validUntil /\ t <= cs.validUntil
  BY <1>1, <1>2, SMT
<1>4. PICK b \in cs.unc \cap idx : b.lo = e /\ x \in b.entries
  BY <1>1, <1>3 DEF Unc
<1>5. ASSUME Old(idx, b.lo, t) PROVE FALSE
  <2>1. Has(cs, e) /\ Based(cs, idx, top, mark, t, acks)
    BY <1>3, <1>4, <1>5, OldShown DEF Sound
  <2>2. e \in Nat /\ e <= cs.writeEpoch - 2
    BY <2>1, HasSettled
  <2>3. QED BY <1>1, <1>2, <2>2, SMT
<1>6. b \in idx2
  BY <1>4, <1>5
<1>7. QED BY <1>4, <1>6

\* What the snapshots of a client have seen stays held.
LEMMA ShownKeeps ==
  ASSUME Types, Types', Ordered(index, Top(markers), now), NEW D, Gentle(D), D \cap acked = {},
         NEW d \in Clients, Snapshots(d), Shown(d),
         state'[d] \in {state[d], Invalid}, load'[d] \in {load[d], Invalid}
  PROVE  Shown(d)'
<1>1. /\ now \in Nat /\ now' \in Nat /\ index \in SUBSET Blobs /\ acked \in SUBSET Entry
      /\ state[d] \in Snapshot /\ load[d] \in Snapshot
  BY DEF Types
<1>2. /\ now <= now'
      /\ \A b \in index : b \in index' \/ (b.type = "xn" /\ (b.entries \subseteq D \/ Old(index, b.lo, now)))
      /\ \A x \in Entry \ D, e \in Nat : Held(x, e) => Held(x, e)'
  BY DEF Gentle
<1>3. /\ Sound(state[d], plan.ops[d], index, Top(markers), Watermark(marks), now, acked)
      /\ Sound(load[d], plan.ops[d], index, Top(markers), Watermark(marks), now, acked)
  BY DEF Snapshots
<1>4. /\ state[d].seen \subseteq acked /\ (state[d].seen # {} => "read" \in plan.ops[d])
      /\ load[d].seen \subseteq acked
  BY <1>3 DEF Sound, Based
<1>5. /\ \A e \in 0 .. state[d].writeEpoch : e \in Nat
      /\ \A e \in 0 .. load[d].writeEpoch : e \in Nat
  BY SMT
<1>6. ASSUME NEW x \in state[d].seen
      PROVE  \E e \in 0 .. state[d].writeEpoch : Held(x, e)' /\ Unc(state[d], index', now', x, e)
  <2>1. PICK e \in 0 .. state[d].writeEpoch : Held(x, e) /\ Unc(state[d], index, now, x, e)
    BY DEF Shown
  <2>2. x \in Entry \ D /\ e \in Nat /\ "read" \in plan.ops[d]
    BY <1>1, <1>4, <1>5
  <2>3. Held(x, e)'
    BY <1>2, <2>1, <2>2
  <2>4. Unc(state[d], index', now', x, e)
    BY <1>1, <1>2, <1>3, <2>1, <2>2, UncStays, SMTT(30)
  <2>5. QED BY <2>3, <2>4
<1>7. ASSUME NEW x \in load[d].seen
      PROVE  \E e \in 0 .. load[d].writeEpoch : Held(x, e)'
  <2>1. PICK e \in 0 .. load[d].writeEpoch : Held(x, e)
    BY DEF Shown
  <2>2. x \in Entry \ D /\ e \in Nat
    BY <1>1, <1>4, <1>5
  <2>3. QED BY <1>2, <2>1, <2>2
<1>8. QED BY <1>6, <1>7, InvalidFields DEF Shown

\* A read whose snapshot stays goes on holding what its first snapshot had seen.
LEMMA ReadsKeep ==
  ASSUME Types, Types', Ordered(index, Top(markers), now), NEW D, Gentle(D), D \cap acked = {},
         NEW d \in Clients, Snapshots(d), Tasks(d), Reads(d), state'[d] = state[d], job'[d] = job[d]
  PROVE  Reads(d)'
<1>0. SUFFICES ASSUME job[d].op = "read" PROVE Reads(d)'
  BY DEF Reads
<1>1. /\ now \in Nat /\ now' \in Nat /\ index \in SUBSET Blobs /\ acked \in SUBSET Entry
      /\ state[d] \in Snapshot
  BY DEF Types
<1>2. /\ now <= now' /\ acked \subseteq acked'
      /\ \A b \in index : b \in index' \/ (b.type = "xn" /\ (b.entries \subseteq D \/ Old(index, b.lo, now)))
      /\ \A x \in Entry \ D, e \in Nat : Held(x, e) => Held(x, e)'
  BY DEF Gentle
<1>3. Sound(state[d], plan.ops[d], index, Top(markers), Watermark(marks), now, acked)
  BY DEF Snapshots
<1>4. "read" \in plan.ops[d]
  BY <1>0 DEF Tasks, Task
<1>5. ASSUME job[d].hi # -1, NEW x \in job[d].first
      PROVE  \E e \in 0 .. job[d].hi : Held(x, e)' /\ Unc(state[d], index', now', x, e)
  <2>1. PICK e \in 0 .. job[d].hi : Held(x, e) /\ Unc(state[d], index, now, x, e)
    BY <1>0, <1>5 DEF Reads
  <2>2. job[d].hi \in Nat /\ x \in acked
    BY <1>0, <1>5 DEF Reads
  <2>3. x \in Entry \ D /\ e \in Nat
    BY <1>1, <2>2, SMT
  <2>4. Held(x, e)'
    BY <1>2, <2>1, <2>3
  <2>5. Unc(state[d], index', now', x, e)
    BY <1>1, <1>2, <1>3, <1>4, <2>1, <2>3, UncStays, SMTT(30)
  <2>6. QED BY <2>4, <2>5
<1>6. ASSUME job[d].pc = "check", now' < state[d].validUntil, NEW x \in job[d].first
      PROVE  \E b \in job[d].set \cap index' : x \in b.entries
  <2>1. now < state[d].validUntil /\ now <= state[d].validUntil
    <3>1. state[d].validUntil \in Int
      BY <1>1 DEF Snapshot
    <3>2. QED BY <1>1, <1>2, <1>6, <3>1, SMTT(30)
  <2>2. x \in acked /\ x \in Entries(job[d].set \cap index)
    BY <1>0, <1>6, <2>1 DEF Reads
  <2>3. PICK b \in job[d].set \cap index : x \in b.entries
    BY <2>2 DEF Entries
  <2>4. ASSUME b.type = "xn", Old(index, b.lo, now) PROVE FALSE
    <3>1. Current(state[d], index, now)
      BY <1>3, <1>4 DEF Sound
    <3>2. Has(state[d], b.lo)
      BY <1>1, <2>1, <2>4, <3>1, OldShown
    <3>3. QED BY <1>0, <1>6, <2>3, <2>4, <3>2 DEF Reads
  <2>5. b \in index'
    BY <1>2, <2>2, <2>3, <2>4
  <2>6. QED BY <2>3, <2>5
<1>7. now' < state[d].validUntil /\ job[d].pc = "check" => job[d].first \subseteq Entries(job[d].set \cap index')
  BY <1>6 DEF Entries
<1>8. QED BY <1>0, <1>2, <1>5, <1>7 DEF Reads

\* The conditions on a task only ask for enough epochs.
LEMMA TasksKeep ==
  ASSUME Types, Types', NEW D, Gentle(D), NEW d \in Clients, Tasks(d),
         state'[d] = state[d], job'[d] = job[d], load'[d] \in {load[d], Invalid}
  PROVE  Tasks(d)'
<1>1. /\ Top(markers) \in Nat /\ Top(markers') \in Nat /\ job[d] \in Job
      /\ plan' = plan /\ Top(markers) <= Top(markers')
  BY TopTypes DEF Types, Gentle
<1>2. job[d].hi \in Int
  BY <1>1 DEF Job
<1>3. job[d].hi <= Top(markers) - 2 => job[d].hi <= Top(markers') - 2
  BY <1>1, <1>2, SMT
<1>4. Task(job[d], state[d], Top(markers), plan.ops[d])
  BY DEF Tasks
<1>5. Task(job[d], state[d], Top(markers'), plan.ops[d])
  BY <1>3, <1>4 DEF Task
<1>6. QED BY <1>1, <1>5, InvalidFields DEF Tasks

\* An uncompacted blob of an epoch that is not settled stays until its writer deletes it.
LEMMA RawStays ==
  ASSUME NEW idx \in SUBSET Blobs, NEW idx2, NEW top \in Nat, NEW t, Ordered(idx, top, t),
         NEW D, NEW x, x \notin D, NEW e \in Int, top < e + 2,
         \A b \in idx : b \in idx2 \/ (b.type = "xn" /\ (b.entries \subseteq D \/ Old(idx, b.lo, t))),
         Raw(idx, x, e)
  PROVE  Raw(idx2, x, e)
<1>1. PICK b \in idx : b.type = "xn" /\ b.lo = e /\ x \in b.entries
  BY DEF Raw
<1>2. ~Old(idx, e, t)
  <2>1. Old(idx, e, t) => e <= top - 2
    BY OldSettled
  <2>2. QED BY <2>1, SMT
<1>3. QED BY <1>1, <1>2 DEF Raw

\* The entries of a write in progress.
LEMMA MineFacts ==
  ASSUME Types, NEW c \in Clients
  PROVE  /\ Mine(c) \subseteq Entry
         /\ job[c].op # "write" => Mine(c) = {}
         /\ job[c].op = "write" => Mine(c) = {<<job[c].id, s>> : s \in Shards}
         /\ job[c].op = "write" => \A s \in Shards : <<job[c].id, s>> \in Mine(c)
         /\ \A x \in Mine(c) : x[1] = job[c].id
<1>1. job[c].id \in Int /\ Shards \subseteq Int
  BY InstanceValid, SMT DEF Types, Job
<1>2. \A s \in Shards : <<job[c].id, s>> \in Entry
  BY <1>1 DEF Entry
<1>3. Mine(c) \subseteq {<<job[c].id, s>> : s \in Shards}
  BY DEF Mine
<1>4. Mine(c) \subseteq Entry
  BY <1>2, <1>3
<1>5. job[c].op # "write" => Mine(c) = {}
  BY DEF Mine
<1>6. job[c].op = "write" => Mine(c) = {<<job[c].id, s>> : s \in Shards}
  BY DEF Mine
<1>7. \A x \in Mine(c) : x[1] = job[c].id
  BY <1>3, SMT
<1>8. QED BY <1>4, <1>5, <1>6, <1>7

\* A write whose blobs nobody else deletes goes on holding them.
LEMMA WritesKeep ==
  ASSUME Types, Types', Ordered(index, Top(markers), now), NEW D, Gentle(D),
         NEW d \in Clients, Writes(d), D \cap Mine(d) = {}, Mine(d) \cap acked' = {}, job'[d] = job[d],
         state'[d] \in {state[d], Invalid}, load'[d] \in {load[d], Invalid}
  PROVE  Writes(d)'
<1>0. SUFFICES ASSUME job[d].op = "write" PROVE Writes(d)'
  BY DEF Writes
<1>1. /\ Top(markers) \in Nat /\ Top(markers') \in Nat /\ Top(markers) <= Top(markers')
      /\ writes \in Nat /\ writes' \in Nat /\ writes <= writes' /\ index \in SUBSET Blobs /\ job[d] \in Job
      /\ \A b \in index : b \in index' \/ (b.type = "xn" /\ (b.entries \subseteq D \/ Old(index, b.lo, now)))
      /\ \A x \in Entry \ D, e \in Nat : Held(x, e) => Held(x, e)'
  BY TopTypes DEF Types, Gentle
<1>2. job[d].lo \in Int /\ job[d].id \in Nat
  BY <1>1 DEF Job
<1>3. /\ Mine(d) = {<<job[d].id, s>> : s \in Shards} /\ Mine(d) \subseteq Entry
      /\ \A s \in Shards : <<job[d].id, s>> \in Mine(d)
  BY <1>0, MineFacts
<1>4. Mine(d)' = Mine(d)
  BY DEF Mine
<1>5. /\ job[d].id \in 1 .. writes /\ job[d].lo <= Top(markers) /\ job[d].set \subseteq Shards
      /\ Top(markers) < job[d].lo + 2 => \A s \in job[d].set : Raw(index, <<job[d].id, s>>, job[d].lo)
  BY <1>0 DEF Writes
<1>6. job[d].id \in 1 .. writes' /\ job[d].lo <= Top(markers')
  BY <1>1, <1>2, <1>5, SMT
<1>7. ASSUME Top(markers') < job[d].lo + 2, NEW s \in job[d].set PROVE Raw(index', <<job[d].id, s>>, job[d].lo)
  <2>1. Top(markers) < job[d].lo + 2
    BY <1>1, <1>2, <1>7, SMT
  <2>2. Raw(index, <<job[d].id, s>>, job[d].lo) /\ <<job[d].id, s>> \notin D
    BY <1>3, <1>5, <2>1
  <2>3. QED BY <1>1, <1>2, <2>1, <2>2, RawStays
<1>8. ASSUME job[d].pc = "confirm", Behind(state'[d], job[d].lo) \/ Behind(load'[d], job[d].lo), NEW x \in Mine(d)
      PROVE  Held(x, job[d].lo)'
  <2>1. ~Behind(Invalid, job[d].lo)
    BY InvalidFields, SMT DEF Behind
  <2>2. Behind(state[d], job[d].lo) \/ Behind(load[d], job[d].lo)
    BY <1>8, <2>1
  <2>3. Held(x, job[d].lo) /\ job[d].lo >= 0
    BY <1>0, <1>8, <2>2 DEF Writes
  <2>4. job[d].lo \in Nat
    BY <1>2, <2>3, SMTT(30)
  <2>5. QED BY <1>1, <1>3, <2>3, <2>4
<1>9. QED BY <1>0, <1>4, <1>6, <1>7, <1>8 DEF Writes

\* Of a process with nothing to do and no refresh nothing is required.
LEMMA IdleKeeps ==
  ASSUME NEW d \in Clients, job'[d] = Idle, load'[d] = Invalid
  PROVE  Tasks(d)' /\ Writes(d)' /\ Reads(d)'
<1>1. job'[d].op = "idle" /\ load'[d] = NoLoad
  BY IdleFields, InvalidFields
<1>2. Tasks(d)'
  BY <1>1 DEF Tasks, Task, MaintenanceOps
<1>3. Writes(d)' /\ Reads(d)'
  BY <1>1 DEF Writes, Reads
<1>4. QED BY <1>2, <1>3

-----------------------------------------------------------------------------
(* The start. *)

Fulls == UNION {Full(e) : e \in 0 .. Past}

Singles == {Compacted(e) : e \in 0 .. plan.compacted - 1}

\* A client that was slow starts with a snapshot that has run out and a write of the epoch before.
Late == [Invalid EXCEPT !.validUntil = Past * MinEpochDuration, !.writeEpoch = Past - 1]

Lagging == [Begin("write", "put", 1, -1) EXCEPT !.lo = Past - 1]

\* The repository as it is found.
LEMMA InitIInv ==
  Init => IInv
<1>1. ASSUME NEW a \in Nat, NEW b \in Nat, a <= b, NEW m \in Nat
      PROVE  a * m \in Nat /\ a * m <= b * m
  BY <1>1, SMTT(30)
<1>2. ASSUME NEW e \in Nat, NEW b \in Full(e)
      PROVE  /\ b \in Blobs /\ b.type = "xn" /\ b.lo = e /\ b.hi = e
             /\ b.ts <= (e + 1) * MinEpochDuration
             /\ \A x \in b.entries : x \in Entry /\ x[1] = -1 - e
  <2> USE <1>2
  <2>1. PICK i \in {0, 1} : b = [type |-> "xn", lo |-> e, hi |-> e, entries |-> {<<-1 - e, i>>},
                                 ts |-> (e + i) * MinEpochDuration]
    BY DEF Full
  <2>2. MinEpochDuration \in Nat /\ e + i \in Nat /\ e + 1 \in Nat /\ e + i <= e + 1
    BY ParametersValid, SMTT(30) DEF Validate
  <2>3. (e + i) * MinEpochDuration \in Nat /\ (e + i) * MinEpochDuration <= (e + 1) * MinEpochDuration
    BY <2>2, <1>1
  <2>4. <<-1 - e, i>> \in Entry /\ <<-1 - e, i>>[1] = -1 - e
    BY SMTT(30) DEF Entry
  <2> DEFINE t == (e + i) * MinEpochDuration
             T == (e + 1) * MinEpochDuration
             x0 == <<-1 - e, i>>
  <2>5. t \in Nat /\ t <= T /\ x0 \in Entry /\ x0[1] = -1 - e
        /\ b = [type |-> "xn", lo |-> e, hi |-> e, entries |-> {x0}, ts |-> t]
    BY <2>1, <2>3, <2>4
  <2> HIDE DEF t, x0, T
  <2>6. b \in Blobs
    BY <2>5 DEF Blobs
  <2>7. b.type = "xn" /\ b.lo = e /\ b.hi = e /\ b.ts = t /\ b.entries = {x0}
    BY <2>5
  <2>8. b.ts <= T /\ \A x \in b.entries : x \in Entry /\ x[1] = -1 - e
    BY <2>5, <2>7
  <2>9. QED BY <2>6, <2>7, <2>8 DEF T
<1>3. ASSUME NEW e \in Nat
      PROVE  /\ Compacted(e) \in Blobs /\ Compacted(e).type = "xs" /\ Compacted(e).lo = e /\ Compacted(e).hi = e
             /\ Compacted(e).ts = (e + 2) * MinEpochDuration
             /\ Compacted(e).entries = Entries(Full(e))
  <2> USE <1>3
  <2> DEFINE S == Entries(Full(e))
             t == (e + 2) * MinEpochDuration
  <2>1. S \subseteq Entry
    <3>1. ASSUME NEW b \in Full(e) PROVE b.entries \subseteq Entry
      BY <1>2
    <3>2. QED BY <3>1 DEF Entries
  <2>2. t \in Nat
    <3>1. e + 2 \in Nat /\ e + 2 <= e + 2 /\ MinEpochDuration \in Nat
      BY ParametersValid, SMTT(30) DEF Validate
    <3>2. QED BY <3>1, <1>1
  <2>3. Compacted(e) = [type |-> "xs", lo |-> e, hi |-> e, entries |-> S, ts |-> t]
    BY DEF Compacted
  <2> HIDE DEF S, t
  <2>4. Compacted(e) \in Blobs
    BY <2>1, <2>2, <2>3, SMTT(30) DEF Blobs
  <2>5. /\ Compacted(e).type = "xs" /\ Compacted(e).lo = e /\ Compacted(e).hi = e
        /\ Compacted(e).ts = t /\ Compacted(e).entries = S
    BY <2>3, SMTT(30)
  <2>6. QED BY <2>4, <2>5 DEF S, t
<1>4. ASSUME Init
      PROVE  /\ index = Fulls \cup Singles
             /\ \A b \in Fulls : \E e \in 0 .. Past : b \in Full(e)
             /\ \A e \in 0 .. Past : Full(e) \subseteq Fulls
             /\ \A b \in Singles : \E e \in 0 .. plan.compacted - 1 : b = Compacted(e)
  <2> USE <1>4
  <2>1. index = Fulls \cup Singles
    BY DEF Init, Fulls, Singles
  <2>2. /\ \A b \in Fulls : \E e \in 0 .. Past : b \in Full(e)
        /\ \A b \in Singles : \E e \in 0 .. plan.compacted - 1 : b = Compacted(e)
    BY DEF Fulls, Singles
  <2>3. \A e \in 0 .. Past : Full(e) \subseteq Fulls
    BY DEF Fulls
  <2>4. QED BY <2>1, <2>2, <2>3
\* The epochs that are there, and those that are compacted.
<1>5. ASSUME Init
      PROVE  /\ now \in Nat /\ Past \in Nat \ {0} /\ Top(markers) = Past /\ markers \in SUBSET Nat /\ Bounded(markers)
             /\ \A b \in index : \E e \in 0 .. Past :
                  /\ b \in Full(e) \/ (b = Compacted(e) /\ e <= Past - 2)
                  /\ b.entries \subseteq Entries(Full(e))
             /\ index \in SUBSET Blobs /\ Ordered(index, Top(markers), now)
  <2> USE <1>5
  <2> DEFINE M == MinEpochDuration
  <2>1. /\ Past \in Nat /\ Past # 0 /\ Past + 1 \in Nat /\ M \in Nat /\ plan.compacted \in 0 .. Past - 1
        /\ now = (Past + 1) * M /\ markers = 1 .. Past
    <3>1. plan \in Plans /\ now = (Past + 1) * M /\ markers = 1 .. Past
      BY DEF Init
    <3>2. plan.compacted \in 0 .. Past - 1 /\ Past \in Nat \ {0}
      BY <3>1, InstanceValid
    <3>3. M \in Nat
      BY ParametersValid DEF Validate
    <3>4. Past + 1 \in Nat /\ Past \in Nat /\ Past # 0
      BY <3>2, SMTT(30)
    <3>5. QED BY <3>1, <3>2, <3>3, <3>4
  <2>2. now \in Nat
    <3>1. Past + 1 <= Past + 1
      BY <2>1, SMTT(30)
    <3>2. QED BY <2>1, <3>1, <1>1
  <2>3. markers \in SUBSET Nat /\ Bounded(markers) /\ Past \in markers /\ \A y \in markers : y <= Past
    <3>1. markers \in SUBSET Nat /\ Past \in markers /\ \A y \in markers : y <= Past
      BY <2>1, SMTT(30)
    <3>2. QED BY <2>1, <3>1 DEF Bounded
  <2>4. Top(markers) = Past
    <3>1. Top(markers) \in Nat /\ Top(markers) \in markers \cup {0} /\ Past <= Top(markers)
      BY <2>3, TopIsBound
    <3>2. QED BY <2>1, <2>3, <3>1, SMTT(30)
  <2>5. ASSUME NEW b \in index
        PROVE  \E e \in 0 .. Past : /\ b \in Full(e) \/ (b = Compacted(e) /\ e <= Past - 2)
                                    /\ b.entries \subseteq Entries(Full(e))
    <3>1. CASE \E e \in 0 .. Past : b \in Full(e)
      BY <3>1 DEF Entries
    <3>2. CASE \E e \in 0 .. plan.compacted - 1 : b = Compacted(e)
      <4>1. PICK e \in 0 .. plan.compacted - 1 : b = Compacted(e)
        BY <3>2
      <4>2. e \in Nat /\ e \in 0 .. Past /\ e <= Past - 2
        BY <2>1, SMTT(30)
      <4>3. b.entries = Entries(Full(e))
        BY <4>1, <4>2, <1>3
      <4>4. QED BY <4>1, <4>2, <4>3
    <3>3. QED BY <2>5, <3>1, <3>2, <1>4
  <2>6. ASSUME NEW b \in index
        PROVE  /\ b \in Blobs /\ b.ts <= now /\ b.lo <= b.hi
               /\ b.type = "xn" => b.hi = b.lo /\ b.lo <= Past
               /\ b.type = "xs" => b.hi = b.lo
               /\ b.type = "xr" => b.hi > 0
               /\ b.type # "xn" => b.hi <= Past - 2
    <3>1. PICK e \in 0 .. Past : b \in Full(e) \/ (b = Compacted(e) /\ e <= Past - 2)
      BY <2>5
    <3>2. e \in Nat /\ e <= Past /\ e + 1 \in Nat /\ e + 1 <= Past + 1 /\ e + 2 \in Nat
      BY <2>1, SMTT(30)
    <3>3. CASE b \in Full(e)
      <4>1. b \in Blobs /\ b.type = "xn" /\ b.lo = e /\ b.hi = e /\ b.ts <= (e + 1) * M
        BY <3>2, <3>3, <1>2
      <4>2. (e + 1) * M <= now /\ (e + 1) * M \in Nat
        BY <2>1, <3>2, <1>1
      <4>3. b.ts \in Nat
        BY <4>1 DEF Blobs
      <4> HIDE DEF M
      <4>4. b.ts <= now
        BY <2>2, <4>1, <4>2, <4>3, SMTT(30)
      <4>5. QED BY <3>2, <4>1, <4>4, SMTT(30)
    <3>4. CASE b = Compacted(e) /\ e <= Past - 2
      <4>1. b \in Blobs /\ b.type = "xs" /\ b.lo = e /\ b.hi = e /\ b.ts = (e + 2) * M
        BY <3>2, <3>4, <1>3
      <4>2. e + 2 <= Past + 1
        BY <2>1, <3>2, <3>4, SMTT(30)
      <4>3. b.ts <= now
        <5>1. (e + 2) * M <= (Past + 1) * M
          BY <2>1, <3>2, <4>2, <1>1
        <5>2. QED BY <2>1, <4>1, <5>1
      <4>4. QED BY <3>2, <3>4, <4>1, <4>3, SMTT(30)
    <3>5. QED BY <3>1, <3>3, <3>4
  <2>7. index \in SUBSET Blobs /\ Ordered(index, Top(markers), now)
    BY <2>4, <2>6 DEF Ordered
  <2>8. QED BY <2>1, <2>2, <2>3, <2>4, <2>5, <2>7
<1>6. /\ Late \in Snapshot /\ Late.validUntil = Past * MinEpochDuration /\ Late.writeEpoch = Past - 1
      /\ Late.sets = {} /\ Late.unc = {} /\ Late.marks = {} /\ Late.seen = {}
  <2> DEFINE v == Past * MinEpochDuration
             w == Past - 1
  <2>1. Past \in Nat /\ Past <= Past /\ MinEpochDuration \in Nat /\ w \in Nat
    BY ParametersValid, InstanceValid, SMTT(30) DEF Validate
  <2>2. v \in Int
    <3>1. v \in Nat
      BY <2>1, <1>1
    <3> HIDE DEF v
    <3>2. QED BY <3>1, SMTT(30)
  <2>3. Late = [Invalid EXCEPT !.validUntil = v, !.writeEpoch = w]
    BY DEF Late
  <2> HIDE DEF v, w
  <2>4. /\ Late \in Snapshot /\ Late.validUntil = v /\ Late.writeEpoch = w
        /\ Late.sets = {} /\ Late.unc = {} /\ Late.marks = {} /\ Late.seen = {}
    BY <2>1, <2>2, <2>3 DEF Invalid, Snapshot
  <2>5. QED BY <2>4 DEF v, w
<1>7. /\ Lagging \in Job /\ Lagging.op = "write" /\ Lagging.pc = "put" /\ Lagging.id = 1
      /\ Lagging.lo = Past - 1 /\ Lagging.set = {}
  <2>1. Past - 1 \in Int
    BY InstanceValid, SMTT(30)
  <2>2. QED BY <2>1, SMTT(30) DEF Lagging, Begin, Job, PCs, Ops
<1>8. ASSUME Init, NEW c \in Clients
      PROVE  /\ load[c] = NoLoad
             /\ \/ job[c] = Idle /\ state[c] = Invalid
                \/ /\ c \in plan.slow /\ job[c] = Lagging /\ state[c] = Late /\ writes = 1
  BY <1>8 DEF Init, Late, Lagging
<1>9. ASSUME Init, NEW x \in acked
      PROVE  x \in Entry /\ \E e \in 0 .. Past : x[1] = -1 - e /\ Held(x, e)
  <2> USE <1>9
  <2>1. /\ Past \in Nat /\ acked = Entries(index)
        /\ \A b \in index : \E e \in 0 .. Past :
                /\ b \in Full(e) \/ (b = Compacted(e) /\ e <= Past - 2)
                /\ b.entries \subseteq Entries(Full(e))
    BY <1>5 DEF Init
  <2>2. PICK b \in index : x \in b.entries
    BY <2>1 DEF Entries
  <2>3. PICK e \in 0 .. Past : x \in Entries(Full(e))
    BY <2>1, <2>2
  <2>4. e \in Nat
    BY <2>1, SMTT(30)
  <2>5. PICK r \in Full(e) : x \in r.entries
    BY <2>3 DEF Entries
  <2>6. r.type = "xn" /\ r.lo = e /\ x \in Entry /\ x[1] = -1 - e
    BY <2>4, <2>5, <1>2
  <2>7. r \in index
    BY <2>5, <1>4
  <2>8. Raw(index, x, e)
    BY <2>5, <2>6, <2>7 DEF Raw
  <2>9. InSets(index, x, e)
    <3>1. SUFFICES ASSUME NEW s \in index, s.type # "xn", s.lo <= e, e <= s.hi PROVE x \in s.entries
      BY DEF InSets
    <3>2. PICK f \in 0 .. Past : s \in Full(f) \/ s = Compacted(f)
      BY <2>1
    <3>3. f \in Nat
      BY <2>1, SMTT(30)
    <3>4. s = Compacted(f)
      BY <3>1, <3>2, <3>3, <1>2
    <3>5. s.lo = f /\ s.hi = f /\ s.entries = Entries(Full(f))
      BY <3>3, <3>4, <1>3
    <3>6. f = e
      BY <2>4, <3>1, <3>3, <3>5, SMTT(30)
    <3>7. QED BY <2>3, <3>5, <3>6
  <2>10. ASSUME NEW c \in Clients PROVE Carried(job[c], x, e)
    <3>1. job[c].op = "idle" \/ job[c].op = "write"
      BY <1>8, IdleFields, <1>7
    <3>2. QED BY <3>1 DEF Carried
  <2>11. QED BY <2>6, <2>8, <2>9, <2>10 DEF Held
<1>10. ASSUME Init, NEW c \in Clients
       PROVE  Snapshots(c)
  <2> USE <1>10
  <2>1. Past \in Nat \ {0} /\ Top(markers) = Past /\ now \in Nat
    BY <1>5
  <2>2. Sound(Invalid, plan.ops[c], index, Top(markers), Watermark(marks), now, acked)
    BY <2>1, InvalidSound
  <2>3. Late.writeEpoch <= Top(markers) /\ Late.validUntil <= now + EpochRefreshFrequency
        /\ ~(now <= Late.validUntil)
    <3> DEFINE v == Past * MinEpochDuration
    <3>1. now = (Past + 1) * MinEpochDuration
      BY DEF Init
    <3>2. MinEpochDuration \in Nat /\ MinEpochDuration > 0 /\ EpochRefreshFrequency \in Nat
      BY ParametersValid, SMTT(30) DEF Validate
    <3>3. now = v + MinEpochDuration
      BY <2>1, <3>1, <3>2, SMTT(30)
    <3>4. v \in Nat
      <4>1. Past \in Nat /\ Past <= Past
        BY <2>1, SMTT(30)
      <4>2. QED BY <3>2, <4>1, <1>1
    <3>5. Late.validUntil = v /\ Late.writeEpoch = Past - 1
      BY <1>6
    <3> HIDE DEF v
    <3>6. QED BY <2>1, <3>2, <3>3, <3>4, <3>5, SMTT(30)
  <2>4. Sound(Late, plan.ops[c], index, Top(markers), Watermark(marks), now, acked)
    BY <2>3, <1>6 DEF Sound, Based, Current, Linked, OfType
  <2>5. QED BY <2>2, <2>4, <1>8, InvalidFields DEF Snapshots
<1>11. ASSUME Init
       PROVE  IInv
  <2> USE <1>11
  <2>1. /\ Past \in Nat \ {0} /\ Top(markers) = Past /\ now \in Nat /\ markers \in SUBSET Nat /\ Bounded(markers)
        /\ index \in SUBSET Blobs /\ Ordered(index, Top(markers), now)
    BY <1>5
  <2>2. plan \in Plans /\ marks = {} /\ writes \in {0, 1}
    BY DEF Init
  <2>3. /\ load = [c \in Clients |-> NoLoad]
        /\ state = [c \in Clients |-> IF c \in plan.slow THEN Late ELSE Invalid]
        /\ job = [c \in Clients |-> IF c \in plan.slow THEN Lagging ELSE Idle]
    BY DEF Init, Late, Lagging
  <2>4. state \in [Clients -> Snapshot] /\ load \in [Clients -> Snapshot] /\ job \in [Clients -> Job]
    BY <2>3, <1>6, InvalidFields, <1>7, IdleFields
  <2>5. acked \in SUBSET Entry
    BY <1>9
  <2>6. Types
    <3>1. writes \in Nat
      BY <2>2, SMTT(30)
    <3>2. marks \in SUBSET Marks
      BY <2>2
    <3>3. Bounded({m.wm : m \in marks})
      <4>1. 0 \in Nat
        OBVIOUS
      <4>2. QED BY <2>2, <4>1 DEF Bounded
    <3>4. QED BY <2>1, <2>2, <2>4, <2>5, <3>1, <3>2, <3>3 DEF Types
  <2>7. ASSUME NEW x \in acked PROVE x[1] < 0 /\ \E e \in 0 .. Top(markers) : Held(x, e)
    <3>1. PICK e \in 0 .. Past : x[1] = -1 - e /\ Held(x, e)
      BY <1>9
    <3>2. x[1] < 0
      BY <2>1, <3>1, SMTT(30)
    <3>3. QED BY <2>1, <3>1, <3>2
  <2>8. Acked
    <3>1. ASSUME NEW x \in acked PROVE x[1] <= writes
      <4>1. x[1] \in Int /\ x[1] < 0
        BY <2>5, <2>7 DEF Entry
      <4>2. QED BY <2>2, <4>1, SMTT(30)
    <3>2. QED BY <2>7, <3>1 DEF Acked
  <2>9. OwnWrites
    <3>1. \A c, d \in plan.slow : c = d
      BY <2>2, InstanceValid
    <3>2. \A c \in Clients : job[c].op = "write" => c \in plan.slow
      <4>1. Idle.op # "write"
        BY IdleFields
      <4>2. QED BY <4>1, <1>8
    <3>3. QED BY <3>1, <3>2 DEF OwnWrites
  <2>10. ASSUME NEW c \in Clients PROVE Tasks(c) /\ Writes(c) /\ Shown(c) /\ Reads(c)
    <3>1. /\ load[c] = NoLoad
          /\ \/ job[c] = Idle /\ state[c] = Invalid
             \/ /\ c \in plan.slow /\ job[c] = Lagging /\ state[c] = Late /\ writes = 1
      BY <1>8
    <3>2. Shown(c)
      BY <3>1, <1>6, InvalidFields DEF Shown
    <3>3. job[c].op \in {"idle", "write"}
      BY <3>1, IdleFields, <1>7
    <3>4. Reads(c)
      BY <3>3 DEF Reads
    <3>5. Tasks(c)
      <4>1. Task(job[c], state[c], Top(markers), plan.ops[c])
        BY <3>3 DEF Task, MaintenanceOps
      <4>2. QED BY <3>1, <4>1 DEF Tasks
    <3>6. ASSUME job[c].op = "write" PROVE Writes(c)
      <4>1. Idle.op # "write"
        BY IdleFields
      <4>2. writes = 1 /\ job[c].pc = "put" /\ job[c].id = 1 /\ job[c].lo = Past - 1 /\ job[c].set = {}
        BY <3>1, <3>6, <4>1, <1>7
      <4>3. Mine(c) \cap acked = {}
        <5>1. ASSUME NEW x \in Mine(c), x \in acked PROVE FALSE
          <6>1. x[1] = 1
            BY <2>6, <4>2, <5>1, MineFacts
          <6>2. x[1] < 0
            BY <2>7, <5>1
          <6>3. QED BY <6>1, <6>2, SMTT(30)
        <5>2. QED BY <5>1
      <4>4. /\ job[c].id \in 1 .. writes /\ job[c].pc \in {"state", "shard", "put", "confirm"} /\ job[c].pc # "confirm"
            /\ -1 <= job[c].lo /\ job[c].lo <= Top(markers) /\ job[c].lo >= 0
        BY <2>1, <4>2, SMTT(30)
      <4>5. QED BY <4>2, <4>3, <4>4 DEF Writes
    <3>7. Writes(c)
      BY <3>6 DEF Writes
    <3>8. QED BY <3>2, <3>4, <3>5, <3>7
  <2>11. QED BY <2>1, <2>6, <2>8, <2>9, <2>10, <1>10 DEF IInv
<1>12. QED BY <1>11

-----------------------------------------------------------------------------
(* Time. *)

\* The other clients keep what they have.
Others(c) ==
  \A d \in Clients \ {c} : job'[d] = job[d] /\ state'[d] = state[d] /\ load'[d] = load[d]

\* The entries of a write in progress are nobody else's.
LEMMA MineApart ==
  ASSUME IInv, NEW c \in Clients
  PROVE  /\ Mine(c) \cap acked = {}
         /\ \A d \in Clients : d # c => Mine(c) \cap Mine(d) = {}
<1>1. Types /\ Writes(c) /\ OwnWrites
  BY DEF IInv
<1>2. Mine(c) \cap acked = {}
  <2>1. CASE job[c].op = "write"
    BY <1>1, <2>1 DEF Writes
  <2>2. CASE job[c].op # "write"
    BY <1>1, <2>2, MineFacts
  <2>3. QED BY <2>1, <2>2
<1>3. ASSUME NEW d \in Clients, d # c, NEW x \in Mine(c), x \in Mine(d) PROVE FALSE
  <2>1. job[c].op = "write" /\ job[d].op = "write" /\ x[1] = job[c].id /\ x[1] = job[d].id
    BY <1>1, <1>3, MineFacts
  <2>2. QED BY <1>1, <1>3, <2>1 DEF OwnWrites
<1>4. QED BY <1>2, <1>3

\* Between its calls a refresh is under way only where an operation waits for one.
LEMMA NotLoading ==
  ASSUME IInv, NEW c \in Clients, job[c].pc \notin {"state", "confirm"}
  PROVE  load[c] = NoLoad
BY DEF IInv, Tasks

\* Time passes.
LEMMA TickKeeps ==
  IInv /\ Tick => IInv'
\* What is superseded stays so.
<1>1. ASSUME NEW idx \in SUBSET Blobs, NEW t \in Nat, NEW t2 \in Nat, t <= t2, NEW e, Old(idx, e, t)
      PROVE  Old(idx, e, t2)
  <2> USE <1>1
  <2>1. PICK b \in idx : b.type = "xs" /\ b.lo = e /\ b.ts < t - CleanupSafetyMargin
    BY DEF Old
  <2>2. b.ts \in Nat
    BY DEF Blobs
  <2>3. b.ts < t2 - CleanupSafetyMargin
    BY <2>1, <2>2, ParametersValid, SMTT(30) DEF Validate
  <2>4. QED BY <2>1, <2>3 DEF Old
<1>2. ASSUME IInv, Tick
      PROVE  IInv'
  <2> USE <1>2
  <2>1. /\ index' = index /\ markers' = markers /\ marks' = marks /\ load' = load /\ job' = job
        /\ writes' = writes /\ acked' = acked /\ plan' = plan
    BY DEF Tick, Storage
  <2>2. /\ Types /\ Ordered(index, Top(markers), now) /\ Top(markers) \in Nat /\ Watermark(marks) \in Nat
        /\ now \in Nat /\ writes \in Nat /\ index \in SUBSET Blobs /\ acked \in SUBSET Entry
        /\ state \in [Clients -> Snapshot] /\ OwnWrites /\ Acked
    BY TopTypes DEF IInv, Types
  <2>3. now' \in Nat /\ now <= now'
    <3> DEFINE T == {t \in Instants : t > now}
    <3>1. T \subseteq Nat /\ T # {} /\ now' = Min(T) /\ \A t \in T : t > now
      BY InstanceValid DEF Tick
    <3> HIDE DEF T
    <3>2. Min(T) \in T
      BY <3>1, MinIsLeast
    <3>3. now' \in Nat /\ now' > now
      BY <3>1, <3>2
    <3>4. QED BY <2>2, <3>3, SMTT(30)
  <2>4. /\ state' \in [Clients -> Snapshot]
        /\ \A d \in Clients : state'[d] = state[d] \/ (state'[d] = Invalid /\ job[d] = Idle)
    <3>1. state' = [c \in Clients |->
                      IF job[c] = Idle /\ now' > state[c].validUntil /\ "advance" \notin plan.ops[c]
                      THEN Invalid ELSE state[c]]
      BY DEF Tick
    <3>2. QED BY <2>2, <3>1, InvalidFields
  <2>5. Types'
    BY <2>1, <2>2, <2>3, <2>4 DEF Types
  <2>6. Ordered(index', Top(markers'), now')
    <3>1. ASSUME NEW b \in index PROVE b.ts <= now'
      <4>1. b.ts \in Nat /\ b.ts <= now
        BY <2>2 DEF Blobs, Ordered
      <4>2. QED BY <2>2, <2>3, <4>1, SMTT(30)
    <3>2. QED BY <2>1, <2>2, <3>1 DEF Ordered
  <2>7. ASSUME NEW e \in Nat, Gone(e) PROVE Gone(e)'
    <3>1. Old(index', e, now')
      BY <2>1, <2>2, <2>3, <2>7, <1>1 DEF Gone
    <3>2. ASSUME NEW d \in Clients, Compacts(d)' PROVE Knows(state'[d], load'[d], e)
      <4>1. Knows(state[d], load[d], e)
        BY <2>1, <2>7, <3>2 DEF Gone, Compacts
      <4>2. ~(Invalid.validUntil >= 0)
        BY InvalidFields, SMTT(30)
      <4>3. QED BY <2>1, <2>4, <4>1, <4>2 DEF Knows
    <3>3. QED BY <3>1, <3>2 DEF Gone
  <2>8. ASSUME NEW x, NEW e \in Nat, Held(x, e) PROVE Held(x, e)'
    BY <2>1, <2>7, <2>8 DEF Held
  <2>9. Gentle({})
    <3>1. Top(markers) <= Top(markers') /\ Watermark(marks) <= Watermark(marks') /\ writes <= writes'
      BY <2>1, <2>2, SMTT(30)
    <3>2. QED BY <2>1, <2>3, <2>8, <3>1 DEF Gentle
  <2>10. ASSUME NEW d \in Clients
         PROVE  Snapshots(d)' /\ Tasks(d)' /\ Writes(d)' /\ Shown(d)' /\ Reads(d)'
    <3>1. Snapshots(d) /\ Tasks(d) /\ Writes(d) /\ Shown(d) /\ Reads(d)
      BY DEF IInv
    <3>2. {} \cap acked = {} /\ {} \cap Mine(d) = {}
      OBVIOUS
    <3>3. Mine(d) \cap acked' = {}
      BY <2>1, MineApart
    <3>4. /\ state'[d] \in {state[d], Invalid} /\ load'[d] \in {load[d], Invalid} /\ job'[d] = job[d]
      BY <2>1, <2>4
    <3>5. Snapshots(d)' /\ Shown(d)'
      BY <2>2, <2>5, <2>9, <3>1, <3>2, <3>4, SnapshotsKeep, ShownKeeps
    <3>6. CASE state'[d] = state[d]
      <4>1. Tasks(d)' /\ Reads(d)'
        BY <2>2, <2>5, <2>9, <3>1, <3>2, <3>4, <3>6, TasksKeep, ReadsKeep
      <4>2. Writes(d)'
        BY <2>2, <2>5, <2>9, <3>1, <3>2, <3>3, <3>4, WritesKeep
      <4>3. QED BY <3>5, <4>1, <4>2
    <3>7. CASE job[d] = Idle
      <4>1. job[d].pc \notin {"state", "confirm"}
        BY <3>7, IdleFields
      <4>2. job'[d] = Idle /\ load'[d] = Invalid
        BY <2>1, <3>7, <4>1, NotLoading, InvalidFields
      <4>3. QED BY <3>5, <4>2, IdleKeeps
    <3>8. QED BY <2>4, <3>6, <3>7
  <2>11. OwnWrites'
    BY <2>1, <2>2 DEF OwnWrites
  <2>12. Acked'
    <3>1. \A e \in 0 .. Top(markers) : e \in Nat
      BY SMTT(30)
    <3>2. QED BY <2>1, <2>2, <2>8, <3>1 DEF Acked
  <2>13. QED BY <2>5, <2>6, <2>10, <2>11, <2>12 DEF IInv
<1>3. QED BY <1>2

-----------------------------------------------------------------------------
(* Steps of one process. *)

\* A gentle step of c keeps the invariant if it keeps c's own part of it.
LEMMA StepKeeps ==
  ASSUME IInv, NEW c \in Clients, NEW D \in {{}, Mine(c)}, Gentle(D), Others(c),
         Types', Ordered(index, Top(markers), now)',
         Snapshots(c)', Tasks(c)', Writes(c)', Shown(c)', Reads(c)',
         acked' \subseteq acked \cup Mine(c),
         \A x \in acked' \ acked : x[1] <= writes' /\ \E e \in 0 .. Top(markers)' : Held(x, e)',
         job'[c].op = "write" =>
           \/ job[c].op = "write" /\ job'[c].id = job[c].id
           \/ writes < job'[c].id
  PROVE  IInv'
<1>1. /\ Types /\ Ordered(index, Top(markers), now) /\ OwnWrites /\ Acked
      /\ \A d \in Clients : Snapshots(d) /\ Tasks(d) /\ Writes(d) /\ Shown(d) /\ Reads(d)
  BY DEF IInv
<1>2. D \cap acked = {} /\ D \subseteq Mine(c)
  BY MineApart
<1>3. ASSUME NEW d \in Clients, d # c
      PROVE  Snapshots(d)' /\ Tasks(d)' /\ Writes(d)' /\ Shown(d)' /\ Reads(d)'
  <2>1. job'[d] = job[d] /\ state'[d] = state[d] /\ load'[d] = load[d]
    BY <1>3 DEF Others
  <2>2. D \cap Mine(d) = {} /\ Mine(d) \cap acked' = {}
    BY <1>2, <1>3, MineApart
  <2>3. Snapshots(d)'
    BY <1>1, <2>1, SnapshotsKeep
  <2>4. Tasks(d)'
    BY <1>1, <2>1, TasksKeep
  <2>5. Writes(d)'
    BY <1>1, <2>1, <2>2, WritesKeep
  <2>6. Shown(d)'
    BY <1>1, <1>2, <2>1, ShownKeeps
  <2>7. Reads(d)'
    BY <1>1, <1>2, <2>1, ReadsKeep
  <2>8. QED BY <2>3, <2>4, <2>5, <2>6, <2>7
<1>4. ASSUME NEW d \in Clients, job'[d].op = "write", d # c
      PROVE  job[d].op = "write" /\ job'[d].id = job[d].id /\ job[d].id \in 1 .. writes
  BY <1>1, <1>4 DEF Others, Writes
<1>5. OwnWrites'
  <2>1. ASSUME NEW d \in Clients, d # c, job'[d].op = "write", job'[c].op = "write"
        PROVE  job'[d].id # job'[c].id
    <3>1. job[d].op = "write" /\ job'[d].id = job[d].id /\ job[d].id \in 1 .. writes
      BY <1>4, <2>1
    <3>2. CASE job[c].op = "write" /\ job'[c].id = job[c].id
      BY <1>1, <2>1, <3>1, <3>2 DEF OwnWrites
    <3>3. CASE writes < job'[c].id
      <4>1. writes \in Nat
        BY <1>1 DEF Types
      <4>2. job[d].id <= writes /\ job[d].id \in Int
        BY <3>1, <4>1, SMTT(30)
      <4>3. job[d].id # job'[c].id
        BY <3>3, <4>1, <4>2, SMTT(30)
      <4>4. QED BY <3>1, <4>3
    <3>4. QED BY <2>1, <3>2, <3>3
  <2>2. ASSUME NEW d \in Clients, NEW f \in Clients, d # c, f # c, job'[d].op = "write",
               job'[f].op = "write", job'[d].id = job'[f].id
        PROVE  d = f
    BY <1>1, <1>4, <2>2 DEF OwnWrites
  <2>3. QED BY <2>1, <2>2 DEF OwnWrites
<1>6. Acked'
  <2>1. Top(markers) \in Nat /\ Top(markers)' \in Nat /\ writes \in Nat /\ writes' \in Nat
    BY <1>1, TopTypes DEF Types
  <2>2. /\ Top(markers) <= Top(markers)' /\ writes <= writes'
        /\ \A x \in Entry \ D, e \in Nat : Held(x, e) => Held(x, e)'
    BY DEF Gentle
  <2>3. ASSUME NEW x \in acked PROVE x[1] <= writes' /\ \E e \in 0 .. Top(markers)' : Held(x, e)'
    <3>1. x \in Entry \ D /\ x[1] \in Int
      BY <1>1, <1>2 DEF Types, Entry
    <3>2. PICK e \in 0 .. Top(markers) : Held(x, e)
      BY <1>1 DEF Acked
    <3>3. e \in Nat /\ e \in 0 .. Top(markers)'
      BY <2>1, <2>2, SMT
    <3>4. x[1] <= writes
      BY <1>1 DEF Acked
    <3>5. x[1] <= writes'
      BY <2>1, <2>2, <3>1, <3>4, SMTT(30)
    <3>6. QED BY <2>2, <3>1, <3>2, <3>3, <3>5
  <2>4. QED BY <2>3 DEF Acked
<1>7. QED BY <1>3, <1>5, <1>6 DEF IInv

-----------------------------------------------------------------------------
(* Refreshes. *)

\* completeset.FindFirst leaves no epoch or range out.
LEMMA FindFirstHas ==
  ASSUME NEW S, NEW P \in FindFirst(S), NEW b \in S
  PROVE  \E p \in P : p.lo = b.lo /\ p.hi = b.hi
<1>1. PICK p \in P : {q \in P : q.lo = b.lo /\ q.hi = b.hi} = {p}
  BY DEF FindFirst
<1>2. QED BY <1>1

\* What a refresh or an opening process chooses: a compaction of every epoch that has one, and
\* ranges that follow each other.
LEMMA ChosenSets ==
  ASSUME NEW singles \in FindFirst(OfType(index, "xs")), NEW all \in FindFirst(OfType(index, "xr")),
         NEW ranges \in findLongestRangeCheckpoint(all)
  PROVE  /\ singles \subseteq index /\ ranges \subseteq index
         /\ \A b \in singles : b.type = "xs"
         /\ \A b \in ranges : b.type = "xr"
         /\ Linked(ranges)
         /\ OfType(singles \cup ranges, "xr") = ranges
         /\ \A b \in index : b.type = "xs" => \E p \in singles : p.type = "xs" /\ p.lo = b.lo
<1>1. singles \subseteq OfType(index, "xs") /\ all \subseteq OfType(index, "xr")
  BY DEF FindFirst
<1>2. ranges \in Chains(all)
  BY DEF findLongestRangeCheckpoint
<1>3. ranges \subseteq all /\ Linked(ranges)
  BY <1>2 DEF Chains, Linked
<1>4. /\ singles \subseteq index /\ ranges \subseteq index
      /\ \A b \in singles : b.type = "xs"
      /\ \A b \in ranges : b.type = "xr"
  BY <1>1, <1>3 DEF OfType
<1>5. OfType(singles \cup ranges, "xr") = ranges
  <2>1. "xs" # "xr"
    OBVIOUS
  <2>2. QED BY <1>4, <2>1 DEF OfType
<1>6. ASSUME NEW b \in index, b.type = "xs" PROVE \E p \in singles : p.type = "xs" /\ p.lo = b.lo
  <2>1. b \in OfType(index, "xs")
    BY <1>6 DEF OfType
  <2>2. \E p \in singles : p.lo = b.lo /\ p.hi = b.hi
    BY <2>1, FindFirstHas
  <2>3. QED BY <1>4, <2>2
<1>7. QED BY <1>3, <1>4, <1>5, <1>6

\* What a write knows.
LEMMA WriteFacts ==
  ASSUME IInv, NEW c \in Clients, job[c].op = "write"
  PROVE  /\ job[c] \in Job /\ job[c].lo \in Int /\ -1 <= job[c].lo /\ job[c].lo <= Top(markers)
         /\ job[c].pc # "state" => job[c].lo >= 0
         /\ job[c].set \subseteq Shards
         /\ Top(markers) < job[c].lo + 2 => \A s \in job[c].set : Raw(index, <<job[c].id, s>>, job[c].lo)
         /\ state \in [Clients -> Snapshot] /\ index \in SUBSET Blobs
         /\ Ordered(index, Top(markers), now) /\ now \in Nat
<1>1. Types /\ Ordered(index, Top(markers), now) /\ Writes(c)
  BY DEF IInv
<1>2. job[c] \in Job
  BY <1>1 DEF Types
<1>3. job[c].lo \in Int
  BY <1>2 DEF Job
<1>4. QED BY <1>1, <1>2, <1>3 DEF Types, Writes

\* The snapshot that the listings show.
Listed(singles, ranges) ==
  [validUntil |-> now + EpochRefreshFrequency, writeEpoch |-> Top(markers),
   sets |-> singles \cup ranges, unc |-> {}, markers |-> markers, marks |-> marks, seen |-> acked]

\* The snapshot with the uncompacted blobs that are there.
Filled(ld, idx) ==
  [ld EXCEPT !.unc = UNION {Uncompacted(idx, e) : e \in ld.writeEpoch - 1 .. ld.writeEpoch + 1}]

\* A refresh.
LEMMA LoadKeeps ==
  IInv => \A c \in Clients : Refresh(c) => IInv'
\* Of a snapshot Kept leaves out only what the client never looks at.
<1>1. ASSUME NEW c, NEW cs \in Snapshot
      PROVE  /\ Kept(c, cs) \in Snapshot
             /\ Kept(c, cs).validUntil = cs.validUntil /\ Kept(c, cs).writeEpoch = cs.writeEpoch
             /\ Kept(c, cs).sets \in {cs.sets, {}} /\ Kept(c, cs).unc \in {cs.unc, {}}
             /\ Kept(c, cs).marks \in {cs.marks, {}} /\ Kept(c, cs).seen \in {cs.seen, {}}
  BY <1>1, ZenonT(30) DEF Kept, Snapshot
\* What a client looks at stays.
<1>2. ASSUME NEW c, NEW cs \in Snapshot
      PROVE  /\ Compacts(c) \/ "read" \in plan.ops[c] => Kept(c, cs).sets = cs.sets
             /\ "read" \in plan.ops[c] => Kept(c, cs).unc = cs.unc
             /\ Kept(c, cs).seen # {} => "read" \in plan.ops[c]
  <2> USE <1>2
  <2>1. Compacts(c) \/ "read" \in plan.ops[c] => Kept(c, cs).sets = cs.sets
    BY DEF Kept, Snapshot, Compacts
  <2>2. "read" \in plan.ops[c] => Kept(c, cs).unc = cs.unc
    BY DEF Kept, Snapshot
  <2>3. Kept(c, cs).seen # {} => "read" \in plan.ops[c]
    BY DEF Kept, Snapshot
  <2>4. QED BY <2>1, <2>2, <2>3
\* What Kept leaves of a sound snapshot is one.
<1>3. ASSUME NEW c, NEW cs \in Snapshot, NEW idx, NEW top, NEW mark, NEW t, NEW acks,
             Based(cs, idx, top, mark, t, acks), "read" \in plan.ops[c] => Current(cs, idx, t)
      PROVE  Sound(Kept(c, cs), plan.ops[c], idx, top, mark, t, acks)
  <2> USE <1>3
  <2> DEFINE K == Kept(c, cs)
  <2>1. /\ K \in Snapshot
        /\ K.validUntil = cs.validUntil /\ K.writeEpoch = cs.writeEpoch
        /\ K.sets \in {cs.sets, {}} /\ K.unc \in {cs.unc, {}}
        /\ K.marks \in {cs.marks, {}} /\ K.seen \in {cs.seen, {}}
    BY <1>1
  <2>2. /\ "read" \in plan.ops[c] => K.sets = cs.sets
        /\ K.seen # {} => "read" \in plan.ops[c]
    BY <1>2
  <2> HIDE DEF K
  <2>3. Linked(OfType(K.sets, "xr"))
    <3>1. CASE K.sets = cs.sets
      BY <3>1 DEF Based
    <3>2. CASE K.sets = {}
      BY <3>2 DEF Linked, OfType
    <3>3. QED BY <2>1, <3>1, <3>2
  <2>4. /\ K.sets \subseteq cs.sets /\ K.unc \subseteq cs.unc /\ K.marks \subseteq cs.marks
        /\ K.seen \subseteq cs.seen
    BY <2>1
  <2>5. Based(K, idx, top, mark, t, acks)
    BY <2>1, <2>3, <2>4 DEF Based
  <2>6. ASSUME "read" \in plan.ops[c] PROVE Current(K, idx, t)
    BY <2>1, <2>2, <2>6 DEF Current, Has
  <2>7. QED BY <2>2, <2>5, <2>6 DEF Sound, K
<1>4. ASSUME Types, NEW singles \in SUBSET Blobs, NEW ranges \in SUBSET Blobs
      PROVE  /\ Listed(singles, ranges) \in Snapshot
             /\ Listed(singles, ranges).validUntil = now + EpochRefreshFrequency
             /\ Listed(singles, ranges).writeEpoch = Top(markers)
             /\ Listed(singles, ranges).sets = singles \cup ranges /\ Listed(singles, ranges).unc = {}
             /\ Listed(singles, ranges).marks = marks /\ Listed(singles, ranges).seen = acked
  <2> USE <1>4
  <2>1. /\ Top(markers) \in Nat /\ now + EpochRefreshFrequency \in Int /\ singles \cup ranges \in SUBSET Blobs
        /\ markers \in SUBSET Nat /\ marks \in SUBSET Marks /\ acked \in SUBSET Entry
    <3>1. Top(markers) \in Nat /\ now \in Nat /\ markers \in SUBSET Nat /\ marks \in SUBSET Marks /\ acked \in SUBSET Entry
      BY TopTypes DEF Types
    <3>2. QED BY <3>1, ParametersValid, SMTT(30) DEF Validate
  <2>2. QED BY <2>1 DEF Listed, Snapshot
<1>5. ASSUME IInv, NEW singles \in FindFirst(OfType(index, "xs")), NEW all \in FindFirst(OfType(index, "xr")),
             NEW ranges \in findLongestRangeCheckpoint(all)
      PROVE  /\ Based(Listed(singles, ranges), index, Top(markers), Watermark(marks), now, acked)
             /\ \A b \in index : b.type = "xs" => Has(Listed(singles, ranges), b.lo)
             /\ Listed(singles, ranges) \in Snapshot
  <2> USE <1>5
  <2> DEFINE L == Listed(singles, ranges)
  <2>1. /\ Types /\ Ordered(index, Top(markers), now) /\ index \in SUBSET Blobs /\ marks \in SUBSET Marks
        /\ Top(markers) \in Nat /\ now \in Nat /\ Watermark(marks) \in Nat /\ Bounded({m.wm : m \in marks})
    BY TopTypes DEF IInv, Types
  <2>2. /\ singles \subseteq index /\ ranges \subseteq index /\ Linked(ranges)
        /\ \A b \in singles : b.type = "xs"
        /\ \A b \in ranges : b.type = "xr"
        /\ OfType(singles \cup ranges, "xr") = ranges
        /\ \A b \in index : b.type = "xs" => \E p \in singles : p.type = "xs" /\ p.lo = b.lo
    BY ChosenSets, SMTT(30)
  <2>3. singles \in SUBSET Blobs /\ ranges \in SUBSET Blobs
    BY <2>1, <2>2
  <2>4. /\ L \in Snapshot /\ L.validUntil = now + EpochRefreshFrequency /\ L.writeEpoch = Top(markers)
        /\ L.sets = singles \cup ranges /\ L.unc = {} /\ L.marks = marks /\ L.seen = acked
    BY <2>1, <2>3, <1>4
  <2> HIDE DEF L
  <2>5. \A m \in marks : m.wm <= Watermark(marks)
    <3> DEFINE W == {m.wm : m \in marks}
    <3>1. W \subseteq Nat
      BY <2>1 DEF Marks
    <3>2. \A m \in marks : m.wm \in W
      OBVIOUS
    <3>3. Bounded(W) /\ Watermark(marks) = Top(W)
      BY <2>1 DEF Watermark
    <3> HIDE DEF W
    <3>4. QED BY <3>1, <3>2, <3>3, TopIsBound
  <2>6. L.writeEpoch <= Top(markers) /\ L.validUntil <= now + EpochRefreshFrequency
    <3>1. now + EpochRefreshFrequency \in Int
      BY <2>1, ParametersValid, SMTT(30) DEF Validate
    <3>2. QED BY <2>1, <2>4, <3>1, SMTT(30)
  <2>7. \A b \in L.sets : b \in index /\ b.type # "xn" /\ b.hi <= L.writeEpoch - 2
    <3>1. "xs" # "xn" /\ "xr" # "xn"
      OBVIOUS
    <3>2. QED BY <2>1, <2>2, <2>4, <3>1 DEF Ordered
  <2>8. Linked(OfType(L.sets, "xr"))
    BY <2>2, <2>4
  <2>9. Based(L, index, Top(markers), Watermark(marks), now, acked)
    BY <2>4, <2>5, <2>6, <2>7, <2>8 DEF Based
  <2>10. \A b \in index : b.type = "xs" => Has(L, b.lo)
    BY <2>2, <2>4 DEF Has
  <2>11. QED BY <2>4, <2>9, <2>10 DEF L
\* In an epoch that is not settled there is no compaction, nor is one about to be written.
<1>6. ASSUME IInv, NEW x, NEW e \in Nat, Top(markers) < e + 2, Raw(index, x, e)
      PROVE  Held(x, e)
  <2> USE <1>6
  <2>1. /\ Types /\ Ordered(index, Top(markers), now) /\ index \in SUBSET Blobs /\ Top(markers) \in Nat
        /\ \A c \in Clients : Task(job[c], state[c], Top(markers), plan.ops[c]) /\ job[c] \in Job
    BY TopTypes DEF IInv, Types, Tasks
  <2>2. ASSUME NEW b \in index, b.type # "xn", e <= b.hi PROVE FALSE
    <3>1. b.hi \in Nat /\ b.hi <= Top(markers) - 2
      BY <2>1, <2>2 DEF Ordered, Blobs
    <3>2. QED BY <2>1, <2>2, <3>1, SMTT(30)
  <2>3. ASSUME NEW c \in Clients, job[c].op \in {"single", "range"}, job[c].pc = "put", e <= job[c].hi PROVE FALSE
    <3>1. job[c].hi \in Int
      BY <2>1 DEF Job
    <3>2. job[c].hi <= Top(markers) - 2
      BY <2>1, <2>3 DEF Task
    <3>3. QED BY <2>1, <2>3, <3>1, <3>2, SMTT(30)
  <2>4. QED BY <2>2, <2>3 DEF Held, InSets, Carried
\* A refresh of c changes its snapshots only.
<1>7. ASSUME IInv, NEW c \in Clients, UNCHANGED <<now, Storage, job, writes, acked, plan>>,
             state' \in [Clients -> Snapshot], load' \in [Clients -> Snapshot],
             \A d \in Clients \ {c} : state'[d] = state[d] /\ load'[d] = load[d],
             Compacts(c) => \A e \in Nat : Gone(e) => Knows(state'[c], load'[c], e)
      PROVE  /\ Gentle({}) /\ Types' /\ Ordered(index, Top(markers), now)' /\ Others(c)
             /\ now' = now /\ index' = index /\ markers' = markers /\ marks' = marks /\ job' = job
             /\ writes' = writes /\ acked' = acked /\ plan' = plan
  <2> USE <1>7
  <2>1. /\ now' = now /\ index' = index /\ markers' = markers /\ marks' = marks /\ job' = job
        /\ writes' = writes /\ acked' = acked /\ plan' = plan
    BY DEF Storage
  <2>2. /\ Types /\ Ordered(index, Top(markers), now) /\ Top(markers) \in Nat /\ Watermark(marks) \in Nat
        /\ now \in Nat /\ writes \in Nat
    BY TopTypes DEF IInv, Types
  <2>3. Types' /\ Ordered(index, Top(markers), now)' /\ Others(c)
    BY <2>1, <2>2 DEF Types, Others
  <2>4. ASSUME NEW e \in Nat, Gone(e) PROVE Gone(e)'
    <3>1. Old(index', e, now')
      BY <2>1, <2>4 DEF Gone
    <3>2. ASSUME NEW d \in Clients, Compacts(d)' PROVE Knows(state'[d], load'[d], e)
      BY <2>1, <2>4, <3>2 DEF Gone, Compacts
    <3>3. QED BY <3>1, <3>2 DEF Gone
  <2>5. ASSUME NEW x, NEW e \in Nat, Held(x, e) PROVE Held(x, e)'
    BY <2>1, <2>4, <2>5 DEF Held
  <2>6. Top(markers) <= Top(markers') /\ Watermark(marks) <= Watermark(marks') /\ now <= now' /\ writes <= writes'
    BY <2>1, <2>2, SMTT(30)
  <2>7. Gentle({})
    BY <2>1, <2>5, <2>6 DEF Gentle
  <2>8. QED BY <2>1, <2>3, <2>7
<1>8. ASSUME IInv, NEW c \in Clients, LoadSets(c)
      PROVE  IInv'
  <2> USE <1>8
  <2>1. /\ MustRefresh(c) /\ load[c] = NoLoad /\ state' = state
        /\ UNCHANGED <<now, Storage, job, writes, acked, plan>>
    BY DEF LoadSets, Storage
  <2>2. PICK singles \in FindFirst(OfType(index, "xs")) :
          \E all \in FindFirst(OfType(index, "xr")) : \E ranges \in findLongestRangeCheckpoint(all) :
            load' = [load EXCEPT ![c] = Kept(c, Listed(singles, ranges))]
    BY DEF LoadSets, Listed
  <2>3. PICK all \in FindFirst(OfType(index, "xr")) : \E ranges \in findLongestRangeCheckpoint(all) :
            load' = [load EXCEPT ![c] = Kept(c, Listed(singles, ranges))]
    BY <2>2
  <2>4. PICK ranges \in findLongestRangeCheckpoint(all) :
            load' = [load EXCEPT ![c] = Kept(c, Listed(singles, ranges))]
    BY <2>3
  <2> DEFINE L == Listed(singles, ranges)
             K == Kept(c, L)
  <2>5. /\ Types /\ state \in [Clients -> Snapshot] /\ load \in [Clients -> Snapshot] /\ index \in SUBSET Blobs
        /\ Snapshots(c) /\ Tasks(c) /\ Writes(c) /\ Shown(c) /\ Reads(c) /\ Acked
        /\ Ordered(index, Top(markers), now) /\ Top(markers) \in Nat
    BY TopTypes DEF IInv, Types
  <2>6. /\ Based(L, index, Top(markers), Watermark(marks), now, acked)
        /\ \A b \in index : b.type = "xs" => Has(L, b.lo)
        /\ L \in Snapshot
    BY <1>5
  <2>7. /\ K \in Snapshot /\ K.writeEpoch = L.writeEpoch /\ K.seen \in {L.seen, {}}
        /\ (Compacts(c) => K.sets = L.sets)
    BY <2>6, <1>1, <1>2, ZenonT(30)
  <2>8. Sound(K, plan.ops[c], index, Top(markers), Watermark(marks), now, acked)
    <3>1. Current(L, index, now)
      BY <2>6 DEF Current
    <3> HIDE DEF L
    <3>2. QED BY <2>6, <3>1, <1>3
  <2>9. L.writeEpoch = Top(markers) /\ L.seen = acked
    BY DEF Listed
  <2>10. load' = [load EXCEPT ![c] = K]
    BY <2>4
  <2> HIDE DEF K, L
  <2>11. load'[c] = K /\ load' \in [Clients -> Snapshot] /\ \A d \in Clients \ {c} : state'[d] = state[d] /\ load'[d] = load[d]
    BY <2>1, <2>5, <2>7, <2>10
  <2>12. ASSUME Compacts(c), NEW e \in Nat, Gone(e) PROVE Knows(state'[c], load'[c], e)
    <3>1. Knows(state[c], load[c], e) /\ Old(index, e, now)
      BY <2>12 DEF Gone
    <3>2. Has(K, e)
      BY <2>6, <2>7, <2>12, <3>1 DEF Old, Has
    <3>3. QED BY <2>1, <2>11, <3>1, <3>2 DEF Knows
  <2>13. state' \in [Clients -> Snapshot]
    BY <2>1, <2>5
  <2>14. /\ Gentle({}) /\ Types' /\ Ordered(index, Top(markers), now)' /\ Others(c)
         /\ now' = now /\ index' = index /\ markers' = markers /\ marks' = marks /\ job' = job
         /\ writes' = writes /\ acked' = acked /\ plan' = plan
    BY <2>1, <2>11, <2>12, <2>13, <1>7
  <2>15. Snapshots(c)'
    BY <2>1, <2>5, <2>8, <2>11, <2>14 DEF Snapshots
  <2>16. Tasks(c)'
    BY <2>1, <2>5, <2>11, <2>14 DEF Tasks, MustRefresh
  <2>17. Reads(c)'
    <3>1. {} \cap acked = {}
      OBVIOUS
    <3>2. state'[c] = state[c] /\ job'[c] = job[c]
      BY <2>1, <2>14
    <3>3. QED BY <2>5, <2>14, <3>1, <3>2, ReadsKeep
  <2>18. \A x \in Entry, e \in Nat : Held(x, e) => Held(x, e)'
    BY <2>14 DEF Gentle
  <2>19. Shown(c)'
    <3>1. state[c].seen \subseteq Entry /\ acked \subseteq Entry /\ state[c].writeEpoch \in Nat
      BY <2>5 DEF Types, Snapshot
    <3>2. (\A e \in 0 .. state[c].writeEpoch : e \in Nat) /\ (\A e \in 0 .. Top(markers) : e \in Nat)
      BY SMT
    <3>3. \A x \in state[c].seen : \E e \in 0 .. state[c].writeEpoch : Held(x, e)' /\ Unc(state[c], index, now, x, e)
      BY <2>5, <2>18, <3>1, <3>2 DEF Shown
    <3>4. \A x \in acked : \E e \in 0 .. Top(markers) : Held(x, e)'
      BY <2>5, <2>18, <3>1, <3>2 DEF Acked
    <3>5. \A x \in K.seen : \E e \in 0 .. K.writeEpoch : Held(x, e)'
      BY <2>7, <2>9, <3>4
    <3>6. QED BY <2>1, <2>11, <2>14, <3>3, <3>5 DEF Shown
  <2>20. Writes(c)'
    <3>0. SUFFICES ASSUME job[c].op = "write" PROVE Writes(c)'
      BY <2>14 DEF Writes
    <3>1. /\ Mine(c)' = Mine(c) /\ Mine(c) \subseteq Entry /\ Mine(c) = {<<job[c].id, s>> : s \in Shards}
      <4>1. Mine(c)' = Mine(c)
        BY <2>14 DEF Mine
      <4>2. QED BY <2>5, <3>0, <4>1, MineFacts
    <3>2. ASSUME job[c].pc = "confirm", Behind(state[c], job[c].lo) \/ Behind(K, job[c].lo), NEW x \in Mine(c)
          PROVE  \E e \in Nat : e = job[c].lo /\ Held(x, e)'
      <4>1. job[c].lo \in Int /\ job[c].lo >= 0
        <5>1. job[c].pc # "state"
          BY <3>2
        <5>2. QED BY <3>0, <5>1, WriteFacts
      <4>2. job[c].lo \in Nat
        BY <4>1, SMTT(30)
      <4>3. Held(x, job[c].lo)
        <5>1. CASE Behind(state[c], job[c].lo)
          BY <2>5, <3>0, <3>2, <5>1 DEF Writes
        <5>2. CASE Behind(K, job[c].lo)
          <6>1. Top(markers) < job[c].lo + 2
            BY <2>7, <2>9, <5>2 DEF Behind
          <6>2. job[c].set = Shards /\ \A s \in job[c].set : Raw(index, <<job[c].id, s>>, job[c].lo)
            BY <2>5, <3>0, <3>2, <6>1 DEF Writes
          <6>3. Raw(index, x, job[c].lo)
            BY <3>1, <6>2
          <6>4. QED BY <4>2, <6>1, <6>3, <1>6
        <5>3. QED BY <3>2, <5>1, <5>2
      <4>4. PICK e \in Nat : e = job[c].lo
        BY <4>2
      <4>5. Held(x, e)'
        BY <2>18, <3>1, <4>3, <4>4
      <4>6. QED BY <4>4, <4>5
    <3>3. ASSUME job'[c].pc = "confirm", Behind(state'[c], job'[c].lo) \/ Behind(load'[c], job'[c].lo), NEW x \in Mine(c)
          PROVE  Held(x, job[c].lo)'
      <4>1. PICK e \in Nat : e = job[c].lo /\ Held(x, e)'
        BY <2>1, <2>11, <2>14, <3>2, <3>3
      <4>2. job'[c].lo = e
        BY <2>14, <4>1
      <4>3. QED BY <4>1, <4>2
    <3>4. QED BY <2>5, <2>14, <3>0, <3>1, <3>3 DEF Writes
  <2>21. QED
    <3>1. acked' \subseteq acked \cup Mine(c) /\ acked' \ acked = {}
      BY <2>14
    <3>2. job'[c].op = "write" => job[c].op = "write" /\ job'[c].id = job[c].id
      BY <2>14
    <3>3. QED BY <2>14, <2>15, <2>16, <2>17, <2>19, <2>20, <3>1, <3>2, StepKeeps
<1>9. ASSUME NEW ld \in Snapshot, NEW idx \in SUBSET Blobs
      PROVE  /\ Filled(ld, idx) \in Snapshot
             /\ Filled(ld, idx).validUntil = ld.validUntil /\ Filled(ld, idx).writeEpoch = ld.writeEpoch
             /\ Filled(ld, idx).sets = ld.sets /\ Filled(ld, idx).marks = ld.marks /\ Filled(ld, idx).seen = ld.seen
             /\ \A b \in Filled(ld, idx).unc : b \in idx /\ b.type = "xn"
             /\ \A b \in idx : b.type = "xn" /\ b.lo \in ld.writeEpoch - 1 .. ld.writeEpoch + 1 => b \in Filled(ld, idx).unc
  <2> USE <1>9
  <2> DEFINE Near == ld.writeEpoch - 1 .. ld.writeEpoch + 1
             U == UNION {Uncompacted(idx, e) : e \in Near}
  <2>1. /\ \A b \in U : b \in idx /\ b.type = "xn"
        /\ \A b \in idx : b.type = "xn" /\ b.lo \in Near => b \in U
    <3> HIDE DEF Near
    <3>1. ASSUME NEW b \in U PROVE b \in idx /\ b.type = "xn"
      BY <3>1 DEF Uncompacted
    <3>2. ASSUME NEW b \in idx, b.type = "xn", b.lo \in Near PROVE b \in U
      <4>1. b \in Uncompacted(idx, b.lo)
        BY <3>2 DEF Uncompacted
      <4>2. QED BY <3>2, <4>1
    <3>3. QED BY <3>1, <3>2
  <2>2. Filled(ld, idx) = [ld EXCEPT !.unc = U]
    BY DEF Filled
  <2> HIDE DEF U
  <2>3. U \in SUBSET Blobs
    BY <2>1
  <2>4. /\ Filled(ld, idx) \in Snapshot
        /\ Filled(ld, idx).validUntil = ld.validUntil /\ Filled(ld, idx).writeEpoch = ld.writeEpoch
        /\ Filled(ld, idx).sets = ld.sets /\ Filled(ld, idx).marks = ld.marks /\ Filled(ld, idx).seen = ld.seen
        /\ Filled(ld, idx).unc = U
    BY <2>2, <2>3 DEF Snapshot
  <2>5. QED BY <2>1, <2>4
\* What is held and lies around the write epoch is in an uncompacted blob of the snapshot.
<1>10. ASSUME IInv, NEW cs \in Snapshot, Current(cs, index, now),
              Based(cs, index, Top(markers), Watermark(marks), now, acked),
              \A b \in index : b.type = "xn" /\ b.lo \in cs.writeEpoch - 1 .. cs.writeEpoch + 1 => b \in cs.unc,
              NEW x, NEW e \in Nat, Held(x, e)
       PROVE  Unc(cs, index, now, x, e)
  <2> USE <1>10
  <2>1. SUFFICES ASSUME now < cs.validUntil, cs.writeEpoch - 1 <= e, e <= cs.writeEpoch + 1
                 PROVE  \E b \in cs.unc \cap index : b.lo = e /\ x \in b.entries
    BY DEF Unc
  <2>2. now \in Nat /\ index \in SUBSET Blobs /\ Ordered(index, Top(markers), now)
    BY DEF IInv, Types
  <2>3. cs.validUntil \in Int /\ cs.writeEpoch \in Nat
    BY DEF Snapshot
  <2>4. now <= cs.validUntil /\ e \in cs.writeEpoch - 1 .. cs.writeEpoch + 1
    BY <2>1, <2>2, <2>3, SMTT(30)
  <2>5. ~Gone(e)
    <3>1. ASSUME Gone(e) PROVE FALSE
      <4>1. Has(cs, e)
        BY <2>2, <2>4, <3>1, OldShown DEF Gone
      <4>2. e <= cs.writeEpoch - 2
        BY <2>2, <4>1, HasSettled
      <4>3. QED BY <2>1, <2>3, <4>2, SMTT(30)
    <3>2. QED BY <3>1
  <2>6. PICK b \in index : b.type = "xn" /\ b.lo = e /\ x \in b.entries
    BY <2>5 DEF Held, Raw
  <2>7. QED BY <2>4, <2>6
\* A refresh that took too long is thrown away.
<1>11. ASSUME IInv, NEW c \in Clients, state' = state, load' = [load EXCEPT ![c] = NoLoad],
              UNCHANGED <<now, Storage, job, writes, acked, plan>>
       PROVE  IInv'
  <2> USE <1>11
  <2>1. /\ Types /\ state \in [Clients -> Snapshot] /\ load \in [Clients -> Snapshot]
        /\ Snapshots(c) /\ Tasks(c) /\ Writes(c) /\ Shown(c) /\ Reads(c) /\ Ordered(index, Top(markers), now)
    BY DEF IInv, Types
  <2>2. /\ load'[c] = Invalid /\ load' \in [Clients -> Snapshot] /\ state' \in [Clients -> Snapshot] /\ state'[c] = state[c]
        /\ \A d \in Clients \ {c} : state'[d] = state[d] /\ load'[d] = load[d]
    BY <2>1, InvalidFields
  <2>3. ASSUME Compacts(c), NEW e \in Nat, Gone(e) PROVE Knows(state'[c], load'[c], e)
    BY <2>2, <2>3, InvalidFields DEF Gone, Knows
  <2>4. /\ Gentle({}) /\ Types' /\ Ordered(index, Top(markers), now)' /\ Others(c)
        /\ job' = job /\ writes' = writes /\ acked' = acked
    BY <2>2, <2>3, <1>7
  <2>5. {} \cap acked = {} /\ {} \cap Mine(c) = {}
    OBVIOUS
  <2>6. Mine(c) \cap acked' = {}
    BY <2>4, MineApart
  <2>7. job'[c] = job[c] /\ acked' \subseteq acked \cup Mine(c) /\ acked' \ acked = {}
    BY <2>4
  <2>8. Snapshots(c)' /\ Shown(c)'
    BY <2>1, <2>2, <2>4, <2>5, SnapshotsKeep, ShownKeeps
  <2>9. Tasks(c)' /\ Reads(c)'
    BY <2>1, <2>2, <2>4, <2>5, <2>7, TasksKeep, ReadsKeep
  <2>10. Writes(c)'
    BY <2>1, <2>2, <2>4, <2>5, <2>6, <2>7, WritesKeep
  <2>11. QED BY <2>4, <2>7, <2>8, <2>9, <2>10, StepKeeps
\* A refresh that was quick enough gives a new snapshot.
<1>12. ASSUME IInv, NEW c \in Clients, load[c] # NoLoad, load' = [load EXCEPT ![c] = NoLoad],
              state' = [state EXCEPT ![c] = Kept(c, Filled(load[c], index))],
              UNCHANGED <<now, Storage, job, writes, acked, plan>>
       PROVE  IInv'
  <2> USE <1>12
  <2> DEFINE F == Filled(load[c], index)
             K == Kept(c, F)
  <2>1. /\ Types /\ state \in [Clients -> Snapshot] /\ load \in [Clients -> Snapshot] /\ load[c] \in Snapshot
        /\ Snapshots(c) /\ Tasks(c) /\ Writes(c) /\ Shown(c) /\ Reads(c) /\ Ordered(index, Top(markers), now)
        /\ index \in SUBSET Blobs /\ job[c].pc \in {"state", "confirm"} /\ acked \subseteq Entry
        /\ Sound(load[c], plan.ops[c], index, Top(markers), Watermark(marks), now, acked)
    BY DEF IInv, Types, Tasks, Snapshots
  <2>2. /\ F \in Snapshot /\ F.validUntil = load[c].validUntil /\ F.writeEpoch = load[c].writeEpoch
        /\ F.sets = load[c].sets /\ F.marks = load[c].marks /\ F.seen = load[c].seen
        /\ \A b \in F.unc : b \in index /\ b.type = "xn"
        /\ \A b \in index : b.type = "xn" /\ b.lo \in F.writeEpoch - 1 .. F.writeEpoch + 1 => b \in F.unc
    BY <2>1, <1>9
  <2> HIDE DEF F
  <2>3. Based(F, index, Top(markers), Watermark(marks), now, acked)
    BY <2>1, <2>2 DEF Sound, Based, Ordered
  <2>4. "read" \in plan.ops[c] => Current(F, index, now)
    BY <2>1, <2>2 DEF Sound, Current, Has
  <2>5. /\ K \in Snapshot /\ K.validUntil = load[c].validUntil /\ K.writeEpoch = load[c].writeEpoch
        /\ K.seen \subseteq load[c].seen /\ (Compacts(c) => K.sets = load[c].sets)
        /\ (K.seen # {} => "read" \in plan.ops[c])
        /\ ("read" \in plan.ops[c] => K.unc = F.unc)
    <3>1. /\ K \in Snapshot /\ K.validUntil = F.validUntil /\ K.writeEpoch = F.writeEpoch /\ K.seen \in {F.seen, {}}
      BY <2>2, <1>1
    <3>2. /\ Compacts(c) \/ "read" \in plan.ops[c] => K.sets = F.sets
          /\ "read" \in plan.ops[c] => K.unc = F.unc
          /\ K.seen # {} => "read" \in plan.ops[c]
      BY <2>2, <1>2
    <3> HIDE DEF K
    <3>3. QED BY <2>2, <3>1, <3>2
  <2>6. Sound(K, plan.ops[c], index, Top(markers), Watermark(marks), now, acked)
    BY <2>2, <2>3, <2>4, <1>3
  <2>7. state' = [state EXCEPT ![c] = K]
    BY DEF F
  <2> HIDE DEF K
  <2>8. /\ load'[c] = Invalid /\ load' \in [Clients -> Snapshot] /\ state' \in [Clients -> Snapshot] /\ state'[c] = K
        /\ \A d \in Clients \ {c} : state'[d] = state[d] /\ load'[d] = load[d]
    BY <2>1, <2>5, <2>7, InvalidFields
  <2>9. ASSUME Compacts(c), NEW e \in Nat, Gone(e) PROVE Knows(state'[c], load'[c], e)
    <3>1. Has(load[c], e)
      BY <2>9 DEF Gone, Knows
    <3>2. Has(K, e)
      BY <2>5, <2>9, <3>1 DEF Has
    <3>3. QED BY <2>8, <3>2, InvalidFields DEF Knows
  <2>10. /\ Gentle({}) /\ Types' /\ Ordered(index, Top(markers), now)' /\ Others(c)
         /\ now' = now /\ index' = index /\ markers' = markers /\ marks' = marks /\ job' = job
         /\ writes' = writes /\ acked' = acked /\ plan' = plan
    BY <2>8, <2>9, <1>7
  <2>11. \A x \in Entry, e \in Nat : Held(x, e) => Held(x, e)'
    BY <2>10 DEF Gentle
  <2>12. ASSUME "read" \in plan.ops[c], NEW x \in Entry, NEW e \in Nat, Held(x, e)
         PROVE  Held(x, e)' /\ Unc(K, index, now, x, e)
    <3>1. /\ Current(K, index, now) /\ Based(K, index, Top(markers), Watermark(marks), now, acked)
          /\ \A b \in index : b.type = "xn" /\ b.lo \in K.writeEpoch - 1 .. K.writeEpoch + 1 => b \in K.unc
      BY <2>2, <2>5, <2>6, <2>12 DEF Sound
    <3>2. QED BY <2>5, <2>11, <2>12, <3>1, <1>10
  <2>13. Snapshots(c)'
    <3>1. Sound(Invalid, plan.ops[c], index, Top(markers), Watermark(marks), now, acked)
      <4>1. Top(markers) \in Nat /\ now \in Nat
        BY <2>1, TopTypes DEF Types
      <4>2. QED BY <4>1, InvalidSound
    <3>2. QED BY <2>6, <2>8, <2>10, <3>1 DEF Snapshots
  <2>14. Tasks(c)'
    <3>1. Task(job[c], state[c], Top(markers), plan.ops[c]) /\ job[c].pc \notin {"list", "put", "delete"}
      BY <2>1 DEF Tasks
    <3>2. Task(job[c], K, Top(markers), plan.ops[c])
      BY <3>1 DEF Task
    <3>3. QED BY <2>8, <2>10, <3>2, InvalidFields DEF Tasks
  <2>15. Shown(c)'
    <3>1. K.seen \subseteq Entry
      BY <2>5 DEF Snapshot
    <3>2. \A e \in 0 .. load[c].writeEpoch : e \in Nat
      BY SMTT(30)
    <3>3. \A x \in K.seen : \E e \in 0 .. K.writeEpoch : Held(x, e)' /\ Unc(K, index, now, x, e)
      <4>1. TAKE x \in K.seen
      <4>2. PICK e \in 0 .. load[c].writeEpoch : Held(x, e)
        BY <2>1, <2>5 DEF Shown
      <4>3. Held(x, e)' /\ Unc(K, index, now, x, e)
        BY <2>5, <2>12, <3>1, <3>2, <4>2
      <4>4. QED BY <2>5, <4>2, <4>3
    <3>4. \A x \in state'[c].seen : \E e \in 0 .. state'[c].writeEpoch : Held(x, e)' /\ Unc(state'[c], index', now', x, e)
      <4>1. state'[c] = K /\ index' = index /\ now' = now
        BY <2>8, <2>10
      <4>2. QED BY <3>3, <4>1, SMTT(30)
    <3>5. load'[c].seen = {}
      BY <2>8, InvalidFields
    <3>6. QED BY <3>4, <3>5 DEF Shown
  <2>16. Reads(c)'
    <3>0. SUFFICES ASSUME job[c].op = "read" PROVE Reads(c)'
      BY <2>10, ZenonT(30) DEF Reads
    <3>1. "read" \in plan.ops[c] /\ job[c].pc \notin {"list", "check"} /\ job[c].pc # "check"
      BY <2>1, <3>0, SMTT(30) DEF Tasks, Task
    <3>2. ASSUME job[c].hi # -1, NEW x \in job[c].first
          PROVE  \E e \in 0 .. job[c].hi : Held(x, e)' /\ Unc(K, index, now, x, e)
      <4>1. PICK e \in 0 .. job[c].hi : Held(x, e)
        BY <2>1, <3>0, <3>2 DEF Reads
      <4>2. job[c].hi \in Nat /\ x \in acked
        BY <2>1, <3>0, <3>2, ZenonT(30) DEF Reads
      <4>3. e \in Nat /\ x \in Entry
        BY <2>1, <4>2, SMTT(30)
      <4>4. Held(x, e)' /\ Unc(K, index, now, x, e)
        BY <2>12, <3>1, <4>1, <4>3
      <4>5. QED BY <4>4
    <3>3. job[c].hi # -1 => job[c].hi \in Nat /\ job[c].first \subseteq acked
      BY <2>1, <3>0 DEF Reads
    <3>4. job'[c] = job[c] /\ index' = index /\ now' = now /\ acked' = acked /\ state'[c] = K
      BY <2>8, <2>10
    <3>5. job[c].hi # -1 => \A x \in job'[c].first : \E e \in 0 .. job'[c].hi : Held(x, e)' /\ Unc(state'[c], index', now', x, e)
      BY <3>2, <3>4
    <3>6. QED BY <3>1, <3>3, <3>4, <3>5 DEF Reads
  <2>17. Writes(c)'
    <3>0. SUFFICES ASSUME job[c].op = "write" PROVE Writes(c)'
      BY <2>10 DEF Writes
    <3>1. Mine(c)' = Mine(c)
      BY <2>10 DEF Mine
    <3>2. Mine(c) \subseteq Entry
      BY <2>1, MineFacts
    <3>3. ASSUME job'[c].pc = "confirm", Behind(state'[c], job'[c].lo) \/ Behind(load'[c], job'[c].lo), NEW x \in Mine(c)
          PROVE  Held(x, job[c].lo)'
      <4>1. job[c].pc = "confirm" /\ (Behind(K, job[c].lo) \/ Behind(Invalid, job[c].lo))
        BY <2>8, <2>10, <3>3, ZenonT(30)
      <4>2. ~Behind(Invalid, job[c].lo)
        BY InvalidFields, SMTT(30) DEF Behind
      <4>3. Behind(load[c], job[c].lo)
        BY <2>5, <4>1, <4>2 DEF Behind
      <4>4. Held(x, job[c].lo)
        BY <2>1, <3>0, <4>1, <4>3 DEF Writes
      <4>5. job[c].lo \in Nat
        <5>1. job[c].pc # "state"
          BY <4>1
        <5>2. job[c].lo \in Int /\ job[c].lo >= 0
          BY <3>0, <5>1, WriteFacts
        <5>3. QED BY <5>2, SMTT(30)
      <4>6. PICK e \in Nat : e = job[c].lo
        BY <4>5
      <4>7. Held(x, e)' /\ job'[c].lo = e
        BY <2>10, <2>11, <3>2, <4>4, <4>6
      <4>8. QED BY <4>7
    <3>4. QED BY <2>1, <2>10, <3>0, <3>1, <3>3 DEF Writes
  <2>18. QED
    <3>1. acked' \subseteq acked \cup Mine(c) /\ acked' \ acked = {}
      BY <2>10
    <3>2. job'[c].op = "write" => job[c].op = "write" /\ job'[c].id = job[c].id
      BY <2>10
    <3>3. QED BY <2>10, <2>13, <2>14, <2>15, <2>16, <2>17, <3>1, <3>2, StepKeeps
<1>13. ASSUME IInv, NEW c \in Clients, LoadUncompacted(c)
       PROVE  IInv'
  <2> USE <1>13
  <2>1. /\ load[c] # NoLoad /\ load' = [load EXCEPT ![c] = NoLoad]
        /\ state' = IF now > Filled(load[c], index).validUntil THEN state
                    ELSE [state EXCEPT ![c] = Kept(c, Filled(load[c], index))]
        /\ UNCHANGED <<now, Storage, job, writes, acked, plan>>
    BY DEF LoadUncompacted, Filled
  <2>2. CASE now > Filled(load[c], index).validUntil
    BY <2>1, <2>2, <1>11
  <2>3. CASE ~(now > Filled(load[c], index).validUntil)
    BY <2>1, <2>3, <1>12
  <2>4. QED BY <2>2, <2>3
<1>14. QED BY <1>8, <1>13 DEF Refresh

-----------------------------------------------------------------------------
(* The beginning of an operation. *)

\* A step that changes nothing but c's operation.
LEMMA JobStep ==
  ASSUME IInv, NEW c \in Clients, NEW j \in Job, job' = [job EXCEPT ![c] = j],
         UNCHANGED <<now, Storage, state, load, acked, plan>>, writes' \in Nat, writes <= writes',
         j.op \in {"single", "range"} /\ j.pc = "put" =>
           \A x \in Entry, e \in Nat : Held(x, e) => Carried(j, x, e),
         Tasks(c)', Writes(c)', Reads(c)',
         j.op = "write" => (job[c].op = "write" /\ j.id = job[c].id) \/ writes < j.id
  PROVE  IInv'
<1>1. Types /\ Ordered(index, Top(markers), now) /\ Snapshots(c) /\ Shown(c)
  BY DEF IInv
<1>2. now' = now /\ index' = index /\ markers' = markers /\ marks' = marks /\ state' = state /\ load' = load
      /\ acked' = acked /\ plan' = plan
  BY DEF Storage
<1>3. job' \in [Clients -> Job] /\ job'[c] = j /\ \A d \in Clients \ {c} : job'[d] = job[d]
  BY <1>1 DEF Types
<1>4. Types'
  BY <1>1, <1>2, <1>3 DEF Types
<1>5. ASSUME NEW x \in Entry, NEW e \in Nat, Held(x, e) PROVE Held(x, e)'
  <2>1. Carried(j, x, e)
    BY <1>5 DEF Carried
  <2>2. \A d \in Clients : Carried(job'[d], x, e)
    BY <1>3, <1>5, <2>1 DEF Held
  <2>3. QED BY <1>2, <1>5, <2>2 DEF Held, Gone, Compacts
<1>6. Gentle({})
  <2>1. Top(markers) <= Top(markers') /\ Watermark(marks) <= Watermark(marks') /\ now <= now'
    <3>1. Top(markers) \in Nat /\ Watermark(marks) \in Nat /\ now \in Nat
      BY <1>1, TopTypes DEF Types
    <3>2. QED BY <1>2, <3>1, SMT
  <2>2. QED BY <1>2, <1>5, <2>1 DEF Gentle
<1>7. Snapshots(c)' /\ Shown(c)'
  <2>1. {} \cap acked = {}
    OBVIOUS
  <2>2. QED BY <1>1, <1>2, <1>4, <1>6, <2>1, SnapshotsKeep, ShownKeeps
<1>8. Others(c)
  BY <1>2, <1>3 DEF Others
<1>9. Ordered(index, Top(markers), now)'
  BY <1>1, <1>2
<1>10. QED BY <1>2, <1>3, <1>4, <1>6, <1>7, <1>8, <1>9, StepKeeps

\* A step of a maintenance task that changes nothing but the task.
LEMMA TaskStep ==
  ASSUME IInv, NEW c \in Clients, NEW j \in Job, Keep(c, j), j.op \in MaintenanceOps,
         load[c] = NoLoad, Task(j, state[c], Top(markers), plan.ops[c]),
         j.op \in {"single", "range"} /\ j.pc = "put" =>
           \A x \in Entry, e \in Nat : Held(x, e) => Carried(j, x, e),
         UNCHANGED <<now, Storage, state, load, writes, acked, plan>>
  PROVE  IInv'
<1>1. /\ job' = [job EXCEPT ![c] = j] /\ writes' = writes /\ load' = load /\ state' = state
      /\ markers' = markers /\ plan' = plan
      /\ UNCHANGED <<now, Storage, state, load, acked, plan>>
  BY DEF Keep, Storage
<1>2. job \in [Clients -> Job] /\ writes \in Nat
  BY DEF IInv, Types
<1>3. job'[c] = j
  BY <1>1, <1>2
<1>4. j.op # "write" /\ j.op # "read"
  BY DEF MaintenanceOps
<1>5. Tasks(c)'
  BY <1>1, <1>3 DEF Tasks
<1>6. Writes(c)' /\ Reads(c)'
  BY <1>3, <1>4 DEF Writes, Reads
<1>7. writes' \in Nat /\ writes <= writes'
  BY <1>1, <1>2, SMT
<1>8. QED BY <1>1, <1>4, <1>5, <1>6, <1>7, JobStep

\* The locals with which an operation begins.
LEMMA Begins ==
  ASSUME NEW op \in Ops, NEW p \in PCs, NEW i \in Nat, NEW h \in Int
  PROVE  /\ Begin(op, p, i, h) \in Job /\ Begin(op, p, i, h).op = op /\ Begin(op, p, i, h).pc = p
         /\ Begin(op, p, i, h).id = i /\ Begin(op, p, i, h).lo = -1 /\ Begin(op, p, i, h).hi = h
         /\ Begin(op, p, i, h).set = {}
BY SMT DEF Begin, Job, PCs

\* An operation begins.
LEMMA StartKeeps ==
  IInv => \A c \in Clients : Start(c) => IInv'
\* The operations of a client.
<1>1. ASSUME Types, NEW c \in Clients
      PROVE  plan.ops[c] \subseteq Ops
  <2> USE <1>1
  <2>1. plan.ops \in [Clients -> SUBSET Ops]
    BY InstanceValid DEF Types
  <2>2. QED BY <2>1
<1>2. ASSUME IInv, NEW c \in Clients, Start(c)
      PROVE  IInv'
  <2> USE <1>2
  <2>1. /\ job[c] = Idle /\ UNCHANGED <<now, Storage, state, load, acked, plan>>
        /\ load' = load /\ state' = state /\ markers' = markers /\ plan' = plan /\ acked' = acked
    BY DEF Start, Storage
  <2>2. /\ job \in [Clients -> Job] /\ writes \in Nat /\ plan.ops[c] \subseteq Ops /\ Top(markers) \in Nat
        /\ \A x \in acked : x \in Entry /\ x[1] <= writes
    <3>1. Types /\ Acked
      BY DEF IInv
    <3>2. QED BY <3>1, <1>1, TopTypes DEF Types, Acked
  <2>3. load[c] = NoLoad
    <3>1. job[c].pc \notin {"state", "confirm"}
      BY <2>1, IdleFields
    <3>2. QED BY <3>1, NotLoading
  <2>4. "state" \in PCs /\ 0 \in Nat /\ -1 \in Int
    BY SMT DEF PCs
  <2>5. ASSUME NEW op \in plan.ops[c] \ {"write", "abort", "watermark", "advance"},
               Keep(c, Begin(op, "state", 0, -1)), UNCHANGED writes
        PROVE  IInv'
    <3> DEFINE j == Begin(op, "state", 0, -1)
    <3>1. j \in Job /\ j.op = op /\ j.pc = "state" /\ j.hi = -1
      <4>1. op \in Ops
        BY <2>2
      <4>2. QED BY <2>4, <4>1, Begins, SMTT(30)
    <3> HIDE DEF j
    <3>2. job' = [job EXCEPT ![c] = j] /\ job'[c] = j
      BY <2>2, <2>5 DEF Keep, j
    <3>3. op \in MaintenanceOps \cup {"read"} /\ op # "write" /\ op # "advance" /\ op # "watermark"
      BY <2>2 DEF Ops
    <3>4. Task(j, state[c], Top(markers), plan.ops[c])
      BY <3>1, <3>3 DEF Task
    <3>5. Tasks(c)'
      BY <2>1, <2>3, <3>2, <3>4 DEF Tasks
    <3>6. Writes(c)'
      BY <3>1, <3>2, <3>3 DEF Writes
    <3>7. Reads(c)'
      BY <3>1, <3>2 DEF Reads
    <3>8. writes' \in Nat /\ writes <= writes'
      BY <2>2, <2>5, SMTT(30)
    <3>9. ~(j.op \in {"single", "range"} /\ j.pc = "put") /\ j.op # "write"
      BY <3>1, <3>3
    <3>10. QED BY <2>1, <3>1, <3>2, <3>5, <3>6, <3>7, <3>8, <3>9, JobStep
  <2>6. ASSUME writes' = writes + 1, Keep(c, Begin("write", "state", writes + 1, -1)) PROVE IInv'
    <3> DEFINE j == Begin("write", "state", writes + 1, -1)
    <3>1. /\ j \in Job /\ j.op = "write" /\ j.pc = "state" /\ j.id = writes + 1 /\ j.lo = -1 /\ j.hi = -1
          /\ j.set = {}
      <4>1. "write" \in Ops /\ writes + 1 \in Nat
        BY <2>2, SMT DEF Ops
      <4>2. QED BY <2>4, <4>1, Begins, SMTT(30)
    <3> HIDE DEF j
    <3>2. job' = [job EXCEPT ![c] = j] /\ job'[c] = j
      BY <2>2, <2>6 DEF Keep, j
    <3>3. Task(j, state[c], Top(markers), plan.ops[c])
      BY <3>1 DEF Task, MaintenanceOps
    <3>4. Tasks(c)'
      BY <2>1, <2>3, <3>2, <3>3, <3>1 DEF Tasks
    <3>5. Reads(c)'
      BY <3>1, <3>2 DEF Reads
    <3>6. writes' \in Nat /\ writes <= writes' /\ writes < j.id /\ j.id \in 1 .. writes'
      BY <2>2, <2>6, <3>1, SMT
    <3>7. Mine(c)' \cap acked' = {}
      <4>1. \A x \in Mine(c)' : x[1] = writes + 1
        BY <3>1, <3>2, SMTT(30) DEF Mine
      <4>2. \A x \in acked : x[1] # writes + 1
        <5>1. TAKE x \in acked
        <5>2. x[1] \in Int /\ x[1] <= writes
          BY <2>2 DEF Entry
        <5>3. QED BY <2>2, <5>2, SMTT(30)
      <4>3. QED BY <2>1, <4>1, <4>2
    <3>8. Writes(c)'
      <4>1. -1 <= j.lo /\ j.lo <= Top(markers)
        BY <2>2, <3>1, SMTT(30)
      <4>2. j.pc \in {"state", "shard", "put", "confirm"} /\ j.pc # "confirm" /\ j.set \subseteq Shards /\ ~(j.pc # "state")
        BY <3>1
      <4>3. QED BY <2>1, <3>1, <3>2, <3>6, <3>7, <4>1, <4>2 DEF Writes
    <3>9. ~(j.op \in {"single", "range"} /\ j.pc = "put")
      BY <3>1
    <3>10. QED BY <2>1, <3>1, <3>2, <3>4, <3>5, <3>6, <3>8, <3>9, JobStep
  <2>7. ASSUME "watermark" \in plan.ops[c], NEW t \in WatermarkTimes, Keep(c, Begin("watermark", "state", 0, t)),
               UNCHANGED writes
        PROVE  IInv'
    <3> DEFINE j == Begin("watermark", "state", 0, t)
    <3>1. j \in Job /\ j.op = "watermark" /\ j.hi \in Nat
      <4>1. t \in Nat /\ t \in Int /\ "watermark" \in Ops
        BY <2>2, <2>7, InstanceValid, SMTT(30)
      <4>2. QED BY <2>4, <4>1, Begins, SMTT(30)
    <3> HIDE DEF j
    <3>2. Task(j, state[c], Top(markers), plan.ops[c]) /\ j.op \in MaintenanceOps /\ ~(j.op \in {"single", "range"})
      BY <2>7, <3>1 DEF Task, MaintenanceOps
    <3>3. UNCHANGED <<now, Storage, state, load, writes, acked, plan>>
      BY <2>1, <2>7
    <3>4. QED BY <2>3, <2>7, <3>1, <3>2, <3>3, TaskStep DEF j
  <2>8. QED BY <2>5, <2>6, <2>7 DEF Start
<1>3. QED BY <1>2

-----------------------------------------------------------------------------
(* Maintenance tasks, up to what they change in the storage. *)

\* The end of an operation that leaves everything as it is.
LEMMA FinishStep ==
  ASSUME IInv, NEW c \in Clients, load[c] = NoLoad, Finish(c),
         UNCHANGED <<now, Storage, state, load, writes, acked, plan>>
  PROVE  IInv'
<1>1. /\ job' = [job EXCEPT ![c] = Idle] /\ writes' = writes /\ load' = load
      /\ UNCHANGED <<now, Storage, state, load, acked, plan>>
  BY DEF Finish, Keep
<1>2. job \in [Clients -> Job] /\ writes \in Nat
  BY DEF IInv, Types
<1>3. job'[c] = Idle /\ load'[c] = Invalid
  BY <1>1, <1>2, InvalidFields
<1>4. Tasks(c)' /\ Writes(c)' /\ Reads(c)'
  BY <1>3, IdleKeeps
<1>5. writes' \in Nat /\ writes <= writes'
  BY <1>1, <1>2, SMT
<1>6. Idle \in Job /\ ~(Idle.op \in {"single", "range"}) /\ Idle.op # "write"
  BY IdleFields
<1>7. QED BY <1>1, <1>4, <1>5, <1>6, JobStep

\* The ranges of a snapshot end at or before RangeEnd.
LEMMA RangeEndBound ==
  ASSUME NEW cs \in Snapshot, NEW n \in Nat, \A b \in cs.sets : b.hi <= n
  PROVE  /\ RangeEnd(cs) \in Int /\ -1 <= RangeEnd(cs)
         /\ \A b \in OfType(cs.sets, "xr") : b.hi \in Nat /\ b.hi <= RangeEnd(cs)
<1> DEFINE R == OfType(cs.sets, "xr")
           H == {b.hi : b \in R}
<1>1. R \subseteq cs.sets /\ cs.sets \subseteq Blobs
  BY DEF OfType, Snapshot
<1>2. \A b \in R : b.hi \in Nat /\ b.hi <= n
  BY <1>1 DEF Blobs
<1>3. H \subseteq Nat /\ Bounded(H)
  BY <1>2 DEF Bounded
<1>4. End(R) \in Nat /\ \A y \in H : y <= End(R)
  BY <1>3, TopIsBound DEF End
<1>5. \A b \in R : b.hi <= End(R)
  BY <1>4
<1>6. CASE R = {}
  BY <1>6, SMT DEF RangeEnd
<1>7. CASE R # {}
  <2>1. RangeEnd(cs) = End(R)
    BY <1>7 DEF RangeEnd
  <2>2. End(R) \in Int /\ -1 <= End(R)
    <3> HIDE DEF R
    <3>1. QED BY <1>4, SMT
  <2>3. QED BY <1>2, <1>5, <2>1, <2>2
<1>8. QED BY <1>6, <1>7

\* What an operation finds in the snapshot of its client.
LEMMA SnapshotFacts ==
  ASSUME IInv, NEW c \in Clients
  PROVE  /\ state[c] \in Snapshot /\ load[c] \in Snapshot /\ job[c] \in Job
         /\ Sound(state[c], plan.ops[c], index, Top(markers), Watermark(marks), now, acked)
         /\ state[c].writeEpoch \in Nat /\ Top(markers) \in Nat /\ state[c].writeEpoch <= Top(markers)
         /\ \A b \in state[c].sets : /\ b \in index /\ b \in Blobs /\ b.type # "xn" /\ b.lo <= b.hi
                                     /\ b.hi <= state[c].writeEpoch - 2 /\ b.hi <= state[c].writeEpoch
<1>1. /\ Types /\ Ordered(index, Top(markers), now)
      /\ Sound(state[c], plan.ops[c], index, Top(markers), Watermark(marks), now, acked)
  BY DEF IInv, Snapshots
<1>2. /\ state[c] \in Snapshot /\ load[c] \in Snapshot /\ job[c] \in Job /\ index \in SUBSET Blobs
      /\ Top(markers) \in Nat
  BY <1>1, TopTypes DEF Types
<1>3. state[c].writeEpoch \in Nat
  BY <1>2 DEF Snapshot
<1>4. state[c].writeEpoch <= Top(markers)
  BY <1>1 DEF Sound, Based
<1>5. ASSUME NEW b \in state[c].sets
      PROVE  /\ b \in index /\ b \in Blobs /\ b.type # "xn" /\ b.lo <= b.hi
             /\ b.hi <= state[c].writeEpoch - 2 /\ b.hi <= state[c].writeEpoch
  <2>1. b \in index /\ b.type # "xn" /\ b.hi <= state[c].writeEpoch - 2
    BY <1>1 DEF Sound, Based
  <2>2. b \in Blobs /\ b.lo <= b.hi
    BY <1>1, <1>2, <2>1 DEF Ordered
  <2>3. b.hi \in Nat
    BY <2>2 DEF Blobs
  <2>4. b.hi <= state[c].writeEpoch
    BY <1>3, <2>1, <2>3, SMTT(30)
  <2>5. QED BY <2>1, <2>2, <2>4
<1>6. QED BY <1>1, <1>2, <1>3, <1>4, <1>5

\* A snapshot that is fresh enough is one.
LEMMA FreshIsValid ==
  ASSUME IInv, NEW c \in Clients, Fresh(c, 0) \/ Fresh(c, 3)
  PROVE  now <= state[c].validUntil /\ state[c].validUntil >= 0
<1>1. now \in Nat /\ state[c] \in Snapshot
  BY DEF IInv, Types
<1>2. state[c].validUntil \in Int
  BY <1>1 DEF Snapshot
<1>3. \/ 4 * now + 0 * EpochRefreshFrequency <= 4 * state[c].validUntil
      \/ 4 * now + 3 * EpochRefreshFrequency <= 4 * state[c].validUntil
  BY DEF Fresh
<1>4. EpochRefreshFrequency \in Nat
  BY ParametersValid DEF Validate
<1>5. QED BY <1>1, <1>2, <1>3, <1>4, SMTT(30)

Moved(j, p) == [j EXCEPT !.pc = p]

Taking(j, p, l, h) == [j EXCEPT !.pc = p, !.lo = l, !.hi = h]

Looking(j, p, h, F) == [j EXCEPT !.pc = p, !.hi = h, !.first = F]

Gathered(j, p, S) == [j EXCEPT !.pc = p, !.set = S]

\* The locals of an operation that only goes on to its next step.
LEMMA MovedFields ==
  ASSUME NEW j \in Job, NEW p \in PCs
  PROVE  /\ Moved(j, p) \in Job /\ Moved(j, p).op = j.op /\ Moved(j, p).pc = p
         /\ Moved(j, p).id = j.id /\ Moved(j, p).lo = j.lo /\ Moved(j, p).hi = j.hi
         /\ Moved(j, p).set = j.set
<1>1. Moved(j, p) \in Job
  BY DEF Moved, Job, PCs
<1>2. QED BY <1>1 DEF Moved, Job, PCs

\* A task decides from a snapshot what to do.
LEMMA PrepareKeeps ==
  IInv => \A c \in Clients :
    Advance(c) \/ CompactState(c) \/ RangeState(c) \/ CleanupState(c) \/ WatermarkState(c) => IInv'
\* The oldest uncompacted epoch has no compaction in the snapshot: the epochs looked at go beyond
\* the last compacted one.
<1>1. ASSUME NEW cs \in Snapshot, NEW n \in Nat, \A b \in cs.sets : b.lo <= b.hi /\ b.hi <= n
      PROVE  oldestUncompactedEpoch(cs) \in Nat /\ ~Has(cs, oldestUncompactedEpoch(cs))
  <2> USE <1>1
  <2> DEFINE done == {b.lo : b \in OfType(cs.sets, "xs")}
             from == RangeEnd(cs) + 1
             last == Max(done \cup {from})
             free == (from .. last + 1) \ done
  <2>1. from \in Nat
    BY RangeEndBound, SMT
  <2>2. done \subseteq 0 .. n
    BY SMT DEF OfType, Snapshot, Blobs
  <2>3. last \in Nat /\ from <= last /\ \A e \in done : e <= last
    <3> HIDE DEF from, done
    <3>1. done \cup {from} \subseteq Nat /\ done \cup {from} # {}
      BY <2>1, <2>2, SMT
    <3>2. n + from \in Nat /\ \A e \in done \cup {from} : e <= n + from
      BY <2>1, <2>2, SMT
    <3>3. last \in done \cup {from} /\ \A e \in done \cup {from} : last >= e
      BY <3>1, <3>2, MaxIsGreatest
    <3> HIDE DEF last
    <3>4. QED BY <3>1, <3>3, SMT
  <2>4. free \subseteq Nat /\ free # {}
    <3> HIDE DEF from, done, last
    <3>1. last + 1 \in from .. last + 1 /\ last + 1 \notin done /\ from .. last + 1 \subseteq Nat
      BY <2>1, <2>3, SMT
    <3>2. QED BY <3>1
  <2>5. Min(free) \in free
    <3> HIDE DEF free
    <3>1. QED BY <2>4, MinIsLeast
  <2>6. oldestUncompactedEpoch(cs) = Min(free)
    BY DEF oldestUncompactedEpoch
  <2>7. Min(free) \in Nat /\ Min(free) \notin done
    BY <2>4, <2>5
  <2>8. QED BY <2>6, <2>7 DEF Has, OfType
<1>2. ASSUME NEW j \in Job, NEW p \in PCs, NEW l \in Int, NEW h \in Int
      PROVE  /\ Taking(j, p, l, h) \in Job /\ Taking(j, p, l, h).op = j.op /\ Taking(j, p, l, h).pc = p
             /\ Taking(j, p, l, h).lo = l /\ Taking(j, p, l, h).hi = h
  <2> USE <1>2
  <2>1. Taking(j, p, l, h) \in Job
    BY DEF Taking, Job, PCs
  <2>2. QED BY <2>1 DEF Taking, Job, PCs
<1>3. ASSUME IInv, NEW c \in Clients, Advance(c)
      PROVE  IInv'
  <2> USE <1>3
  <2> DEFINE j == Begin("advance", "put", 0, state[c].writeEpoch + 1)
  <2>1. state[c].writeEpoch + 1 \in Nat
    BY SnapshotFacts, SMT
  <2>2. /\ Keep(c, j) /\ "advance" \in plan.ops[c] /\ job[c] = Idle
        /\ UNCHANGED <<now, Storage, state, load, writes, acked, plan>>
    BY DEF Advance
  <2>3. j \in Job /\ j.op = "advance" /\ j.hi \in Nat
    <3>1. "advance" \in Ops /\ "put" \in PCs /\ 0 \in Nat /\ state[c].writeEpoch + 1 \in Int
      BY <2>1, SMT DEF Ops, MaintenanceOps, PCs
    <3>2. QED BY <2>1, <3>1, Begins, SMTT(30)
  <2> HIDE DEF j
  <2>4. load[c] = NoLoad
    <3>1. job[c].pc \notin {"state", "confirm"}
      BY <2>2, IdleFields
    <3>2. QED BY <3>1, NotLoading
  <2>5. Task(j, state[c], Top(markers), plan.ops[c])
    BY <2>2, <2>3 DEF Task
  <2>6. j.op \in MaintenanceOps /\ ~(j.op \in {"single", "range"})
    BY <2>3 DEF MaintenanceOps
  <2>7. QED BY <2>2, <2>3, <2>4, <2>5, <2>6, TaskStep
<1>4. ASSUME IInv, NEW c \in Clients, CompactState(c)
      PROVE  IInv'
  <2> USE <1>4
  <2> DEFINE e == oldestUncompactedEpoch(state[c])
             j == Taking(job[c], "list", e, e)
  <2>1. /\ load[c] = NoLoad /\ Fresh(c, 0) /\ job[c].op = "single"
        /\ UNCHANGED <<now, Storage, state, load, writes, acked, plan>>
    BY DEF CompactState, At
  <2>2. e \in Nat /\ ~Has(state[c], e)
    BY SnapshotFacts, <1>1
  <2> HIDE DEF e
  <2>3. CASE ~Settled(state[c], e)
    BY <2>1, <2>3, FinishStep DEF CompactState, e
  <2>4. CASE Settled(state[c], e)
    <3>1. Keep(c, j)
      BY <2>4 DEF CompactState, e, Taking
    <3>2. job[c] \in Job /\ "single" \in plan.ops[c]
      <4>1. job[c].op \in MaintenanceOps
        BY <2>1 DEF MaintenanceOps
      <4>2. QED BY <2>1, <4>1 DEF IInv, Types, Tasks, Task
    <3>3. j \in Job /\ j.op = "single" /\ j.pc = "list" /\ j.lo = e /\ j.hi = e
      <4>1. e \in Int /\ "list" \in PCs
        BY <2>2, SMTT(30) DEF PCs
      <4>2. QED BY <2>1, <3>2, <4>1, <1>2, SMTT(30)
    <3> HIDE DEF j
    <3>4. e <= Top(markers) - 2
      <4>1. state[c].writeEpoch \in Nat /\ Top(markers) \in Nat /\ state[c].writeEpoch <= Top(markers)
        BY SnapshotFacts
      <4>2. QED BY <2>2, <2>4, <4>1, SMTT(30) DEF Settled
    <3>6. state[c].validUntil >= 0
      BY <2>1, FreshIsValid
    <3>7. Task(j, state[c], Top(markers), plan.ops[c])
      <4>1. 0 <= e /\ e <= e
        BY <2>2, SMT
      <4>2. QED BY <2>2, <3>2, <3>3, <3>4, <3>6, <4>1 DEF Task
    <3>8. j.op \in MaintenanceOps /\ j.pc # "put"
      BY <3>3 DEF MaintenanceOps
    <3>9. QED BY <2>1, <3>1, <3>3, <3>7, <3>8, TaskStep
  <2>5. QED BY <2>3, <2>4
<1>5. ASSUME IInv, NEW c \in Clients, RangeState(c)
      PROVE  IInv'
  <2> USE <1>5
  <2> DEFINE first == RangeEnd(state[c]) + 1
             last == state[c].writeEpoch - 2
             j == Taking(job[c], "list", first, last)
  <2>1. /\ load[c] = NoLoad /\ Fresh(c, 0) /\ job[c].op = "range"
        /\ UNCHANGED <<now, Storage, state, load, writes, acked, plan>>
    BY DEF RangeState, At
  <2>2. state[c].writeEpoch \in Nat /\ Top(markers) \in Nat /\ state[c].writeEpoch <= Top(markers)
    BY SnapshotFacts
  <2>3. RangeEnd(state[c]) \in Int /\ -1 <= RangeEnd(state[c])
    BY SnapshotFacts, RangeEndBound
  <2>4. CASE ~(last >= 0 /\ last - first >= FullCheckpointFrequency)
    BY <2>1, <2>4, FinishStep DEF RangeState
  <2>5. CASE last >= 0 /\ last - first >= FullCheckpointFrequency
    <3>1. Keep(c, j)
      BY <2>5 DEF RangeState, Taking
    <3>2. job[c] \in Job /\ "range" \in plan.ops[c]
      <4>1. job[c].op \in MaintenanceOps
        BY <2>1 DEF MaintenanceOps
      <4>2. QED BY <2>1, <4>1 DEF IInv, Types, Tasks, Task
    <3>3. j \in Job /\ j.op = "range" /\ j.pc = "list" /\ j.lo = first /\ j.hi = last
      <4>1. first \in Int /\ last \in Int /\ "list" \in PCs
        BY <2>2, <2>3, SMTT(30) DEF PCs
      <4> HIDE DEF first, last
      <4>2. QED BY <2>1, <3>2, <4>1, <1>2, SMTT(30)
    <3>4. 0 <= first /\ first <= last /\ last <= Top(markers) - 2 /\ last > 0 /\ last <= state[c].writeEpoch - 2
      BY <2>2, <2>3, <2>5, ParametersValid, SMTT(30) DEF Validate
    <3>6. state[c].validUntil >= 0
      BY <2>1, FreshIsValid
    <3>7. first = RangeEnd(state[c]) + 1
      OBVIOUS
    <3> HIDE DEF j, first, last
    <3>8. Task(j, state[c], Top(markers), plan.ops[c])
      BY <3>2, <3>3, <3>4, <3>6, <3>7 DEF Task
    <3>9. j.op \in MaintenanceOps /\ j.pc # "put"
      BY <3>3 DEF MaintenanceOps
    <3>10. QED BY <2>1, <3>1, <3>3, <3>8, <3>9, TaskStep
  <2>6. QED BY <2>4, <2>5
<1>6. ASSUME IInv, NEW c \in Clients, CleanupState(c)
      PROVE  IInv'
  <2> USE <1>6
  <2> DEFINE j == Moved(job[c], "delete")
  <2>1. /\ load[c] = NoLoad /\ job[c].op \in {"superseded", "markers"}
        /\ UNCHANGED <<now, Storage, state, load, writes, acked, plan>>
    BY DEF CleanupState
  <2>2. CASE state[c].unc = {}
    BY <2>1, <2>2, FinishStep DEF CleanupState
  <2>3. CASE state[c].unc # {}
    <3>1. Keep(c, j)
      BY <2>3 DEF CleanupState, Step, Moved
    <3>2. job[c] \in Job /\ job[c].op \in MaintenanceOps /\ job[c].op \in plan.ops[c]
      <4>1. job[c].op \in MaintenanceOps
        BY <2>1 DEF MaintenanceOps
      <4>2. QED BY <2>1, <4>1 DEF IInv, Types, Tasks, Task
    <3>3. j \in Job /\ j.op = job[c].op /\ j.pc = "delete"
      <4>1. "delete" \in PCs
        BY DEF PCs
      <4>2. QED BY <2>1, <3>2, <4>1, MovedFields
    <3> HIDE DEF j
    <3>4. Task(j, state[c], Top(markers), plan.ops[c]) /\ ~(j.op \in {"single", "range"})
      BY <2>1, <2>3, <3>2, <3>3 DEF Task
    <3>5. QED BY <2>1, <3>1, <3>2, <3>3, <3>4, TaskStep
  <2>4. QED BY <2>2, <2>3
<1>7. ASSUME IInv, NEW c \in Clients, WatermarkState(c)
      PROVE  IInv'
  <2> USE <1>7
  <2> DEFINE j == Moved(job[c], "put")
  <2>1. /\ load[c] = NoLoad /\ job[c].op = "watermark"
        /\ UNCHANGED <<now, Storage, state, load, writes, acked, plan>>
    BY DEF WatermarkState, At
  <2>2. CASE job[c].hi < Watermark(state[c].marks)
    BY <2>1, <2>2, FinishStep DEF WatermarkState
  <2>3. CASE ~(job[c].hi < Watermark(state[c].marks))
    <3>1. Keep(c, j)
      BY <2>3 DEF WatermarkState, Step, Moved
    <3>2. job[c] \in Job /\ job[c].op \in MaintenanceOps /\ job[c].op \in plan.ops[c] /\ job[c].hi \in Nat
      <4>1. job[c].op \in MaintenanceOps
        BY <2>1 DEF MaintenanceOps
      <4>2. QED BY <2>1, <4>1 DEF IInv, Types, Tasks, Task
    <3>3. j \in Job /\ j.op = "watermark" /\ j.hi \in Nat
      <4>1. "put" \in PCs
        BY DEF PCs
      <4>2. QED BY <2>1, <3>2, <4>1, MovedFields
    <3> HIDE DEF j
    <3>4. Task(j, state[c], Top(markers), plan.ops[c]) /\ ~(j.op \in {"single", "range"})
      BY <2>1, <3>2, <3>3 DEF Task
    <3>5. QED BY <2>1, <3>1, <3>2, <3>3, <3>4, TaskStep
  <2>4. QED BY <2>2, <2>3
<1>8. QED BY <1>3, <1>4, <1>5, <1>6, <1>7

-----------------------------------------------------------------------------
(* The index set of a snapshot. *)

\* Every epoch up to the end of the ranges is in one: a least one that is not would follow a
\* range that ends before it.
LEMMA ChainCovers ==
  ASSUME NEW R \in SUBSET Blobs, R # {}, Linked(R), NEW n \in Nat,
         \A b \in R : b.lo <= b.hi /\ b.hi <= n, NEW e \in Nat, e <= End(R)
  PROVE  \E b \in R : b.lo <= e /\ e <= b.hi
<1> DEFINE H == {b.hi : b \in R}
           B == {b \in R : e <= b.hi}
           L == {b.lo : b \in B}
<1>0. \A b \in R : b.lo \in Nat /\ b.hi \in Nat
  BY DEF Blobs
<1>1. B # {}
  <2>1. H \subseteq Nat /\ Bounded(H)
    BY <1>0 DEF Bounded
  <2>2. End(R) \in Nat /\ End(R) \in H \cup {0}
    BY <2>1, TopIsBound DEF End
  <2>3. CASE End(R) \in H
    <3>1. PICK b \in R : b.hi = End(R)
      BY <2>3
    <3>2. QED BY <3>1
  <2>4. CASE End(R) = 0
    <3>1. PICK b \in R : TRUE
      OBVIOUS
    <3>2. b.hi \in Nat
      BY <1>0
    <3>3. e <= b.hi
      BY <2>4, <3>2, SMT
    <3>4. QED BY <3>3
  <2>5. QED BY <2>2, <2>3, <2>4
<1>2. PICK k \in L : \A l \in L : k <= l
  <2>1. L \subseteq Nat /\ L # {}
    BY <1>0, <1>1
  <2> HIDE DEF L
  <2>2. QED BY <2>1, LeastNumber
<1>3. PICK b \in B : b.lo = k
  BY <1>2
<1>4. ASSUME e < b.lo PROVE FALSE
  <2>1. b \in R /\ b.lo \in Nat /\ b.lo # 0
    BY <1>0, <1>3, <1>4, SMT
  <2>2. PICK p \in R : p.hi + 1 = b.lo
    BY <2>1 DEF Linked
  <2>3. p.hi \in Nat /\ p.lo \in Nat /\ p.lo <= p.hi
    BY <1>0
  <2>4. e <= p.hi
    BY <1>4, <2>1, <2>2, <2>3, SMT
  <2>5. b.lo <= p.lo
    BY <1>2, <1>3, <2>4
  <2>6. QED BY <2>1, <2>2, <2>3, <2>5, SMT
<1>5. b \in R /\ e <= b.hi /\ b.lo \in Nat
  BY <1>0, <1>3
<1>6. b.lo <= e
  BY <1>4, <1>5, SMT
<1>7. QED BY <1>5, <1>6

\* The blobs that stand for an epoch have what is held in it.
LEMMA EpochShows ==
  ASSUME NEW cs \in Snapshot, NEW e \in Nat, NEW x, InSets(index, x, e),
         \A b \in cs.sets : b \in index /\ (b.type = "xs" => b.hi = b.lo),
         ~(Settled(cs, e) /\ Has(cs, e)) /\ cs.writeEpoch - 1 <= e /\ e <= cs.writeEpoch + 1 =>
           \E b \in cs.unc \cap index : b.type = "xn" /\ b.lo = e /\ x \in b.entries,
         ~(Settled(cs, e) /\ Has(cs, e)) /\ ~(cs.writeEpoch - 1 <= e /\ e <= cs.writeEpoch + 1) => Raw(index, x, e)
  PROVE  \E b \in EpochIndexes(cs, e) \cap index : x \in b.entries
<1> DEFINE single == {b \in cs.sets : b.type = "xs" /\ b.lo = e}
<1>1. Has(cs, e) <=> single # {}
  BY DEF Has
<1>2. e \in cs.writeEpoch - 1 .. cs.writeEpoch + 1 <=> cs.writeEpoch - 1 <= e /\ e <= cs.writeEpoch + 1
  BY SMT DEF Snapshot
<1>3. CASE Settled(cs, e) /\ single # {}
  <2>1. EpochIndexes(cs, e) = single
    BY <1>3 DEF EpochIndexes
  <2>2. PICK b \in single : TRUE
    BY <1>3
  <2>3. b \in index /\ b.type = "xs" /\ b.lo = e /\ b.hi = e
    BY <2>2
  <2>4. b.type # "xn" /\ b.lo <= e /\ e <= b.hi
    BY <2>3, SMT
  <2>5. x \in b.entries
    BY <2>3, <2>4 DEF InSets
  <2>6. QED BY <2>1, <2>2, <2>3, <2>5
<1>4. CASE ~(Settled(cs, e) /\ single # {}) /\ e \in cs.writeEpoch - 1 .. cs.writeEpoch + 1
  <2>1. EpochIndexes(cs, e) = Uncompacted(cs.unc, e)
    BY <1>4 DEF EpochIndexes
  <2>2. PICK b \in cs.unc \cap index : b.type = "xn" /\ b.lo = e /\ x \in b.entries
    BY <1>1, <1>2, <1>4
  <2>3. QED BY <2>1, <2>2 DEF Uncompacted
<1>5. CASE ~(Settled(cs, e) /\ single # {}) /\ e \notin cs.writeEpoch - 1 .. cs.writeEpoch + 1
  <2>1. EpochIndexes(cs, e) = Uncompacted(index, e)
    BY <1>5 DEF EpochIndexes
  <2>2. Raw(index, x, e)
    BY <1>1, <1>2, <1>5
  <2>3. QED BY <2>1, <2>2 DEF Uncompacted, Raw
<1>6. QED BY <1>3, <1>4, <1>5

\* From epoch 0 on the set has what is held in any of its epochs.
LEMMA SetShows ==
  ASSUME NEW cs \in Snapshot, NEW n \in Nat, Linked(OfType(cs.sets, "xr")),
         \A b \in cs.sets : b \in index /\ b.type # "xn" /\ b.lo <= b.hi /\ b.hi <= n /\ (b.type = "xr" => b.hi > 0),
         NEW m \in Int, NEW e \in 0 .. m, NEW x, InSets(index, x, e),
         \E b \in EpochIndexes(cs, e) \cap index : x \in b.entries
  PROVE  x \in Entries(CompleteIndexSet(cs, 0, m) \cap index)
<1> DEFINE R == OfType(cs.sets, "xr")
           ranges == {b \in cs.sets : b.type = "xr" /\ b.hi > 0}
           start == IF ranges = {} THEN 0 ELSE End(ranges) + 1
<1>1. ranges = R
  BY DEF OfType
<1>2. R \in SUBSET Blobs /\ e \in Nat
  BY SMT DEF Snapshot, OfType
<1>3. CompleteIndexSet(cs, 0, m) = ranges \cup UNION {EpochIndexes(cs, f) : f \in start .. m}
  BY DEF CompleteIndexSet
<1>4. CASE R # {} /\ e <= End(R)
  <2>1. \A b \in R : b \in cs.sets /\ b.lo <= b.hi /\ b.hi <= n
    BY DEF OfType
  <2>2. PICK b \in R : b.lo <= e /\ e <= b.hi
    BY <1>2, <1>4, <2>1, ChainCovers
  <2>3. b \in index /\ b.type # "xn"
    BY <2>1
  <2>4. x \in b.entries
    BY <2>2, <2>3 DEF InSets
  <2>5. b \in CompleteIndexSet(cs, 0, m)
    BY <1>1, <1>3, <2>2
  <2>6. QED BY <2>3, <2>4, <2>5 DEF Entries
<1>5. CASE ~(R # {} /\ e <= End(R))
  <2>1. e \in start .. m
    <3>1. CASE R = {}
      <4>1. start = 0
        BY <1>1, <3>1
      <4> HIDE DEF start
      <4>2. QED BY <4>1
    <3>2. CASE R # {} /\ ~(e <= End(R))
      <4>1. start = End(R) + 1
        BY <1>1, <3>2
      <4>2. End(R) \in Nat
        <5>1. \A b \in R : b.hi \in Nat /\ b.hi <= n
          BY <1>2 DEF Blobs, OfType
        <5>2. {b.hi : b \in R} \subseteq Nat /\ Bounded({b.hi : b \in R})
          BY <5>1 DEF Bounded
        <5>3. QED BY <5>2, TopIsBound DEF End
      <4> HIDE DEF start, R
      <4>3. QED BY <1>2, <3>2, <4>1, <4>2, SMTT(30)
    <3>3. QED BY <1>5, <3>1, <3>2
  <2>2. PICK b \in EpochIndexes(cs, e) \cap index : x \in b.entries
    OBVIOUS
  <2>3. b \in CompleteIndexSet(cs, 0, m)
    BY <1>3, <2>1, <2>2
  <2>4. QED BY <2>2, <2>3 DEF Entries
<1>6. QED BY <1>4, <1>5

\* The snapshot of a process that opens the repository now.
Opened(w, s, u) == [Invalid EXCEPT !.writeEpoch = w, !.sets = s, !.unc = u]

\* A process that opens the repository now finds every entry that is held.
LEMMA OpeningFinds ==
  IInv => NothingLost
<1>1. ASSUME NEW w \in Nat, NEW s \in SUBSET Blobs, NEW u \in SUBSET Blobs
      PROVE  /\ Opened(w, s, u) \in Snapshot
             /\ Opened(w, s, u).writeEpoch = w /\ Opened(w, s, u).sets = s /\ Opened(w, s, u).unc = u
  <2> USE <1>1
  <2>1. Invalid \in Snapshot
    BY InvalidFields
  <2>2. QED BY <2>1 DEF Opened, Snapshot
\* It shows every entry that is held.
<1>2. ASSUME IInv
      PROVE  NothingLost
  <2> USE <1>2
  <2> SUFFICES ASSUME NEW singles \in FindFirst(OfType(index, "xs")), NEW all \in FindFirst(OfType(index, "xr")),
                      NEW ranges \in findLongestRangeCheckpoint(all), NEW x \in acked
               PROVE  x \in Entries(CompleteIndexSet(Opened(Top(markers), singles \cup ranges, index),
                                                     0, Top(markers) + 1))
    BY DEF NothingLost, Opened
  <2> DEFINE cs == Opened(Top(markers), singles \cup ranges, index)
  <2>1. /\ Ordered(index, Top(markers), now) /\ index \in SUBSET Blobs /\ Top(markers) \in Nat
    BY TopTypes DEF IInv, Types
  <2>2. /\ singles \subseteq index /\ ranges \subseteq index /\ Linked(ranges)
        /\ \A b \in singles : b.type = "xs"
        /\ \A b \in ranges : b.type = "xr"
        /\ OfType(singles \cup ranges, "xr") = ranges
        /\ \A b \in index : b.type = "xs" => \E p \in singles : p.type = "xs" /\ p.lo = b.lo
    BY ChosenSets, SMTT(30)
  <2>3. cs \in Snapshot /\ cs.writeEpoch = Top(markers) /\ cs.sets = singles \cup ranges /\ cs.unc = index
    <3>1. singles \cup ranges \in SUBSET Blobs
      BY <2>1, <2>2
    <3>2. QED BY <2>1, <3>1, <1>1, SMTT(30)
  <2> HIDE DEF cs
  <2>4. PICK e \in 0 .. Top(markers) : Held(x, e)
    BY DEF IInv, Acked
  <2>5. e \in Nat /\ e \in 0 .. Top(markers) + 1 /\ Top(markers) + 1 \in Int
    BY <2>1, SMTT(30)
  <2>6. \A b \in cs.sets : /\ b \in index /\ b \in Blobs /\ b.type # "xn" /\ b.lo <= b.hi /\ b.hi <= Top(markers) - 2
                           /\ (b.type = "xr" => b.hi > 0) /\ (b.type = "xs" => b.hi = b.lo)
    <3>1. "xs" # "xn" /\ "xr" # "xn"
      OBVIOUS
    <3>2. QED BY <2>1, <2>2, <2>3, <3>1 DEF Ordered
  <2>7. \A b \in cs.sets : b.hi <= Top(markers)
    <3>1. TAKE b \in cs.sets
    <3>2. b.hi \in Nat /\ b.hi <= Top(markers) - 2
      BY <2>6 DEF Blobs
    <3>3. QED BY <2>1, <3>2, SMTT(30)
  <2>8. ASSUME ~(Settled(cs, e) /\ Has(cs, e)) PROVE Raw(index, x, e)
    <3>1. ASSUME Gone(e) PROVE FALSE
      <4>1. Has(cs, e)
        BY <2>2, <2>3, <3>1 DEF Gone, Old, Has
      <4>2. e <= Top(markers) - 2
        BY <2>1, <3>1, OldSettled DEF Gone
      <4>3. QED BY <2>3, <2>8, <4>1, <4>2 DEF Settled
    <3>2. QED BY <2>4, <3>1 DEF Held
  <2>9. InSets(index, x, e)
    BY <2>4 DEF Held
  <2>10. ~(Settled(cs, e) /\ Has(cs, e)) => \E b \in cs.unc \cap index : b.type = "xn" /\ b.lo = e /\ x \in b.entries
    BY <2>3, <2>8 DEF Raw
  <2>11. \E b \in EpochIndexes(cs, e) \cap index : x \in b.entries
    BY <2>3, <2>5, <2>6, <2>8, <2>9, <2>10, EpochShows
  <2>12. Linked(OfType(cs.sets, "xr"))
    BY <2>2, <2>3
  <2>13. x \in Entries(CompleteIndexSet(cs, 0, Top(markers) + 1) \cap index)
    BY <2>1, <2>3, <2>5, <2>6, <2>7, <2>9, <2>11, <2>12, SetShows
  <2>14. QED BY <2>13 DEF Entries, cs
<1>3. QED BY <1>2

\* It consists of blobs of the storage and of the snapshot.
LEMMA SetIsOfBlobs ==
  ASSUME NEW cs \in Snapshot, index \in SUBSET Blobs, NEW m, NEW n
  PROVE  CompleteIndexSet(cs, m, n) \subseteq Blobs
<1>1. cs.sets \subseteq Blobs /\ cs.unc \subseteq Blobs
  BY DEF Snapshot
<1>2. \A e : EpochIndexes(cs, e) \subseteq Blobs
  BY <1>1 DEF EpochIndexes, Uncompacted
<1>3. QED BY <1>1, <1>2 DEF CompleteIndexSet

\* The locals of an operation that has listed blobs.
LEMMA GatheredFields ==
  ASSUME NEW j \in Job, NEW p \in PCs, NEW S \in SUBSET (Blobs \cup Entry \cup Shards)
  PROVE  /\ Gathered(j, p, S) \in Job /\ Gathered(j, p, S).op = j.op /\ Gathered(j, p, S).pc = p
         /\ Gathered(j, p, S).id = j.id /\ Gathered(j, p, S).lo = j.lo /\ Gathered(j, p, S).hi = j.hi
         /\ Gathered(j, p, S).set = S /\ Gathered(j, p, S).first = j.first
<1>1. Gathered(j, p, S) \in Job
  BY DEF Gathered, Job, PCs
<1>2. QED BY <1>1 DEF Gathered, Job, PCs

-----------------------------------------------------------------------------
(* Reads. *)

\* A read.
LEMMA ReadKeeps ==
  IInv => \A c \in Clients : Read(c) => IInv'
<1>1. ASSUME NEW j \in Job, NEW p \in PCs, NEW h \in Int, NEW F \in SUBSET Entry
      PROVE  /\ Looking(j, p, h, F) \in Job /\ Looking(j, p, h, F).op = j.op /\ Looking(j, p, h, F).pc = p
             /\ Looking(j, p, h, F).hi = h /\ Looking(j, p, h, F).first = F
  <2> USE <1>1
  <2>1. Looking(j, p, h, F) \in Job
    BY DEF Looking, Job, PCs
  <2>2. QED BY <2>1 DEF Looking, Job, PCs
\* It has no uncompacted blob of an epoch whose compaction the snapshot shows.
<1>2. ASSUME NEW cs, \A b \in cs.sets : b.type # "xn", \A e : Has(cs, e) => Settled(cs, e), NEW m, NEW n,
             NEW b \in CompleteIndexSet(cs, m, n), b.type = "xn"
      PROVE  ~Has(cs, b.lo)
  <2> USE <1>2
  <2>1. PICK e : b \in EpochIndexes(cs, e)
    BY DEF CompleteIndexSet
  <2>2. b \notin {s \in cs.sets : s.type = "xs" /\ s.lo = e}
    OBVIOUS
  <2>3. ~(Settled(cs, e) /\ {s \in cs.sets : s.type = "xs" /\ s.lo = e} # {})
    BY <2>1, <2>2 DEF EpochIndexes
  <2>4. b \in Uncompacted(cs.unc, e) \/ b \in Uncompacted(index, e)
    BY <2>1, <2>3 DEF EpochIndexes
  <2>5. b.lo = e
    BY <2>4 DEF Uncompacted
  <2>6. QED BY <2>3, <2>5 DEF Has
\* A step that changes nothing but the locals of a read.
<1>3. ASSUME IInv, NEW c \in Clients, job[c].op = "read", NEW j \in Job, j.op = "read", Keep(c, j), load[c] = NoLoad,
             UNCHANGED <<now, Storage, state, load, writes, acked, plan>>,
             j.pc \in {"list", "check"} => j.hi # -1,
             j.hi # -1 => /\ j.hi \in Nat /\ j.first \subseteq acked
                          /\ \A x \in j.first : \E e \in 0 .. j.hi : Held(x, e) /\ Unc(state[c], index, now, x, e),
             j.pc = "check" => /\ j.set \subseteq Blobs /\ \A b \in j.set : b.type = "xn" => ~Has(state[c], b.lo)
                               /\ now < state[c].validUntil => j.first \subseteq Entries(j.set \cap index)
      PROVE  IInv'
  <2> USE <1>3
  <2>1. /\ job' = [job EXCEPT ![c] = j] /\ writes' = writes /\ load' = load /\ state' = state
        /\ markers' = markers /\ plan' = plan /\ index' = index /\ now' = now /\ acked' = acked
        /\ UNCHANGED <<now, Storage, state, load, acked, plan>>
    BY DEF Keep, Storage
  <2>2. job \in [Clients -> Job] /\ writes \in Nat
    BY DEF IInv, Types
  <2>3. job'[c] = j /\ \A d \in Clients \ {c} : job'[d] = job[d]
    BY <2>1, <2>2
  <2>4. j.op # "write" /\ ~(j.op \in {"single", "range"})
    OBVIOUS
  <2>5. ASSUME NEW x, NEW e, Held(x, e) PROVE Held(x, e)'
    <3>1. \A d \in Clients : Carried(job'[d], x, e)
      BY <2>3, <2>4, <2>5 DEF Held, Carried
    <3>2. QED BY <2>1, <2>5, <3>1 DEF Held, Gone, Compacts
  <2>6. Reads(c)'
    BY <2>1, <2>3, <2>5 DEF Reads
  <2>7. Tasks(c)'
    <3>1. "read" \in plan.ops[c]
      BY DEF IInv, Tasks, Task
    <3>2. Task(j, state[c], Top(markers), plan.ops[c])
      BY <3>1 DEF Task
    <3>3. QED BY <2>1, <2>3, <3>2 DEF Tasks
  <2>8. Writes(c)'
    BY <2>3, <2>4 DEF Writes
  <2>9. writes' \in Nat /\ writes <= writes'
    BY <2>1, <2>2, SMTT(30)
  <2>10. QED BY <2>1, <2>4, <2>6, <2>7, <2>8, <2>9, JobStep
<1>4. ASSUME IInv, NEW c \in Clients, ReadState(c)
      PROVE  IInv'
  <2> USE <1>4
  <2> DEFINE cs == state[c]
             hi == IF job[c].hi = -1 THEN cs.writeEpoch + 1 ELSE job[c].hi
             first == IF job[c].hi = -1 THEN cs.seen ELSE job[c].first
             j == Looking(job[c], "list", hi, first)
  <2>1. /\ job[c].op = "read" /\ load[c] = NoLoad
        /\ UNCHANGED <<now, Storage, state, load, writes, acked, plan>>
        /\ Keep(c, j)
    BY DEF ReadState, At, Looking
  <2>2. cs \in Snapshot /\ job[c] \in Job /\ cs.writeEpoch \in Nat /\ cs.seen \subseteq acked
    BY SnapshotFacts DEF Sound, Based
  <2>3. hi \in Int /\ hi # -1 /\ first \in SUBSET Entry
    BY <2>2, SMTT(30) DEF Snapshot, Job
  <2>4. /\ hi \in Nat /\ first \subseteq acked
        /\ \A x \in first : \E e \in 0 .. hi : Held(x, e) /\ Unc(cs, index, now, x, e)
    <3>1. CASE job[c].hi = -1
      <4>1. hi = cs.writeEpoch + 1 /\ first = cs.seen
        BY <3>1
      <4>2. \A e \in 0 .. cs.writeEpoch : e \in 0 .. hi
        BY <2>2, <4>1, SMTT(30)
      <4>3. hi \in Nat
        BY <2>2, <4>1, SMTT(30)
      <4>4. \A x \in cs.seen : \E e \in 0 .. cs.writeEpoch : Held(x, e) /\ Unc(cs, index, now, x, e)
        BY DEF IInv, Shown
      <4>5. QED BY <2>2, <4>1, <4>2, <4>3, <4>4
    <3>2. CASE job[c].hi # -1
      BY <2>1, <3>2 DEF IInv, Reads
    <3>3. QED BY <3>1, <3>2
  <2> HIDE DEF hi, first
  <2>5. j \in Job /\ j.op = "read" /\ j.pc = "list" /\ j.hi = hi /\ j.first = first
    <3>1. "list" \in PCs
      BY DEF PCs
    <3>2. QED BY <2>1, <2>2, <2>3, <3>1, <1>1, SMTT(30)
  <2> HIDE DEF j
  <2>6. j.pc # "check"
    BY <2>5
  <2>7. QED BY <2>1, <2>3, <2>4, <2>5, <2>6, <1>3
\* The set a read gathers has all that its first snapshot had seen.
<1>5. ASSUME IInv, NEW c \in Clients, job[c].op = "read", job[c].pc = "list", now < state[c].validUntil
      PROVE  job[c].first \subseteq Entries(CompleteIndexSet(state[c], 0, job[c].hi) \cap index)
  <2> USE <1>5
  <2> DEFINE cs == state[c]
  <2>1. SUFFICES ASSUME NEW x \in job[c].first PROVE x \in Entries(CompleteIndexSet(cs, 0, job[c].hi) \cap index)
    OBVIOUS
  <2>2. /\ cs \in Snapshot /\ cs.writeEpoch \in Nat /\ index \in SUBSET Blobs /\ now \in Nat
        /\ Sound(cs, plan.ops[c], index, Top(markers), Watermark(marks), now, acked)
        /\ \A b \in cs.sets : b \in index /\ b.type # "xn" /\ b.lo <= b.hi /\ b.hi <= cs.writeEpoch
    BY SnapshotFacts DEF IInv, Types
  <2>3. /\ Based(cs, index, Top(markers), Watermark(marks), now, acked) /\ Current(cs, index, now)
        /\ Ordered(index, Top(markers), now)
    <3>1. "read" \in plan.ops[c]
      BY DEF IInv, Tasks, Task
    <3>2. QED BY <2>2, <3>1 DEF Sound, IInv
  <2>4. job[c].hi # -1
    BY DEF IInv, Reads
  <2>5. PICK e \in 0 .. job[c].hi : Held(x, e) /\ Unc(cs, index, now, x, e)
    BY <2>1, <2>4 DEF IInv, Reads
  <2>6. job[c].hi \in Nat
    BY <2>4 DEF IInv, Reads
  <2>7. e \in Nat /\ job[c].hi \in Int
    BY <2>6, SMT
  <2>8. Linked(OfType(cs.sets, "xr")) /\ \A b \in cs.unc : b.type = "xn"
    BY <2>3 DEF Based
  <2>9. \A b \in cs.sets : (b.type = "xr" => b.hi > 0) /\ (b.type = "xs" => b.hi = b.lo)
    BY <2>2, <2>3 DEF Ordered
  <2>10. cs.writeEpoch - 1 <= e /\ e <= cs.writeEpoch + 1 =>
           \E b \in cs.unc \cap index : b.type = "xn" /\ b.lo = e /\ x \in b.entries
    BY <2>5, <2>8 DEF Unc
  <2>11. ASSUME ~(Settled(cs, e) /\ Has(cs, e)) PROVE Raw(index, x, e)
    <3>1. ASSUME Old(index, e, now) PROVE FALSE
      <4>1. now <= cs.validUntil
        BY <2>2, SMTT(30) DEF Snapshot
      <4>2. Has(cs, e)
        BY <2>2, <2>3, <3>1, <4>1, OldShown
      <4>3. e <= cs.writeEpoch - 2
        BY <2>2, <2>3, <4>2, HasSettled
      <4>4. QED BY <2>11, <4>2, <4>3 DEF Settled
    <3>2. QED BY <2>5, <3>1 DEF Held, Gone
  <2>12. InSets(index, x, e)
    BY <2>5 DEF Held
  <2> HIDE DEF cs
  <2>13. \E b \in EpochIndexes(cs, e) \cap index : x \in b.entries
    BY <2>2, <2>7, <2>9, <2>10, <2>11, <2>12, EpochShows
  <2>14. QED BY <2>2, <2>7, <2>8, <2>9, <2>12, <2>13, SetShows
<1>6. ASSUME IInv, NEW c \in Clients, ReadList(c)
      PROVE  IInv'
  <2> USE <1>6
  <2> DEFINE cs == state[c]
             set == CompleteIndexSet(cs, 0, job[c].hi)
             j == Gathered(job[c], "check", set)
  <2>1. /\ job[c].op = "read" /\ job[c].pc = "list"
        /\ UNCHANGED <<now, Storage, state, load, writes, acked, plan>>
        /\ Keep(c, j)
    BY DEF ReadList, At, Gathered
  <2>2. /\ cs \in Snapshot /\ job[c] \in Job /\ index \in SUBSET Blobs
        /\ Based(cs, index, Top(markers), Watermark(marks), now, acked)
        /\ Ordered(index, Top(markers), now)
    BY SnapshotFacts DEF IInv, Types, Sound
  <2>3. set \subseteq Blobs
    BY <2>2, SetIsOfBlobs
  <2>4. \A b \in set : b.type = "xn" => ~Has(cs, b.lo)
    <3>1. \A b \in cs.sets : b.type # "xn"
      BY <2>2 DEF Based
    <3>2. \A e : Has(cs, e) => Settled(cs, e)
      BY <2>2, HasSettled DEF Settled
    <3>3. QED BY <3>1, <3>2, <1>2
  <2>5. now < cs.validUntil => job[c].first \subseteq Entries(set \cap index)
    BY <2>1, <1>5
  <2>6. load[c] = NoLoad
    <3>1. job[c].pc \notin {"state", "confirm"}
      BY <2>1
    <3>2. QED BY <3>1, NotLoading
  <2>7. /\ job[c].hi # -1 /\ job[c].hi \in Nat /\ job[c].first \subseteq acked
        /\ \A x \in job[c].first : \E e \in 0 .. job[c].hi : Held(x, e) /\ Unc(cs, index, now, x, e)
    BY <2>1, ZenonT(30) DEF IInv, Reads
  <2> HIDE DEF set
  <2>8. /\ j \in Job /\ j.op = "read" /\ j.pc = "check" /\ j.set = set
        /\ j.hi = job[c].hi /\ j.first = job[c].first
    <3>1. "check" \in PCs /\ set \in SUBSET (Blobs \cup Entry \cup Shards)
      BY <2>3 DEF PCs
    <3>2. job[c] \in Job /\ job[c].op = "read"
      BY <2>1, <2>2
    <3>3. QED BY <3>1, <3>2, GatheredFields, SMTT(30)
  <2> HIDE DEF j
  <2>9. QED BY <2>1, <2>3, <2>4, <2>5, <2>6, <2>7, <2>8, <1>3
<1>7. ASSUME IInv, NEW c \in Clients, ReadCheck(c)
      PROVE  IInv'
  <2> USE <1>7
  <2> DEFINE j == Gathered(job[c], "state", {})
  <2>1. /\ job[c].op = "read" /\ job[c].pc = "check" /\ (Finish(c) \/ Keep(c, j))
        /\ UNCHANGED <<now, Storage, state, load, writes, acked, plan>>
    BY DEF ReadCheck, At, Gathered
  <2>2. load[c] = NoLoad
    <3>1. job[c].pc \notin {"state", "confirm"}
      BY <2>1
    <3>2. QED BY <3>1, NotLoading
  <2>3. CASE Finish(c)
    BY <2>1, <2>2, <2>3, FinishStep
  <2>4. CASE Keep(c, j)
    <3>1. job[c] \in Job /\ job[c].op = "read"
      BY <2>1 DEF IInv, Types
    <3>2. "state" \in PCs /\ {} \in SUBSET (Blobs \cup Entry \cup Shards)
      BY ZenonT(30) DEF PCs
    <3>3. j \in Job /\ j.op = "read" /\ j.pc = "state" /\ j.hi = job[c].hi /\ j.first = job[c].first
      BY <3>1, <3>2, GatheredFields, SMTT(30)
    <3>4. /\ job[c].hi \in Nat /\ job[c].first \subseteq acked
          /\ \A x \in job[c].first : \E e \in 0 .. job[c].hi : Held(x, e) /\ Unc(state[c], index, now, x, e)
      BY <2>1 DEF IInv, Reads
    <3> HIDE DEF j
    <3>5. j.pc \notin {"list", "check"} /\ j.pc # "check"
      BY <3>3
    <3>6. QED BY <2>1, <2>2, <2>4, <3>3, <3>4, <3>5, <1>3
  <2>5. QED BY <2>1, <2>3, <2>4
<1>8. QED BY <1>4, <1>6, <1>7 DEF Read

-----------------------------------------------------------------------------
(* Compactions carry all that is held. *)

\* A compaction gathers its entries.
LEMMA ListKeeps ==
  IInv => \A c \in Clients : CompactList(c) \/ RangeList(c) => IInv'
\* An epoch whose compaction the compacting client does not know has not lost its blobs.
<1>1. ASSUME NEW c \in Clients, Compacts(c), state[c].validUntil >= 0,
             NEW x, NEW e, Held(x, e), ~Has(state[c], e)
      PROVE  Raw(index, x, e)
  BY <1>1 DEF Held, Gone, Knows
\* What a compaction has read is what it is going to write.
<1>2. ASSUME IInv, NEW c \in Clients, job[c].op \in {"single", "range"}, job[c].pc = "list",
             NEW S \in SUBSET Entry, Keep(c, [job[c] EXCEPT !.pc = "put", !.set = S]),
             \A x \in Entry, e \in Nat : Held(x, e) /\ job[c].lo <= e /\ e <= job[c].hi => x \in S,
             UNCHANGED <<now, Storage, state, load, writes, acked, plan>>
      PROVE  IInv'
  <2> USE <1>2
  <2> DEFINE j == Gathered(job[c], "put", S)
  <2>1. job[c] \in Job /\ Task(job[c], state[c], Top(markers), plan.ops[c])
    BY DEF IInv, Types, Tasks
  <2>2. "put" \in PCs /\ S \in SUBSET (Blobs \cup Entry \cup Shards)
    BY DEF PCs
  <2>3. Keep(c, j)
    BY DEF Gathered
  <2>4. j \in Job /\ j.op = job[c].op /\ j.pc = "put" /\ j.lo = job[c].lo /\ j.hi = job[c].hi /\ j.set = S
    <3>1. job[c] \in Job
      BY <2>1
    <3>2. QED BY <2>2, <3>1, GatheredFields, SMTT(30)
  <2> HIDE DEF j
  <2>5. j.op \in MaintenanceOps
    BY <2>4 DEF MaintenanceOps
  <2>6. load[c] = NoLoad
    <3>1. job[c].pc \notin {"state", "confirm"}
      OBVIOUS
    <3>2. QED BY <3>1, NotLoading
  <2>7. Task(j, state[c], Top(markers), plan.ops[c])
    BY <2>1, <2>4, <2>5 DEF Task
  <2>8. \A x \in Entry, e \in Nat : Held(x, e) => Carried(j, x, e)
    BY <2>4 DEF Carried
  <2>9. QED BY <2>3, <2>4, <2>5, <2>6, <2>7, <2>8, TaskStep
\* A client that compacts is the one that maintains.
<1>3. ASSUME IInv, NEW c \in Clients, job[c].op \in {"single", "range"}, job[c].pc = "list"
      PROVE  /\ Compacts(c) /\ state[c].validUntil >= 0 /\ job[c].lo \in Nat /\ job[c].hi \in Int
             /\ job[c].op = "single" => ~Has(state[c], job[c].lo) /\ job[c].hi = job[c].lo
             /\ job[c].op = "range" => job[c].lo = RangeEnd(state[c]) + 1 /\ job[c].hi <= state[c].writeEpoch - 2
  <2> USE <1>3
  <2>1. job[c] \in Job /\ Task(job[c], state[c], Top(markers), plan.ops[c])
    BY DEF IInv, Types, Tasks
  <2>2. job[c].lo \in Int /\ job[c].hi \in Int
    BY <2>1 DEF Job
  <2>3. job[c].op \in MaintenanceOps /\ job[c].pc \in {"list", "put"}
    BY DEF MaintenanceOps
  <2>4. /\ 0 <= job[c].lo /\ state[c].validUntil >= 0 /\ job[c].op \in plan.ops[c]
        /\ job[c].op = "single" => ~Has(state[c], job[c].lo) /\ job[c].lo = job[c].hi
        /\ job[c].op = "range" => job[c].lo = RangeEnd(state[c]) + 1 /\ job[c].hi <= state[c].writeEpoch - 2
    BY <2>1, <2>3 DEF Task
  <2>5. Compacts(c)
    BY <2>4 DEF Compacts
  <2>6. job[c].lo \in Nat
    BY <2>2, <2>4, SMTT(30)
  <2>7. QED BY <2>2, <2>4, <2>5, <2>6
\* Entries of blobs.
<1>4. ASSUME NEW S \in SUBSET Blobs
      PROVE  Entries(S) \in SUBSET Entry
  BY <1>4 DEF Entries, Blobs
<1>5. ASSUME IInv, NEW c \in Clients, CompactList(c)
      PROVE  IInv'
  <2> USE <1>5
  <2> DEFINE found == Uncompacted(index, job[c].lo)
  <2>1. /\ job[c].op = "single" /\ job[c].pc = "list"
        /\ UNCHANGED <<now, Storage, state, load, writes, acked, plan>>
        /\ IF found = {} THEN Finish(c) ELSE Keep(c, [job[c] EXCEPT !.pc = "put", !.set = Entries(found)])
    BY DEF CompactList, At
  <2>2. CASE found = {}
    <3>1. load[c] = NoLoad
      <4>1. job[c].pc \notin {"state", "confirm"}
        BY <2>1
      <4>2. QED BY <4>1, NotLoading
    <3>2. QED BY <2>1, <2>2, <3>1, FinishStep
  <2>3. CASE found # {}
    <3>1. Keep(c, [job[c] EXCEPT !.pc = "put", !.set = Entries(found)])
      BY <2>1, <2>3
    <3>2. Entries(found) \in SUBSET Entry
      <4>1. found \in SUBSET Blobs
        BY DEF IInv, Types, Uncompacted
      <4>2. QED BY <4>1, <1>4
    <3>3. ASSUME NEW x \in Entry, NEW e \in Nat, Held(x, e), job[c].lo <= e, e <= job[c].hi PROVE x \in Entries(found)
      <4>1. /\ Compacts(c) /\ state[c].validUntil >= 0 /\ job[c].lo \in Nat
            /\ ~Has(state[c], job[c].lo) /\ job[c].hi = job[c].lo
        BY <2>1, <1>3
      <4>2. e = job[c].lo
        BY <3>3, <4>1, SMTT(30)
      <4>3. Raw(index, x, e)
        BY <3>3, <4>1, <4>2, <1>1
      <4>4. QED BY <4>2, <4>3 DEF Raw, Uncompacted, Entries
    <3> HIDE DEF found
    <3>4. QED BY <2>1, <3>1, <3>2, <3>3, <1>2
  <2>4. QED BY <2>2, <2>3
<1>6. ASSUME IInv, NEW c \in Clients, RangeList(c)
      PROVE  IInv'
  <2> USE <1>6
  <2> DEFINE cs == state[c]
             set == CompleteIndexSet(cs, job[c].lo, job[c].hi)
  <2>1. /\ job[c].op = "range" /\ job[c].pc = "list"
        /\ UNCHANGED <<now, Storage, state, load, writes, acked, plan>>
        /\ IF now > state[c].validUntil THEN Finish(c)
           ELSE Keep(c, [job[c] EXCEPT !.pc = "put", !.set = Entries(set)])
    BY DEF RangeList, At
  <2>2. CASE now > state[c].validUntil
    <3>1. load[c] = NoLoad
      <4>1. job[c].pc \notin {"state", "confirm"}
        BY <2>1
      <4>2. QED BY <4>1, NotLoading
    <3>2. QED BY <2>1, <2>2, <3>1, FinishStep
  <2>3. CASE ~(now > state[c].validUntil)
    <3>1. Keep(c, [job[c] EXCEPT !.pc = "put", !.set = Entries(set)])
      BY <2>1, <2>3
    <3>2. Entries(set) \in SUBSET Entry
      <4>1. cs \in Snapshot /\ index \in SUBSET Blobs
        BY DEF IInv, Types
      <4>2. QED BY <4>1, SetIsOfBlobs, <1>4
    <3>3. ASSUME NEW x \in Entry, NEW e \in Nat, Held(x, e), job[c].lo <= e, e <= job[c].hi PROVE x \in Entries(set)
      <4>1. /\ Compacts(c) /\ cs.validUntil >= 0 /\ job[c].lo \in Nat /\ job[c].hi \in Int
            /\ job[c].lo = RangeEnd(cs) + 1 /\ job[c].hi <= cs.writeEpoch - 2
        BY <2>1, <1>3
      <4>2. /\ cs \in Snapshot /\ cs.writeEpoch \in Nat
            /\ \A b \in cs.sets : b \in index /\ b.hi <= cs.writeEpoch
        BY SnapshotFacts
      <4>3. \A b \in cs.sets : b.type = "xr" => ~(b.hi > job[c].lo)
        <5>1. RangeEnd(cs) \in Int /\ \A b \in OfType(cs.sets, "xr") : b.hi \in Nat /\ b.hi <= RangeEnd(cs)
          BY <4>2, RangeEndBound
        <5>2. \A b \in OfType(cs.sets, "xr") : ~(b.hi > job[c].lo)
          BY <4>1, <5>1, SMTT(30)
        <5>3. QED BY <5>2 DEF OfType
      <4>4. set = UNION {EpochIndexes(cs, f) : f \in job[c].lo .. job[c].hi}
        <5>1. {b \in cs.sets : b.type = "xr" /\ b.hi > job[c].lo} = {}
          BY <4>3
        <5>2. QED BY <5>1 DEF CompleteIndexSet
      <4>5. Settled(cs, e) /\ ~(cs.writeEpoch - 1 <= e /\ e <= cs.writeEpoch + 1) /\ e \in job[c].lo .. job[c].hi
        BY <3>3, <4>1, <4>2, SMTT(30) DEF Settled
      <4>6. ~Has(cs, e) => Raw(index, x, e)
        BY <3>3, <4>1, <1>1
      <4>7. \A b \in cs.sets : b \in index /\ (b.type = "xs" => b.hi = b.lo)
        BY <4>2 DEF IInv, Ordered
      <4>8. InSets(index, x, e)
        BY <3>3 DEF Held
      <4> HIDE DEF cs, set
      <4>9. \E b \in EpochIndexes(cs, e) \cap index : x \in b.entries
        BY <4>2, <4>5, <4>6, <4>7, <4>8, EpochShows
      <4>10. QED BY <4>4, <4>5, <4>9 DEF Entries
    <3> HIDE DEF set
    <3>4. QED BY <2>1, <3>1, <3>2, <3>3, <1>2
  <2>4. QED BY <2>2, <2>3
<1>7. QED BY <1>5, <1>6

-----------------------------------------------------------------------------
(* Steps that change the storage. *)

\* Neither the write epoch nor the deletion watermark goes back.
Forward == Top(markers) <= Top(markers') /\ Watermark(marks) <= Watermark(marks')

\* A step that leaves markers and watermarks alone.
LEMMA SameIsForward ==
  ASSUME IInv, markers' = markers, marks' = marks
  PROVE  Forward
<1>1. Top(markers) \in Nat /\ Watermark(marks) \in Nat
  BY TopTypes DEF IInv, Types
<1>2. QED BY <1>1, SMTT(30) DEF Forward

\* An entry stays held unless its own blob is deleted: a new compaction has it, and a blob is
\* superseded for good.
LEMMA HeldStays ==
  ASSUME NEW c \in Clients, Others(c), now' = now, plan' = plan,
         state'[c] \in {state[c], Invalid}, load'[c] \in {load[c], Invalid},
         ~(job'[c].op \in {"single", "range"} /\ job'[c].pc = "put"),
         NEW x, NEW e, Held(x, e),
         \A b \in index : b \in index' \/ (b.type = "xn" /\ (x \notin b.entries \/ Gone(b.lo))),
         \A b \in index' : b \in index \/ b.type = "xn" \/ (b.lo <= e /\ e <= b.hi => x \in b.entries)
  PROVE  Held(x, e)'
<1>1. InSets(index', x, e)
  BY DEF Held, InSets
<1>2. \A d \in Clients : Carried(job'[d], x, e)
  BY DEF Held, Carried, Others
<1>3. ASSUME Gone(e) PROVE Gone(e)'
  <2>1. Old(index', e, now')
    <3>1. PICK b \in index : b.type = "xs" /\ b.lo = e /\ b.ts < now - CleanupSafetyMargin
      BY <1>3 DEF Gone, Old
    <3>2. b \in index'
      BY <3>1
    <3>3. QED BY <3>1, <3>2 DEF Old
  <2>2. ASSUME NEW d \in Clients, Compacts(d)' PROVE Knows(state'[d], load'[d], e)
    <3>1. Knows(state[d], load[d], e)
      BY <1>3, <2>2 DEF Gone, Compacts
    <3>2. ~(Invalid.validUntil >= 0) /\ Invalid = NoLoad
      BY InvalidFields, SMTT(30)
    <3>3. state'[d] \in {state[d], Invalid} /\ load'[d] \in {load[d], Invalid}
      BY DEF Others
    <3>4. QED BY <3>1, <3>2, <3>3 DEF Knows
  <2>3. QED BY <2>1, <2>2 DEF Gone
<1>4. ASSUME Raw(index, x, e) PROVE Raw(index', x, e) \/ Gone(e)
  BY <1>4 DEF Raw
<1>5. QED BY <1>1, <1>2, <1>3, <1>4 DEF Held

\* A step that changes the storage loses no more than Gentle allows.
LEMMA GentleStep ==
  ASSUME Types, NEW c \in Clients, NEW D, Others(c), now' = now, plan' = plan, writes' = writes,
         acked \subseteq acked', Top(markers) <= Top(markers'), Watermark(marks) <= Watermark(marks'),
         state'[c] \in {state[c], Invalid}, load'[c] \in {load[c], Invalid},
         ~(job'[c].op \in {"single", "range"} /\ job'[c].pc = "put"),
         \A b \in index : b \in index' \/ (b.type = "xn" /\ (b.entries \subseteq D \/ Gone(b.lo))),
         \A b \in index' : \/ b \in index
                           \/ /\ b.ts = now
                              /\ \/ b.type = "xn"
                                 \/ \A x \in Entry, e \in Nat : Held(x, e) /\ b.lo <= e /\ e <= b.hi => x \in b.entries
  PROVE  Gentle(D)
<1>1. now \in Nat /\ writes \in Nat
  BY DEF Types
<1>2. now <= now' /\ writes <= writes' /\ now >= now
  BY <1>1, SMTT(30)
<1>3. ASSUME NEW x \in Entry \ D, NEW e \in Nat, Held(x, e) PROVE Held(x, e)'
  <2>1. \A b \in index : b \in index' \/ (b.type = "xn" /\ (x \notin b.entries \/ Gone(b.lo)))
    OBVIOUS
  <2>2. \A b \in index' : b \in index \/ b.type = "xn" \/ (b.lo <= e /\ e <= b.hi => x \in b.entries)
    BY <1>3
  <2>3. QED BY <1>3, <2>1, <2>2, HeldStays
<1>4. \A b \in index' : b \in index \/ b.ts >= now
  BY <1>2
<1>5. \A b \in index : b \in index' \/ (b.type = "xn" /\ (b.entries \subseteq D \/ Old(index, b.lo, now)))
  BY DEF Gone
<1>6. QED BY <1>2, <1>3, <1>4, <1>5 DEF Gentle

\* The end of an operation that changes the storage.
LEMMA FinishActs ==
  ASSUME IInv, NEW c \in Clients, NEW D \in {{}, Mine(c)}, Gentle(D), Others(c),
         Types', Ordered(index, Top(markers), now)', job'[c] = Idle, load'[c] = Invalid,
         state'[c] \in {state[c], Invalid}, acked' \subseteq acked \cup Mine(c),
         \A x \in acked' \ acked : x[1] <= writes' /\ \E e \in 0 .. Top(markers)' : Held(x, e)'
  PROVE  IInv'
<1>1. Types /\ Ordered(index, Top(markers), now) /\ Snapshots(c) /\ Shown(c) /\ D \cap acked = {}
  BY MineApart DEF IInv
<1>2. Snapshots(c)' /\ Shown(c)'
  BY <1>1, SnapshotsKeep, ShownKeeps
<1>3. Tasks(c)' /\ Writes(c)' /\ Reads(c)'
  BY IdleKeeps
<1>4. job'[c].op # "write"
  BY IdleFields
<1>5. QED BY <1>2, <1>3, <1>4, StepKeeps

\* What a step changes of job, state and load.
LEMMA JobEffect ==
  ASSUME Types, NEW c \in Clients, NEW j \in Job, Keep(c, j)
  PROVE  job' \in [Clients -> Job] /\ job'[c] = j /\ \A d \in Clients \ {c} : job'[d] = job[d]
BY DEF Types, Keep

\* A step that ends an operation and deletes index blobs.
LEMMA DeleteStep ==
  ASSUME IInv, NEW c \in Clients, NEW D \in {{}, Mine(c)}, load[c] = NoLoad, Finish(c), NEW S,
         \A b \in S : b.type = "xn" /\ (b.entries \subseteq D \/ Gone(b.lo)), index' = index \ S,
         UNCHANGED <<now, markers, marks, state, load, writes, acked, plan>>
  PROVE  IInv'
<1>1. /\ Keep(c, Idle) /\ now' = now /\ markers' = markers /\ marks' = marks /\ state' = state /\ load' = load
      /\ writes' = writes /\ acked' = acked /\ plan' = plan
  BY DEF Finish
<1>2. /\ Types /\ Ordered(index, Top(markers), now) /\ Top(markers) \in Nat /\ Watermark(marks) \in Nat
  BY TopTypes DEF IInv, Types
<1>3. Ordered(index', Top(markers'), now')
  BY <1>1, <1>2 DEF Ordered
<1>4. job' \in [Clients -> Job] /\ job'[c] = Idle /\ \A d \in Clients \ {c} : job'[d] = job[d]
  BY <1>1, <1>2, IdleFields, JobEffect
<1>5. Types'
  BY <1>1, <1>2, <1>4 DEF Types
<1>6. load[c] = Invalid /\ Others(c)
  BY <1>1, <1>4, InvalidFields DEF Others
<1>7. Gentle(D)
  <2>1. Top(markers) <= Top(markers') /\ Watermark(marks) <= Watermark(marks')
    BY <1>1, <1>2, SMTT(30)
  <2>2. ~(job'[c].op \in {"single", "range"})
    BY <1>4, IdleFields
  <2>3. QED BY <1>1, <1>2, <1>6, <2>1, <2>2, GentleStep, ZenonT(30)
<1>8. QED BY <1>1, <1>3, <1>4, <1>5, <1>6, <1>7, FinishActs

-----------------------------------------------------------------------------
(* Index writes. *)

Restarted(j, l) == [j EXCEPT !.pc = "shard", !.lo = l, !.set = {}]

\* An index write.
LEMMA WriteKeeps ==
  IInv => \A c \in Clients : Write(c) => IInv' /\ Forward
\* The blobs a write gives up are its own.
<1>1. ASSUME IInv, NEW c \in Clients, job[c].op = "write", NEW b \in ShardBlobs(c)
      PROVE  b \in index /\ b.type = "xn" /\ b.entries \subseteq Mine(c)
  <2> USE <1>1
  <2>1. job[c].set \subseteq Shards
    BY DEF IInv, Writes
  <2>2. \A s \in job[c].set : <<job[c].id, s>> \in Mine(c)
    BY <2>1 DEF Mine
  <2>3. QED BY <2>2 DEF ShardBlobs
<1>2. ASSUME IInv, NEW c \in Clients, WriteConfirm(c)
      PROVE  IInv'
  <2> USE <1>2
  <2>1. /\ At(c, "write", "confirm") /\ load[c] = NoLoad /\ Fresh(c, 0) /\ Finish(c)
        /\ now' = now /\ markers' = markers /\ marks' = marks /\ state' = state /\ load' = load
        /\ writes' = writes /\ plan' = plan
    BY DEF WriteConfirm
  <2>2. job[c].op = "write" /\ job[c].pc = "confirm"
    BY <2>1 DEF At
  <2>3. CASE /\ state[c].writeEpoch >= job[c].lo + 2
             /\ \E S \in SUBSET ShardBlobs(c) : index' = index \ S
             /\ UNCHANGED acked
    <3>1. PICK S \in SUBSET ShardBlobs(c) : index' = index \ S
      BY <2>3
    <3>2. \A b \in S : b.type = "xn" /\ b.entries \subseteq Mine(c)
      BY <2>2, <1>1
    <3>3. QED BY <2>1, <2>3, <3>1, <3>2, DeleteStep
  <2>4. CASE /\ state[c].writeEpoch < job[c].lo + 2
             /\ acked' = acked \cup {<<job[c].id, s>> : s \in Shards}
             /\ UNCHANGED index
    <3>1. Types /\ Ordered(index, Top(markers), now) /\ Writes(c) /\ Top(markers) \in Nat /\ Watermark(marks) \in Nat
      BY TopTypes DEF IInv, Types
    <3>2. acked' = acked \cup Mine(c) /\ Mine(c) \subseteq Entry /\ \A x \in Mine(c) : x[1] = job[c].id
      BY <2>2, <2>4, <3>1, MineFacts
    <3>3. Behind(state[c], job[c].lo)
      BY <2>1, <2>4, FreshIsValid DEF Behind
    <3>4. /\ job[c].id \in 1 .. writes /\ job[c].lo <= Top(markers) /\ job[c].lo >= 0
          /\ \A x \in Mine(c) : Held(x, job[c].lo)
      BY <2>2, <3>1, <3>3 DEF Writes
    <3>5. job[c].lo \in Nat /\ job[c].lo \in 0 .. Top(markers)
      <4>1. job[c].lo \in Int
        BY <3>1 DEF Types, Job
      <4>2. QED BY <3>1, <3>4, <4>1, InRange
    <3>6. job' \in [Clients -> Job] /\ job'[c] = Idle /\ \A d \in Clients \ {c} : job'[d] = job[d]
      BY <2>1, <3>1, IdleFields, JobEffect DEF Finish
    <3>7. acked' \in SUBSET Entry /\ index' = index
      BY <2>4, <3>1, <3>2 DEF Types
    <3>8. Types' /\ Ordered(index', Top(markers'), now') /\ Others(c)
      BY <2>1, <3>1, <3>6, <3>7 DEF Types, Others
    <3>9. Gentle({})
      <4>1. Top(markers) <= Top(markers') /\ Watermark(marks) <= Watermark(marks')
        BY <2>1, <3>1, SMTT(30)
      <4>2. ~(job'[c].op \in {"single", "range"})
        BY <3>6, IdleFields
      <4>3. acked \subseteq acked' /\ state'[c] \in {state[c], Invalid} /\ load'[c] \in {load[c], Invalid}
        BY <2>1, <3>2
      <4>4. QED BY <2>1, <3>1, <3>7, <3>8, <4>1, <4>2, <4>3, GentleStep
    <3>10. ASSUME NEW x \in Mine(c) PROVE x[1] <= writes' /\ \E e \in 0 .. Top(markers)' : Held(x, e)'
      <4>1. x[1] <= writes'
        BY <2>1, <3>2, <3>4, SMTT(30)
      <4>2. PICK e \in 0 .. Top(markers) : e \in Nat /\ Held(x, e)
        BY <3>4, <3>5
      <4>3. Held(x, e)' /\ e \in 0 .. Top(markers)'
        BY <2>1, <3>2, <3>9, <4>2 DEF Gentle
      <4>4. QED BY <4>1, <4>3
    <3>11. load'[c] = Invalid
      BY <2>1, InvalidFields
    <3>12. QED BY <2>1, <3>2, <3>6, <3>8, <3>9, <3>10, <3>11, FinishActs
  <2>5. QED BY <2>3, <2>4 DEF WriteConfirm
\* A step of a write that goes on.
<1>3. ASSUME IInv, NEW c \in Clients, NEW D \in {{}, Mine(c)}, job[c].op = "write", load[c] = NoLoad,
             NEW j \in Job, Keep(c, j), j.op = "write", j.id = job[c].id, j.pc \in {"state", "shard", "put", "confirm"},
             -1 <= j.lo, j.lo <= Top(markers), j.pc # "state" => j.lo >= 0,
             j.set \subseteq Shards, j.pc = "confirm" => j.set = Shards /\ state'[c] = Invalid,
             Top(markers) < j.lo + 2 => \A s \in j.set : Raw(index', <<j.id, s>>, j.lo),
             state' \in [Clients -> Snapshot], state'[c] \in {state[c], Invalid},
             \A d \in Clients \ {c} : state'[d] = state[d],
             index' \in SUBSET Blobs, Ordered(index', Top(markers), now),
             \A b \in index : b \in index' \/ (b.type = "xn" /\ b.entries \subseteq D),
             \A b \in index' : b \in index \/ (b.ts = now /\ b.type = "xn"),
             UNCHANGED <<now, markers, marks, load, writes, acked, plan>>
      PROVE  IInv'
  <2> USE <1>3
  <2>1. /\ now' = now /\ markers' = markers /\ marks' = marks /\ load' = load /\ writes' = writes
        /\ acked' = acked /\ plan' = plan
    OBVIOUS
  <2>2. /\ Types /\ Ordered(index, Top(markers), now) /\ Snapshots(c) /\ Shown(c) /\ Writes(c)
        /\ Top(markers) \in Nat /\ Watermark(marks) \in Nat
    BY TopTypes DEF IInv, Types
  <2>3. job' \in [Clients -> Job] /\ job'[c] = j /\ \A d \in Clients \ {c} : job'[d] = job[d]
    BY <2>2, JobEffect
  <2>4. Types' /\ Ordered(index', Top(markers'), now') /\ Others(c)
    BY <2>1, <2>2, <2>3 DEF Types, Others
  <2>5. Gentle(D)
    <3>1. Top(markers) <= Top(markers') /\ Watermark(marks) <= Watermark(marks')
      BY <2>1, <2>2, SMTT(30)
    <3>2. ~(job'[c].op \in {"single", "range"})
      BY <2>3
    <3>3. acked \subseteq acked' /\ load'[c] \in {load[c], Invalid}
      BY <2>1
    <3>4. QED BY <2>1, <2>2, <2>4, <3>1, <3>2, <3>3, GentleStep, ZenonT(30)
  <2>6. D \cap acked = {}
    BY MineApart
  <2>7. Snapshots(c)' /\ Shown(c)'
    <3>1. load'[c] \in {load[c], Invalid}
      BY <2>1
    <3>2. QED BY <2>2, <2>4, <2>5, <2>6, <3>1, SnapshotsKeep, ShownKeeps
  <2>8. Tasks(c)'
    <3>1. Task(j, state'[c], Top(markers'), plan'.ops[c])
      BY DEF Task, MaintenanceOps
    <3>2. QED BY <2>1, <2>3, <3>1 DEF Tasks
  <2>9. Reads(c)'
    BY <2>3 DEF Reads
  <2>10. Writes(c)'
    <3>1. Mine(c)' = Mine(c)
      BY <2>3, ZenonT(30) DEF Mine
    <3>2. job[c].id \in 1 .. writes /\ Mine(c) \cap acked = {}
      BY <2>2 DEF Writes
    <3>3. ~Behind(Invalid, j.lo) /\ load[c] = Invalid
      BY InvalidFields, SMTT(30) DEF Behind
    <3>4. QED BY <2>1, <2>3, <3>1, <3>2, <3>3 DEF Writes
  <2>11. QED BY <2>1, <2>3, <2>4, <2>5, <2>7, <2>8, <2>9, <2>10, StepKeeps
<1>4. ASSUME NEW j \in Job, NEW l \in Int
      PROVE  /\ Restarted(j, l) \in Job /\ Restarted(j, l).op = j.op /\ Restarted(j, l).pc = "shard"
             /\ Restarted(j, l).id = j.id /\ Restarted(j, l).lo = l /\ Restarted(j, l).set = {}
  <2> USE <1>4
  <2>1. Restarted(j, l) \in Job
    BY DEF Restarted, Job, PCs
  <2>2. QED BY <2>1 DEF Restarted, Job, PCs
<1>5. ASSUME IInv, NEW c \in Clients, WriteState(c)
      PROVE  IInv'
  <2> USE <1>5
  <2>1. /\ At(c, "write", "state") /\ load[c] = NoLoad /\ state' = state
        /\ UNCHANGED <<now, markers, marks, load, writes, acked, plan>>
    BY DEF WriteState
  <2>2. job[c].op = "write" /\ job[c].pc = "state"
    BY <2>1 DEF At
  <2>3. /\ job[c] \in Job /\ job[c].lo \in Int /\ -1 <= job[c].lo /\ job[c].lo <= Top(markers)
        /\ job[c].set \subseteq Shards
        /\ Top(markers) < job[c].lo + 2 => \A s \in job[c].set : Raw(index, <<job[c].id, s>>, job[c].lo)
        /\ state \in [Clients -> Snapshot] /\ index \in SUBSET Blobs
        /\ Ordered(index, Top(markers), now)
    BY <2>2, WriteFacts
  <2>4. state[c].writeEpoch \in Nat /\ state[c].writeEpoch <= Top(markers)
    BY SnapshotFacts
  <2>5. CASE state[c].writeEpoch = job[c].lo
    <3> DEFINE j == Moved(job[c], "shard")
    <3>1. Keep(c, j) /\ index' = index
      BY <2>5 DEF WriteState, Step, Moved
    <3>2. "shard" \in PCs
      BY DEF PCs
    <3>3. /\ j \in Job /\ j.op = "write" /\ j.pc = "shard" /\ j.id = job[c].id /\ j.lo = job[c].lo
          /\ j.set = job[c].set
      BY <2>2, <2>3, <3>2, MovedFields
    <3> HIDE DEF j
    <3>4. j.pc \in {"state", "shard", "put", "confirm"} /\ j.pc # "confirm" /\ j.lo >= 0
      BY <2>4, <2>5, <3>3, SMTT(30)
    <3>5. -1 <= j.lo /\ j.lo <= Top(markers) /\ j.set \subseteq Shards
          /\ (Top(markers) < j.lo + 2 => \A s \in j.set : Raw(index', <<j.id, s>>, j.lo))
      BY <2>3, <3>1, <3>3
    <3>6. state' \in [Clients -> Snapshot] /\ state'[c] = state[c] /\ \A d \in Clients \ {c} : state'[d] = state[d]
      BY <2>1, <2>3
    <3>7. QED BY <2>1, <2>2, <2>3, <3>1, <3>3, <3>4, <3>5, <3>6, <1>3
  <2>6. CASE state[c].writeEpoch # job[c].lo
    <3> DEFINE j == Restarted(job[c], state[c].writeEpoch)
    <3>1. Keep(c, j) /\ index' = index \ ShardBlobs(c)
      BY <2>6 DEF WriteState, Restarted
    <3>2. state[c].writeEpoch \in Int
      BY <2>4, SMTT(30)
    <3>3. /\ j \in Job /\ j.op = "write" /\ j.pc = "shard" /\ j.id = job[c].id /\ j.lo = state[c].writeEpoch
          /\ j.set = {}
      BY <2>2, <2>3, <3>2, <1>4, ZenonT(30)
    <3> HIDE DEF j
    <3>4. /\ j.pc \in {"state", "shard", "put", "confirm"} /\ j.pc # "confirm" /\ j.lo >= 0 /\ -1 <= j.lo
          /\ j.lo <= Top(markers) /\ j.set \subseteq Shards
      BY <2>4, <3>3, SMT
    <3>5. \A s \in j.set : Raw(index', <<j.id, s>>, j.lo)
      BY <3>3
    <3>6. state' \in [Clients -> Snapshot] /\ state'[c] = state[c] /\ \A d \in Clients \ {c} : state'[d] = state[d]
      BY <2>1, <2>3
    <3>7. index' \in SUBSET Blobs /\ Ordered(index', Top(markers), now) /\ \A b \in index' : b \in index
      BY <2>3, <3>1 DEF Ordered
    <3>8. \A b \in index : b \in index' \/ (b.type = "xn" /\ b.entries \subseteq Mine(c))
      BY <2>2, <3>1, <1>1
    <3>9. QED BY <2>1, <2>2, <3>1, <3>3, <3>4, <3>5, <3>6, <3>7, <3>8, <1>3
  <2>7. QED BY <2>5, <2>6
<1>6. ASSUME IInv, NEW c \in Clients, WriteShard(c)
      PROVE  IInv'
  <2> USE <1>6
  <2>1. At(c, "write", "shard") /\ UNCHANGED <<now, Storage, load, writes, acked, plan>>
    BY DEF WriteShard
  <2>2. job[c].op = "write" /\ job[c].pc = "shard" /\ job[c].pc \notin {"state", "confirm"}
        /\ index' = index /\ UNCHANGED <<now, markers, marks, load, writes, acked, plan>>
    BY <2>1 DEF At, Storage
  <2>3. /\ job[c] \in Job /\ job[c].lo \in Int /\ -1 <= job[c].lo /\ job[c].lo <= Top(markers)
        /\ job[c].pc # "state" => job[c].lo >= 0
        /\ job[c].set \subseteq Shards
        /\ Top(markers) < job[c].lo + 2 => \A s \in job[c].set : Raw(index, <<job[c].id, s>>, job[c].lo)
        /\ state \in [Clients -> Snapshot] /\ index \in SUBSET Blobs
        /\ Ordered(index, Top(markers), now) /\ load[c] = NoLoad
    BY <2>2, WriteFacts, NotLoading
  <2>4. PICK p \in {"confirm", "put", "state"} :
          /\ Keep(c, Moved(job[c], p))
          /\ p = "confirm" => job[c].set = Shards
          /\ state' = IF p = "confirm" THEN [state EXCEPT ![c] = Invalid] ELSE state
    <3>1. CASE job[c].set = Shards
      BY <3>1 DEF WriteShard, Step, Moved
    <3>2. CASE job[c].set # Shards
      <4>1. Step(c, IF now < state[c].validUntil THEN "put" ELSE "state") /\ UNCHANGED state
        BY <3>2 DEF WriteShard
      <4>2. Keep(c, Moved(job[c], IF now < state[c].validUntil THEN "put" ELSE "state"))
        BY <4>1 DEF Step, Moved
      <4>3. CASE now < state[c].validUntil
        <5>1. Keep(c, Moved(job[c], "put")) /\ "put" # "confirm"
          BY <4>2, <4>3
        <5>2. QED BY <4>1, <5>1
      <4>4. CASE ~(now < state[c].validUntil)
        <5>1. Keep(c, Moved(job[c], "state")) /\ "state" # "confirm"
          BY <4>2, <4>4
        <5>2. QED BY <4>1, <5>1
      <4>5. QED BY <4>3, <4>4
    <3>3. QED BY <3>1, <3>2
  <2> DEFINE j == Moved(job[c], p)
  <2>5. p \in PCs
    BY DEF PCs
  <2>6. /\ j \in Job /\ j.op = "write" /\ j.pc = p /\ j.id = job[c].id /\ j.lo = job[c].lo
        /\ j.set = job[c].set
    BY <2>2, <2>3, <2>5, MovedFields
  <2>7. Keep(c, j)
    BY <2>4
  <2> HIDE DEF j
  <2>8. /\ state' \in [Clients -> Snapshot] /\ state'[c] \in {state[c], Invalid}
        /\ p = "confirm" => state'[c] = Invalid
        /\ \A d \in Clients \ {c} : state'[d] = state[d]
    <3>1. CASE p = "confirm"
      BY <2>3, <2>4, <3>1, InvalidFields
    <3>2. CASE p # "confirm"
      BY <2>3, <2>4, <3>2
    <3>3. QED BY <3>1, <3>2
  <2>9. j.pc \in {"state", "shard", "put", "confirm"} /\ j.lo >= 0 /\ -1 <= j.lo /\ j.lo <= Top(markers)
        /\ j.set \subseteq Shards /\ (j.pc = "confirm" => j.set = Shards /\ state'[c] = Invalid)
        /\ (Top(markers) < j.lo + 2 => \A s \in j.set : Raw(index', <<j.id, s>>, j.lo))
    BY <2>2, <2>3, <2>4, <2>6, <2>8
  <2>10. \A b \in index : b \in index'
    BY <2>2
  <2>11. QED BY <2>2, <2>3, <2>6, <2>7, <2>8, <2>9, <2>10, <1>3
<1>7. ASSUME IInv, NEW c \in Clients, WritePut(c)
      PROVE  IInv'
  <2> USE <1>7
  <2>1. /\ At(c, "write", "put") /\ state' = state
        /\ UNCHANGED <<now, markers, marks, load, writes, acked, plan>>
    BY DEF WritePut
  <2>2. job[c].op = "write" /\ job[c].pc = "put" /\ job[c].pc \notin {"state", "confirm"} /\ job[c].pc # "state"
    BY <2>1 DEF At
  <2>3. /\ job[c] \in Job /\ job[c].lo \in Int /\ -1 <= job[c].lo /\ job[c].lo <= Top(markers)
        /\ job[c].lo >= 0
        /\ job[c].set \subseteq Shards
        /\ Top(markers) < job[c].lo + 2 => \A s \in job[c].set : Raw(index, <<job[c].id, s>>, job[c].lo)
        /\ state \in [Clients -> Snapshot] /\ index \in SUBSET Blobs
        /\ Ordered(index, Top(markers), now) /\ load[c] = NoLoad /\ now \in Nat
    BY <2>2, WriteFacts, NotLoading
  <2>4. PICK s \in Shards \ job[c].set :
          /\ index' = index \cup {Blob("xn", job[c].lo, job[c].lo, {<<job[c].id, s>>})}
          /\ Keep(c, Gathered(job[c], "shard", job[c].set \cup {s}))
    BY DEF WritePut, Gathered
  <2> DEFINE x == <<job[c].id, s>>
             b == Blob("xn", job[c].lo, job[c].lo, {x})
             T == job[c].set \cup {s}
             j == Gathered(job[c], "shard", T)
  <2>5. x \in Entry
    <3>1. Types
      BY DEF IInv
    <3>2. x \in Mine(c) /\ Mine(c) \subseteq Entry
      BY <2>2, <3>1, MineFacts, ZenonT(30)
    <3>3. QED BY <3>2
  <2>6. /\ b.type = "xn" /\ b.lo = job[c].lo /\ b.hi = job[c].lo /\ b.entries = {x} /\ b.ts = now
        /\ job[c].lo \in Nat
    BY <2>3, SMTT(30) DEF Blob
  <2>7. b \in Blobs
    <3> HIDE DEF x
    <3>1. QED BY <2>3, <2>5, <2>6 DEF Blob, Blobs
  <2>8. index' = index \cup {b} /\ Keep(c, j)
    BY <2>4
  <2>9. T \in SUBSET (Blobs \cup Entry \cup Shards) /\ T \subseteq Shards /\ "shard" \in PCs
    BY <2>3, ZenonT(30) DEF PCs
  <2>10. /\ j \in Job /\ j.op = "write" /\ j.pc = "shard" /\ j.id = job[c].id /\ j.lo = job[c].lo
         /\ j.set = T
    <3> HIDE DEF T
    <3>1. job[c] \in Job /\ job[c].op = "write"
      BY <2>2, <2>3
    <3>2. QED BY <2>9, <3>1, GatheredFields, SMTT(30)
  <2> HIDE DEF b, j, x
  <2>11. index' \in SUBSET Blobs /\ Ordered(index', Top(markers), now)
    <3>1. b.ts <= now /\ b.lo <= b.hi /\ b.lo <= Top(markers) /\ b.type # "xs" /\ b.type # "xr"
      BY <2>3, <2>6, SMTT(30)
    <3>2. QED BY <2>3, <2>6, <2>7, <2>8, <3>1, ZenonT(30) DEF Ordered
  <2>12. ASSUME Top(markers) < j.lo + 2, NEW t \in j.set PROVE Raw(index', <<j.id, t>>, j.lo)
    <3>1. CASE t = s
      BY <2>6, <2>8, <2>10, <3>1 DEF Raw, x
    <3>2. CASE t \in job[c].set
      <4>1. Raw(index, <<job[c].id, t>>, job[c].lo)
        BY <2>3, <2>10, <2>12, <3>2, ZenonT(30)
      <4>2. QED BY <2>8, <2>10, <4>1 DEF Raw
    <3>3. QED BY <2>10, <2>12, <3>1, <3>2
  <2>13. /\ j.pc \in {"state", "shard", "put", "confirm"} /\ j.pc # "confirm" /\ j.lo >= 0 /\ -1 <= j.lo
         /\ j.lo <= Top(markers) /\ j.set \subseteq Shards
    BY <2>3, <2>9, <2>10, SMTT(30)
  <2>14. state' \in [Clients -> Snapshot] /\ state'[c] = state[c] /\ \A d \in Clients \ {c} : state'[d] = state[d]
    BY <2>1, <2>3
  <2>15. /\ \A y \in index : y \in index'
         /\ \A y \in index' : y \in index \/ (y.ts = now /\ y.type = "xn")
    BY <2>6, <2>8
  <2>16. QED BY <2>1, <2>2, <2>3, <2>8, <2>10, <2>11, <2>12, <2>13, <2>14, <2>15, <1>3
<1>8. ASSUME IInv, NEW c \in Clients, Write(c)
      PROVE  IInv' /\ Forward
  <2> USE <1>8
  <2>1. CASE WriteState(c)
    BY <2>1, <1>5, SameIsForward DEF WriteState
  <2>2. CASE WriteShard(c)
    BY <2>2, <1>6, SameIsForward DEF WriteShard, Storage
  <2>3. CASE WritePut(c)
    BY <2>3, <1>7, SameIsForward DEF WritePut
  <2>4. CASE WriteConfirm(c)
    BY <2>4, <1>2, SameIsForward DEF WriteConfirm
  <2>5. QED BY <2>1, <2>2, <2>3, <2>4 DEF Write
<1>9. QED BY <1>8

-----------------------------------------------------------------------------
(* Maintenance tasks, as they change the storage. *)

\* Markers and watermarks.
LEMMA MarkersKeep ==
  IInv => \A c \in Clients :
    AdvanceMarker(c) \/ WatermarkPut(c) \/ CleanupMarkers(c) => IInv' /\ Forward
\* A step that ends an operation and changes markers.
<1>1. ASSUME IInv, NEW c \in Clients, load[c] = NoLoad, Finish(c), state'[c] \in {state[c], Invalid},
             state' \in [Clients -> Snapshot], \A d \in Clients \ {c} : state'[d] = state[d],
             markers' \in SUBSET Nat, Bounded(markers'), Top(markers) <= Top(markers'),
             marks' \in SUBSET Marks, Bounded({m.wm : m \in marks'}), Watermark(marks) <= Watermark(marks'),
             UNCHANGED <<now, index, load, writes, acked, plan>>
      PROVE  IInv'
  <2> USE <1>1
  <2>1. /\ Keep(c, Idle) /\ now' = now /\ index' = index /\ load' = load
        /\ writes' = writes /\ acked' = acked /\ plan' = plan
    BY DEF Finish
  <2>2. /\ Types /\ Ordered(index, Top(markers), now) /\ Top(markers) \in Nat /\ Top(markers') \in Nat
        /\ index \in SUBSET Blobs
    BY TopTypes DEF IInv, Types
  <2>3. Ordered(index', Top(markers'), now')
    <3>1. ASSUME NEW b \in index
          PROVE  /\ b.lo <= Top(markers) => b.lo <= Top(markers')
                 /\ b.hi <= Top(markers) - 2 => b.hi <= Top(markers') - 2
      <4>1. b \in Blobs
        BY <2>2
      <4>2. b.lo \in Nat /\ b.hi \in Nat
        BY <4>1 DEF Blobs
      <4>3. QED BY <2>2, <4>2, SMTT(30)
    <3>2. QED BY <2>1, <2>2, <3>1 DEF Ordered
  <2>4. job' \in [Clients -> Job] /\ job'[c] = Idle /\ \A d \in Clients \ {c} : job'[d] = job[d]
    BY <2>1, <2>2, IdleFields, JobEffect
  <2>5. Types'
    BY <2>1, <2>2, <2>4 DEF Types
  <2>6. load[c] = Invalid /\ Others(c)
    BY <2>1, <2>4, InvalidFields DEF Others
  <2>7. Gentle({})
    <3>1. ~(job'[c].op \in {"single", "range"})
      BY <2>4, IdleFields
    <3>2. QED BY <2>1, <2>2, <2>6, <3>1, GentleStep
  <2>8. QED BY <2>1, <2>3, <2>4, <2>5, <2>6, <2>7, FinishActs
<1>2. ASSUME NEW T, T \subseteq Nat, Bounded(T), NEW n \in Nat
      PROVE  Bounded(T \cup {n}) /\ \A S \in SUBSET T : Bounded(S)
  <2> USE <1>2
  <2>1. PICK k \in Nat : \A y \in T : y <= k
    BY DEF Bounded
  <2>2. k + n \in Nat /\ \A y \in T \cup {n} : y <= k + n
    BY <2>1, SMTT(30)
  <2>3. QED BY <2>1, <2>2 DEF Bounded
<1>3. ASSUME IInv, NEW c \in Clients, AdvanceMarker(c)
      PROVE  IInv' /\ Forward
  <2> USE <1>3
  <2>1. /\ At(c, "advance", "put") /\ Finish(c) /\ markers' = markers \cup {job[c].hi} /\ marks' = marks /\ state' = state
        /\ UNCHANGED <<now, index, load, writes, acked, plan>>
    BY DEF AdvanceMarker
  <2>2. /\ Types /\ Top(markers) \in Nat /\ Watermark(marks) \in Nat
        /\ Task(job[c], state[c], Top(markers), plan.ops[c])
    BY TopTypes DEF IInv, Types, Tasks
  <2>3. job[c].hi \in Nat /\ job[c].pc \notin {"state", "confirm"}
    BY <2>1, <2>2 DEF At, Task
  <2>4. load[c] = NoLoad
    BY <2>3, NotLoading
  <2>5. markers \subseteq Nat /\ markers' \in SUBSET Nat /\ Bounded(markers) /\ Bounded(markers')
    BY <2>1, <2>2, <2>3, <1>2 DEF Types
  <2>6. Top(markers) \in markers' \/ Top(markers) = 0
    BY <2>1, <2>5, TopIsBound
  <2>7. Top(markers) <= Top(markers')
    BY <2>5, <2>6, TopGrows
  <2>8. Watermark(marks) <= Watermark(marks')
    BY <2>1, <2>2, SMTT(30)
  <2>9. IInv'
    BY <2>1, <2>2, <2>4, <2>5, <2>7, <2>8, <1>1, ZenonT(30) DEF Types
  <2>10. QED BY <2>7, <2>8, <2>9 DEF Forward
<1>4. ASSUME IInv, NEW c \in Clients, WatermarkPut(c)
      PROVE  IInv' /\ Forward
  <2> USE <1>4
  <2> DEFINE new == [wm |-> job[c].hi, ts |-> now]
             W == {m.wm : m \in marks}
             W2 == {m.wm : m \in marks'}
  <2>1. /\ At(c, "watermark", "put") /\ Finish(c) /\ markers' = markers /\ state' = [state EXCEPT ![c] = Invalid]
        /\ marks' = {m \in marks : m.wm # job[c].hi} \cup {new}
        /\ UNCHANGED <<now, index, load, writes, acked, plan>>
    BY DEF WatermarkPut
  <2>2. /\ Types /\ Top(markers) \in Nat /\ now \in Nat /\ marks \in SUBSET Marks
        /\ Task(job[c], state[c], Top(markers), plan.ops[c])
    BY TopTypes DEF IInv, Types, Tasks
  <2>3. job[c].hi \in Nat /\ job[c].pc \notin {"state", "confirm"}
    BY <2>1, <2>2 DEF At, Task
  <2>4. load[c] = NoLoad
    BY <2>3, NotLoading
  <2>5. state' \in [Clients -> Snapshot] /\ state'[c] = Invalid /\ \A d \in Clients \ {c} : state'[d] = state[d]
    BY <2>1, <2>2, InvalidFields DEF Types
  <2>6. new \in Marks /\ new.wm = job[c].hi
    BY <2>2, <2>3 DEF Marks
  <2> HIDE DEF new
  <2>7. marks' \in SUBSET Marks
    BY <2>1, <2>2, <2>6
  <2>8. W2 = W \cup {job[c].hi}
    BY <2>1, <2>6
  <2>9. W \subseteq Nat
    BY <2>2 DEF Marks
  <2>10. Bounded(W) /\ Watermark(marks) = Top(W) /\ Watermark(marks') = Top(W2)
    BY <2>2 DEF Types, Watermark
  <2>11. W2 \subseteq Nat /\ Bounded(W2)
    <3> HIDE DEF W, W2
    <3>1. QED BY <2>3, <2>8, <2>9, <2>10, <1>2
  <2>12. Watermark(marks) <= Watermark(marks')
    <3> HIDE DEF W, W2
    <3>1. Top(W) \in W2 \/ Top(W) = 0
      BY <2>8, <2>9, <2>10, TopIsBound, ZenonT(30)
    <3>2. QED BY <2>9, <2>10, <2>11, <3>1, TopGrows
  <2>13. Top(markers) <= Top(markers')
    BY <2>1, <2>2, SMTT(30)
  <2>14. markers' \in SUBSET Nat /\ Bounded(markers')
    BY <2>1, <2>2 DEF Types
  <2>15. IInv'
    BY <2>1, <2>4, <2>5, <2>7, <2>11, <2>12, <2>13, <2>14, <1>1
  <2>16. QED BY <2>12, <2>13, <2>15 DEF Forward
\* A cleanup of markers leaves the newest of each kind.
<1>5. ASSUME IInv, NEW c \in Clients, CleanupMarkers(c)
      PROVE  IInv' /\ Forward
  <2> USE <1>5
  <2> DEFINE cs == state[c]
             W == {m.wm : m \in marks}
             W2 == {m.wm : m \in marks'}
             V == {m.wm : m \in cs.marks}
  <2>1. /\ At(c, "markers", "delete") /\ Finish(c) /\ state' = state
        /\ UNCHANGED <<now, index, load, writes, acked, plan>>
    BY DEF CleanupMarkers
  <2>2. PICK E \in SUBSET OldMarkers(cs), D \in SUBSET {m.wm : m \in OldMarks(cs)} :
          markers' = markers \ E /\ marks' = {m \in marks : m.wm \notin D}
    BY DEF CleanupMarkers
  <2>3. /\ Types /\ marks \in SUBSET Marks /\ markers \in SUBSET Nat /\ Bounded(markers) /\ Bounded(W)
        /\ Sound(cs, plan.ops[c], index, Top(markers), Watermark(marks), now, acked) /\ cs \in Snapshot
        /\ Top(markers) \in Nat /\ Watermark(marks) \in Nat
    BY TopTypes, SnapshotFacts DEF IInv, Types
  <2>4. /\ cs.writeEpoch \in Nat /\ cs.markers \subseteq Nat /\ cs.marks \subseteq Marks
        /\ cs.writeEpoch <= Top(markers) /\ \A m \in cs.marks : m.wm <= Watermark(marks)
    BY <2>3 DEF Snapshot, Sound, Based
  <2>5. load[c] = NoLoad
    <3>1. job[c].pc \notin {"state", "confirm"}
      BY <2>1 DEF At
    <3>2. QED BY <3>1, NotLoading
  <2>6. Top(markers) \notin E
    <3>1. \A e \in OldMarkers(cs) : e \in Nat /\ e < cs.writeEpoch - 1
      BY <2>4, ZenonT(30) DEF OldMarkers
    <3>2. Top(markers) \notin OldMarkers(cs)
      BY <2>3, <2>4, <3>1, SMTT(30)
    <3>3. QED BY <2>2, <3>2
  <2>7. W \subseteq Nat /\ V \subseteq Nat /\ W2 \subseteq W /\ Watermark(marks) = Top(W) /\ Watermark(marks') = Top(W2)
        /\ Watermark(cs.marks) = Top(V)
    <3>1. W \subseteq Nat /\ V \subseteq Nat
      BY <2>3, <2>4 DEF Marks
    <3>2. QED BY <2>2, <3>1 DEF Watermark
  <2>8. Bounded(V)
    <3>1. \A w \in V : w <= Watermark(marks)
      BY <2>4
    <3>2. QED BY <2>3, <3>1 DEF Bounded
  <2>9. Watermark(marks) \notin D
    <3>1. ASSUME NEW m \in OldMarks(cs), m.wm = Watermark(marks) PROVE FALSE
      <4>1. m \in cs.marks /\ m.wm # Top(V)
        BY <2>7 DEF OldMarks
      <4>2. m.wm \in V
        BY <4>1
      <4> HIDE DEF V
      <4>3. Top(V) \in Nat /\ Top(V) \in V \cup {0} /\ m.wm <= Top(V)
        BY <2>7, <2>8, <4>2, TopIsBound
      <4> USE DEF V
      <4>4. ASSUME Top(V) \in V PROVE Top(V) <= Watermark(marks)
        BY <2>4, <4>4
      <4> HIDE DEF V
      <4>5. QED BY <2>3, <3>1, <4>1, <4>3, <4>4, SMTT(30)
    <3>2. QED BY <2>2, <3>1, ZenonT(30)
  <2>10. Top(W) \in W2 \/ Top(W) = 0
    <3>1. Top(W) \in W \/ Top(W) = 0
      <4> HIDE DEF W
      <4>1. QED BY <2>3, <2>7, TopIsBound
    <3>2. QED BY <2>2, <2>7, <2>9, <3>1
  <2>11. Bounded(W2) /\ Bounded(markers') /\ markers' \in SUBSET Nat /\ marks' \in SUBSET Marks
    <3>1. 0 \in Nat
      OBVIOUS
    <3>2. Bounded(W2)
      <4> HIDE DEF W, W2
      <4>1. QED BY <2>3, <2>7, <3>1, <1>2
    <3>3. markers' \in SUBSET markers
      BY <2>2
    <3>4. Bounded(markers')
      BY <2>3, <3>1, <3>3, <1>2
    <3>5. QED BY <2>2, <2>3, <3>2, <3>3, <3>4
  <2>12. Top(markers) \in markers' \/ Top(markers) = 0
    BY <2>2, <2>3, <2>6, TopIsBound
  <2>13. Top(markers) <= Top(markers')
    BY <2>3, <2>11, <2>12, TopGrows
  <2>14. Watermark(marks) <= Watermark(marks')
    <3>1. W2 \subseteq Nat
      BY <2>7
    <3> HIDE DEF W, W2
    <3>2. QED BY <2>3, <2>7, <2>10, <2>11, <3>1, TopGrows
  <2>15. IInv'
    BY <2>1, <2>3, <2>5, <2>11, <2>13, <2>14, <1>1 DEF Types
  <2>16. QED BY <2>13, <2>14, <2>15 DEF Forward
<1>6. QED BY <1>3, <1>4, <1>5

\* CompactEpoch writes what was gathered.
LEMMA CompactPutKeeps ==
  ASSUME IInv, NEW c \in Clients, CompactPut(c)
  PROVE  IInv'
<1> DEFINE b == Blob(IF job[c].op = "single" THEN "xs" ELSE "xr", job[c].lo, job[c].hi, job[c].set)
<1>1. /\ job[c].op \in {"single", "range"} /\ job[c].pc = "put" /\ index' = index \cup {b} /\ Keep(c, Idle)
      /\ now' = now /\ markers' = markers /\ marks' = marks /\ state' = state /\ load' = load
      /\ writes' = writes /\ acked' = acked /\ plan' = plan
  BY DEF CompactPut, Finish
<1>2. /\ Types /\ Ordered(index, Top(markers), now) /\ Task(job[c], state[c], Top(markers), plan.ops[c])
      /\ job[c] \in Job /\ now \in Nat /\ Top(markers) \in Nat /\ Watermark(marks) \in Nat
  BY TopTypes DEF IInv, Types, Tasks
<1>3. job[c].lo \in Int /\ job[c].hi \in Int
  BY <1>2 DEF Job
<1>4. /\ 0 <= job[c].lo /\ job[c].lo <= job[c].hi /\ job[c].hi <= Top(markers) - 2
      /\ job[c].op = "single" => job[c].lo = job[c].hi
      /\ job[c].op = "range" => job[c].hi > 0
      /\ job[c].set \subseteq Entry
  BY <1>1, <1>2 DEF Task
<1>5. /\ b.type = (IF job[c].op = "single" THEN "xs" ELSE "xr") /\ b.lo = job[c].lo /\ b.hi = job[c].hi
      /\ b.entries = job[c].set /\ b.ts = now
  BY DEF Blob
<1>6. b \in Blobs
  <2>1. job[c].lo \in Nat /\ job[c].hi \in Nat
    BY <1>3, <1>4, SMTT(30)
  <2>2. QED BY <1>2, <1>4, <2>1 DEF Blob, Blobs
<1> HIDE DEF b
<1>7. Ordered(index', Top(markers'), now')
  <2>1. /\ b.ts <= now /\ b.lo <= b.hi /\ b.type # "xn" /\ (b.type = "xs" => b.hi = b.lo)
        /\ (b.type = "xr" => b.hi > 0) /\ b.hi <= Top(markers) - 2
    BY <1>1, <1>2, <1>3, <1>4, <1>5, SMTT(30)
  <2>2. QED BY <1>1, <1>2, <2>1, ZenonT(30) DEF Ordered
<1>8. job' \in [Clients -> Job] /\ job'[c] = Idle /\ \A d \in Clients \ {c} : job'[d] = job[d]
  BY <1>1, <1>2, IdleFields, JobEffect
<1>9. Types'
  BY <1>1, <1>2, <1>6, <1>8 DEF Types
<1>10. load[c] = Invalid
  <2>1. job[c].pc \notin {"state", "confirm"}
    BY <1>1
  <2>2. QED BY <2>1, NotLoading, InvalidFields
<1>11. Others(c)
  BY <1>1, <1>8 DEF Others
<1>12. \A x \in Entry, e \in Nat : Held(x, e) /\ b.lo <= e /\ e <= b.hi => x \in b.entries
  BY <1>1, <1>5 DEF Held, Carried
<1>13. Gentle({})
  <2>1. Top(markers) <= Top(markers') /\ Watermark(marks) <= Watermark(marks')
    BY <1>1, <1>2, SMTT(30)
  <2>2. ~(job'[c].op \in {"single", "range"})
    BY <1>8, IdleFields
  <2>3. QED BY <1>1, <1>2, <1>5, <1>11, <1>12, <2>1, <2>2, GentleStep, ZenonT(30)
<1>14. QED BY <1>1, <1>7, <1>8, <1>9, <1>10, <1>11, <1>13, FinishActs, ZenonT(30)

\* A write fails, or its process restarts.
LEMMA AbortKeeps ==
  ASSUME IInv, NEW c \in Clients, Abort(c)
  PROVE  IInv'
<1>1. /\ Keep(c, Idle) /\ load' = [load EXCEPT ![c] = NoLoad] /\ state' = [state EXCEPT ![c] = Invalid]
      /\ now' = now /\ index' = index /\ markers' = markers /\ marks' = marks
      /\ writes' = writes /\ acked' = acked /\ plan' = plan
  BY DEF Abort, Finish, Storage
<1>2. Types /\ Ordered(index, Top(markers), now) /\ Top(markers) \in Nat /\ Watermark(marks) \in Nat
  BY TopTypes DEF IInv, Types
<1>3. job' \in [Clients -> Job] /\ job'[c] = Idle /\ \A d \in Clients \ {c} : job'[d] = job[d]
  BY <1>1, <1>2, IdleFields, JobEffect
<1>4. /\ state' \in [Clients -> Snapshot] /\ load' \in [Clients -> Snapshot]
      /\ state'[c] = Invalid /\ load'[c] = Invalid
      /\ \A d \in Clients \ {c} : state'[d] = state[d] /\ load'[d] = load[d]
  BY <1>1, <1>2, InvalidFields DEF Types
<1>5. Types' /\ Ordered(index', Top(markers'), now') /\ Others(c)
  BY <1>1, <1>2, <1>3, <1>4 DEF Types, Others
<1>6. Gentle({})
  <2>1. Top(markers) <= Top(markers') /\ Watermark(marks) <= Watermark(marks')
    BY <1>1, <1>2, SMTT(30)
  <2>2. ~(job'[c].op \in {"single", "range"})
    BY <1>3, IdleFields
  <2>3. QED BY <1>1, <1>2, <1>4, <1>5, <2>1, <2>2, GentleStep
<1>7. QED BY <1>1, <1>3, <1>4, <1>5, <1>6, FinishActs

\* Superseded blobs are deleted.
LEMMA CleanupSupersededKeeps ==
  IInv => \A c \in Clients : CleanupSupersededIndexes(c) => IInv'
\* Only one client does maintenance.
<1>1. ASSUME Types, NEW c \in Clients, NEW d \in Clients,
             plan.ops[c] \cap MaintenanceOps # {}, plan.ops[d] \cap MaintenanceOps # {}
      PROVE  c = d
  <2> USE <1>1
  <2>1. \A f, g \in Clients : Maintains(plan, f) /\ Maintains(plan, g) => f = g
    BY InstanceValid DEF Types
  <2>2. QED BY <2>1 DEF Maintains
\* The replacement time is before the margin.
<1>2. ASSUME NEW cs \in Snapshot, cs.unc # {}, NEW t \in Nat, \A b \in cs.unc : b.ts <= t
      PROVE  MaxReplacementTime(cs) \in Int /\ MaxReplacementTime(cs) <= t - CleanupSafetyMargin
  <2> USE <1>2
  <2> DEFINE T == {b.ts : b \in cs.unc}
  <2>1. T \subseteq Nat /\ T # {} /\ \A y \in T : y <= t
    BY SMT DEF Snapshot, Blobs
  <2>2. MaxReplacementTime(cs) = Max(T) - CleanupSafetyMargin
    BY DEF MaxReplacementTime
  <2> HIDE DEF T
  <2>3. Max(T) \in T
    BY <2>1, MaxIsGreatest
  <2>4. Max(T) \in Nat /\ Max(T) <= t
    BY <2>1, <2>3
  <2>5. QED BY <2>2, <2>4, ParametersValid, SMTT(30) DEF Validate
\* What a cleanup deletes is superseded, and the one client that compacts knows it.
<1>3. ASSUME IInv, NEW c \in Clients, At(c, "superseded", "delete"), NEW b \in Superseded(state[c])
      PROVE  b \in index /\ b.type = "xn" /\ Gone(b.lo)
  <2> USE <1>3
  <2> DEFINE cs == state[c]
  <2>1. /\ Types /\ index \in SUBSET Blobs /\ now \in Nat
        /\ Task(job[c], cs, Top(markers), plan.ops[c])
        /\ Sound(cs, plan.ops[c], index, Top(markers), Watermark(marks), now, acked) /\ cs \in Snapshot
    BY SnapshotFacts DEF IInv, Types, Tasks
  <2>2. cs.unc # {} /\ "superseded" \in plan.ops[c] /\ "superseded" \in MaintenanceOps
    BY <2>1 DEF At, Task, MaintenanceOps
  <2>3. b \in index /\ b.type = "xn"
    BY DEF Superseded, OfType
  <2>4. PICK s \in cs.sets : s.type = "xs" /\ s.lo = b.lo /\ s.ts < MaxReplacementTime(cs)
    BY DEF Superseded
  <2>5. s \in index
    BY <2>1, ZenonT(30) DEF Sound, Based
  <2>6. s.ts < now - CleanupSafetyMargin
    <3>1. \A u \in cs.unc : u.ts <= now
      BY <2>1 DEF Sound, Based
    <3>2. MaxReplacementTime(cs) \in Int /\ MaxReplacementTime(cs) <= now - CleanupSafetyMargin
      BY <2>1, <2>2, <3>1, <1>2
    <3>3. s.ts \in Nat
      BY <2>1, <2>5 DEF Blobs
    <3>4. QED BY <2>1, <2>4, <3>2, <3>3, ParametersValid, SMTT(30) DEF Validate
  <2>7. Old(index, b.lo, now)
    BY <2>4, <2>5, <2>6 DEF Old
  <2>8. ASSUME NEW d \in Clients, Compacts(d) PROVE Knows(state[d], load[d], b.lo)
    <3>1. {"single", "range"} \subseteq MaintenanceOps
      BY DEF MaintenanceOps
    <3>2. d = c
      BY <2>1, <2>2, <2>8, <3>1, <1>1 DEF Compacts
    <3>3. load[c] = NoLoad
      <4>1. job[c].pc \notin {"state", "confirm"}
        BY DEF At
      <4>2. QED BY <4>1, NotLoading
    <3>4. Has(cs, b.lo)
      BY <2>4 DEF Has
    <3>5. QED BY <3>2, <3>3, <3>4 DEF Knows
  <2>9. QED BY <2>3, <2>7, <2>8 DEF Gone
<1>4. ASSUME IInv, NEW c \in Clients, CleanupSupersededIndexes(c)
      PROVE  IInv'
  <2> USE <1>4
  <2>1. /\ At(c, "superseded", "delete") /\ Finish(c)
        /\ UNCHANGED <<now, markers, marks, state, load, writes, acked, plan>>
    BY DEF CleanupSupersededIndexes
  <2>2. PICK S \in SUBSET Superseded(state[c]) : index' = index \ S
    BY DEF CleanupSupersededIndexes
  <2>3. \A b \in S : b.type = "xn" /\ Gone(b.lo)
    BY <2>1, <1>3
  <2>4. load[c] = NoLoad
    <3>1. job[c].pc \notin {"state", "confirm"}
      BY <2>1 DEF At
    <3>2. QED BY <3>1, NotLoading
  <2>5. QED BY <2>1, <2>2, <2>3, <2>4, DeleteStep
<1>5. QED BY <1>4

-----------------------------------------------------------------------------
(* The theorems. *)

\* The steps that leave the storage alone.
LEMMA RefreshKeeps ==
  ASSUME IInv, NEW c \in Clients, Start(c) \/ Refresh(c) \/ Read(c) \/ Abort(c)
  PROVE  IInv' /\ Forward
<1>1. IInv'
  BY StartKeeps, LoadKeeps, ReadKeeps, AbortKeeps
<1>2. markers' = markers /\ marks' = marks
  BY DEF Start, Refresh, LoadSets, LoadUncompacted, Read, ReadState, ReadList, ReadCheck, Abort, Storage
<1>3. QED BY <1>1, <1>2, SameIsForward

\* A step of a maintenance task.
LEMMA MaintainKeeps ==
  ASSUME IInv, NEW c \in Clients, Maintain(c)
  PROVE  IInv' /\ Forward
<1>1. CASE Advance(c) \/ CompactState(c) \/ RangeState(c) \/ CleanupState(c) \/ WatermarkState(c)
  <2>1. markers' = markers /\ marks' = marks
    BY <1>1 DEF Advance, CompactState, RangeState, CleanupState, WatermarkState, Storage
  <2>2. QED BY <1>1, <2>1, PrepareKeeps, SameIsForward
<1>2. CASE CompactList(c) \/ RangeList(c)
  <2>1. markers' = markers /\ marks' = marks
    BY <1>2 DEF CompactList, RangeList, Storage
  <2>2. QED BY <1>2, <2>1, ListKeeps, SameIsForward
<1>3. CASE CompactPut(c)
  BY <1>3, CompactPutKeeps, SameIsForward DEF CompactPut
<1>4. CASE CleanupSupersededIndexes(c)
  BY <1>4, CleanupSupersededKeeps, SameIsForward DEF CleanupSupersededIndexes
<1>5. CASE AdvanceMarker(c) \/ CleanupMarkers(c) \/ WatermarkPut(c)
  BY <1>5, MarkersKeep
<1>6. QED BY <1>1, <1>2, <1>3, <1>4, <1>5 DEF Maintain

\* Every step keeps the invariant, and neither the write epoch nor the watermark goes back.
LEMMA NextKeeps ==
  ASSUME IInv, [Next]_vars
  PROVE  IInv' /\ Forward
<1>1. CASE Tick
  BY <1>1, TickKeeps, SameIsForward DEF Tick, Storage
<1>2. CASE \E c \in Clients : Start(c) \/ Refresh(c) \/ Read(c) \/ Write(c) \/ Maintain(c) \/ Abort(c)
  BY <1>2, RefreshKeeps, WriteKeeps, MaintainKeeps
<1>3. CASE UNCHANGED vars
  <2>1. /\ now' = now /\ index' = index /\ markers' = markers /\ marks' = marks /\ state' = state
        /\ load' = load /\ job' = job /\ writes' = writes /\ acked' = acked /\ plan' = plan
    BY <1>3 DEF vars
  <2>2. Types' /\ Ordered(index', Top(markers'), now') /\ OwnWrites'
    BY <2>1 DEF IInv, Types, OwnWrites
  <2>3. \A x, e : Held(x, e) <=> Held(x, e)'
    BY <2>1 DEF Held, Gone, Compacts
  <2>4. Acked'
    BY <2>1, <2>3 DEF IInv, Acked
  <2>5. ASSUME NEW c \in Clients PROVE Snapshots(c)' /\ Tasks(c)'
    BY <2>1 DEF IInv, Snapshots, Tasks
  <2>6. ASSUME NEW c \in Clients PROVE Writes(c)'
    BY <2>1, <2>3 DEF IInv, Writes, Mine
  <2>7. ASSUME NEW c \in Clients PROVE Shown(c)' /\ Reads(c)'
    BY <2>1, <2>3 DEF IInv, Shown, Reads
  <2>8. QED BY <2>1, <2>2, <2>4, <2>5, <2>6, <2>7, SameIsForward DEF IInv
<1>4. QED BY <1>1, <1>2, <1>3 DEF Next

\* The inductive invariant holds.
THEOREM InvariantHolds == Spec => []IInv
<1>1. Init => IInv
  BY InitIInv
<1>2. IInv /\ [Next]_vars => IInv'
  BY NextKeeps
<1>3. QED BY <1>1, <1>2, PTL DEF Spec

\* NothingLost: whatever writers, compactions from stale snapshots and cleanups do, and
\* whichever complete sets a listing returns first, a process that opens the repository finds
\* every index entry for which WriteIndex returned without an error.
THEOREM AcknowledgedIsFound == Spec => []NothingLost
<1>1. IInv => NothingLost
  BY OpeningFinds
<1>2. QED BY <1>1, InvariantHolds, PTL

\* ReadsComplete: when GetCompleteIndexSet returns, every entry acknowledged before the
\* snapshot of its first attempt is in a blob of the returned set that is still stored.
THEOREM ReadsAreComplete == Spec => []ReadsComplete
<1>1. ASSUME IInv, NEW c \in Clients, Returns(c) PROVE job[c].first \subseteq Entries(job[c].set \cap index)
  <2>1. job[c].op = "read" /\ job[c].pc = "check" /\ now < state[c].validUntil
    BY <1>1 DEF Returns, At
  <2>2. QED BY <1>1, <2>1 DEF IInv, Reads
<1>2. IInv => ReadsComplete
  BY <1>1 DEF ReadsComplete
<1>3. QED BY <1>2, InvariantHolds, PTL

\* NeverBack: no cleanup that works from an old snapshot takes back the write epoch or the
\* deletion watermark.
THEOREM EpochsGoForward == Spec => NeverBack
<1>1. IInv /\ [Next]_vars => [Top(markers') >= Top(markers) /\ Watermark(marks') >= Watermark(marks)]_vars
  <2>1. SUFFICES ASSUME IInv, [Next]_vars
                 PROVE  Top(markers') >= Top(markers) /\ Watermark(marks') >= Watermark(marks)
    OBVIOUS
  <2>2. IInv' /\ Forward
    BY <2>1, NextKeeps
  <2>3. Top(markers) \in Nat /\ Watermark(marks) \in Nat /\ Top(markers') \in Nat /\ Watermark(marks') \in Nat
    BY <2>1, <2>2, TopTypes DEF IInv, Types
  <2>4. QED BY <2>2, <2>3 DEF Forward
<1>2. QED BY <1>1, InvariantHolds, PTL DEF Spec, NeverBack
=============================================================================
