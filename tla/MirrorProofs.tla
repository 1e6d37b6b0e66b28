---------------------------- MODULE MirrorProofs ----------------------------
(* Proofs about Mirror, for any number of keys, any settings and any window.  *)
EXTENDS Mirror, FiniteSetTheorems, TLAPS

Run == [pc : {"idle", "walk", "list", "upload", "hide", "record"}, at : Times,
        limits : [percent : 1..100, min : Nat \ {0}], versioned : BOOLEAN,
        stay : SUBSET Keys, some : SUBSET Keys, objs : SUBSET Keys,
        have : SUBSET Keys, todo : SUBSET Keys, gone : SUBSET Keys]

Typed ==
  /\ local \subseteq Keys /\ born \in [Keys -> Times] /\ live \subseteq Keys
  /\ versioned \in BOOLEAN /\ mirroredAt \in 0..MaxNow /\ now \in Times /\ r \in Run

(* The clock only moves forward, and the device was recorded by earlier runs. *)
Clock ==
  /\ r.at <= now /\ mirroredAt <= now
  /\ r.pc # "idle" => mirroredAt <= r.at

(* A run that has not finished hiding knows which objects stayed: those that  *)
(* were there before it began and still are.                                  *)
Stayed ==
  /\ r.stay \subseteq local
  /\ r.pc \in {"walk", "list", "upload", "hide"} =>
       \A k \in local : born[k] < r.at => k \in r.stay

(* From the walk on they are in its list, after the uploads in the mirror,    *)
(* and never among what it hides.                                             *)
Listed ==
  /\ r.pc = "walk" => r.stay \subseteq r.some
  /\ r.pc \in {"list", "upload", "hide"} => r.stay \subseteq r.objs
  /\ r.pc = "upload" => r.objs \subseteq live \union r.todo
  /\ r.pc = "hide" => r.gone \intersect r.objs = {}
  /\ r.pc \in {"hide", "record"} => \A k \in local : born[k] < r.at => k \in live

(* Hiding takes an answer that versions are kept, and the answer is right.    *)
Answered ==
  /\ r.versioned => versioned
  /\ r.pc = "hide" => r.versioned

IInv == Typed /\ Clock /\ Stayed /\ Listed /\ Answered /\ Offsite

-----------------------------------------------------------------------------
(* The invariant holds at first.                                              *)
LEMMA InitIInv == Init => IInv
BY MirrorAssumption DEF Init, IInv, Typed, Run, Clock, Stayed, Listed, Answered, Offsite, NoRun, Times, Keys

(* A run that is over is a run of the right type.                             *)
LEMMA NoRunTyped == NoRun \in Run
BY MirrorAssumption DEF NoRun, Run, Times

(* The end of a run keeps it.                                                 *)
LEMMA Over ==
  ASSUME IInv, r' = NoRun, UNCHANGED <<store, now, versioned>>, live \subseteq live', live' \subseteq Keys,
         mirroredAt' \in {mirroredAt, r.at}, mirroredAt' = r.at => r.pc = "record" \/ mirroredAt = r.at
  PROVE  IInv'
<1>1. Typed' /\ Clock'
  BY NoRunTyped, MirrorAssumption DEF IInv, Typed, Clock, Run, NoRun, store, Times
<1>2. Stayed' /\ Listed' /\ Answered'
  BY Zenon DEF Stayed, Listed, Answered, NoRun
<1>3. Offsite'
  BY Zenon DEF IInv, Offsite, Listed, Stayed, store
<1>4. QED BY <1>1, <1>2, <1>3, Zenon DEF IInv

(* hide returns to device, with the mirror as it is.                          *)
LEMMA Returned ==
  ASSUME IInv, Done, UNCHANGED <<store, now, mirroredAt, versioned>>, live' \subseteq live,
         (r.pc = "upload" /\ r.todo = {}) \/ r.pc = "hide", live \ live' \subseteq r.gone,
         r.pc = "upload" => live' = live
  PROVE  IInv'
<1>1. Typed' /\ Clock'
  BY NoRunTyped, MirrorAssumption, ZenonT(60) DEF IInv, Typed, Clock, Run, NoRun, store, Times, Done
<1>2. Stayed' /\ Answered'
  BY Zenon DEF Stayed, Answered, NoRun, Done
<1>3. ASSUME NEW k \in local, born[k] < r.at PROVE k \in live'
  <2>1. k \in r.objs
    BY <1>3, Zenon DEF IInv, Stayed, Listed
  <2>2. CASE r.pc = "upload"
    BY <2>1, <2>2, Zenon DEF IInv, Listed
  <2>3. CASE r.pc = "hide"
    BY <1>3, <2>1, <2>3, Zenon DEF IInv, Listed
  <2>4. QED BY <2>2, <2>3, Zenon
<1>4. Listed'
  BY <1>3, Zenon DEF Listed, NoRun, Done, store
<1>5. Offsite'
  BY <1>3, MirrorAssumption DEF IInv, Typed, Run, Offsite, Clock, Times, store
<1>6. QED BY <1>1, <1>2, <1>4, <1>5, Zenon DEF IInv

(* Every step keeps the invariant.                                            *)
LEMMA NextIInv == IInv /\ [Next]_vars => IInv'
<1> SUFFICES ASSUME IInv, [Next]_vars PROVE IInv'
  BY Zenon
<1> USE MirrorAssumption
<1>1. CASE Start
  <2>1. PICK l \in Limits, v \in {FALSE, versioned} :
          r' = [NoRun EXCEPT !.pc = "walk", !.at = now, !.limits = l, !.versioned = v, !.stay = local, !.some = local]
    BY <1>1, Zenon DEF Start
  <2>2. UNCHANGED <<local, born, live, versioned, mirroredAt, now>>
    BY <1>1, Zenon DEF Start, store, bucket
  <2>3. r' = [pc |-> "walk", at |-> now, limits |-> l, versioned |-> v, stay |-> local, some |-> local,
              objs |-> {}, have |-> {}, todo |-> {}, gone |-> {}]
    BY <2>1, Zenon DEF NoRun
  <2>4. Typed'
    BY <2>2, <2>3, Zenon DEF IInv, Typed, Run
  <2>5. Clock' /\ Stayed' /\ Listed' /\ Answered'
    <3>1. r'.pc = "walk" /\ r'.at = now /\ r'.stay = local /\ r'.some = local /\ r'.versioned = v
      BY <2>3, Zenon
    <3>2. Clock' /\ Stayed' /\ Listed'
      BY <2>2, <3>1 DEF IInv, Typed, Clock, Stayed, Listed, Times
    <3>3. Answered'
      BY <2>2, <3>1, Zenon DEF IInv, Typed, Answered
    <3>4. QED BY <3>2, <3>3, Zenon
  <2>6. Offsite'
    BY <2>2, Zenon DEF IInv, Offsite
  <2>7. QED BY <2>4, <2>5, <2>6, Zenon DEF IInv
<1>2. CASE Stop
  BY <1>2, Over, Zenon DEF Stop, IInv, Typed, bucket
<1>3. CASE Walk
  <2>1. PICK objs \in SUBSET r.some : r.stay \subseteq objs /\
          r' = IF objs = {} THEN NoRun ELSE [r EXCEPT !.pc = "list", !.objs = objs, !.some = {}]
    BY <1>3, Zenon DEF Walk
  <2>2. CASE objs = {}
    BY <1>3, <2>1, <2>2, Over, Zenon DEF Walk, IInv, Typed, bucket
  <2>3. CASE objs # {}
    <3>1. r' = [r EXCEPT !.pc = "list", !.objs = objs, !.some = {}]
      BY <2>1, <2>3, Zenon
    <3>2. Typed'
      BY <1>3, <3>1, ZenonT(60) DEF Walk, IInv, Typed, Run, store, bucket
    <3>3. Clock' /\ Stayed' /\ Listed' /\ Answered' /\ Offsite'
      BY <1>3, <2>1, <3>1, ZenonT(60) DEF Walk, IInv, Typed, Run, Clock, Stayed, Listed, Answered, Offsite, store, bucket
    <3>4. QED BY <3>2, <3>3, Zenon DEF IInv
  <2>4. QED BY <2>2, <2>3, Zenon
<1>4. CASE Mirrored
  <2>1. Typed'
    BY <1>4, Zenon DEF Mirrored, IInv, Typed, Run, store, bucket
  <2>2. Clock' /\ Stayed' /\ Listed' /\ Answered' /\ Offsite'
    BY <1>4, Zenon DEF Mirrored, IInv, Typed, Run, Clock, Stayed, Listed, Answered, Offsite, store, bucket
  <2>3. QED BY <2>1, <2>2, Zenon DEF IInv
<1>5. ASSUME NEW k \in Keys, Upload(k) PROVE IInv'
  <2>1. CASE r' = NoRun
    <3>1. live \subseteq live' /\ live' \subseteq Keys /\ UNCHANGED <<store, now, versioned, mirroredAt>>
      BY <1>5, Zenon DEF Upload, Stored, IInv, Typed, bucket
    <3>2. QED BY <2>1, <3>1, Over, Zenon
  <2>2. CASE r' = [r EXCEPT !.todo = @ \ {k}] /\ Stored(k)
    <3>1. Typed'
      BY <1>5, <2>2 DEF Upload, Stored, IInv, Typed, Run, store
    <3>2. Clock' /\ Stayed' /\ Listed' /\ Answered' /\ Offsite'
      BY <1>5, <2>2, Zenon DEF Upload, Stored, IInv, Typed, Run, Clock, Stayed, Listed, Answered, Offsite, store
    <3>3. QED BY <3>1, <3>2, Zenon DEF IInv
  <2>3. QED BY <1>5, <2>1, <2>2, Zenon DEF Upload
<1>6. CASE HideBegin
  <2>1. CASE Done
    BY <1>6, <2>1, Returned, Zenon DEF HideBegin, bucket
  <2>2. CASE r.versioned /\ r' = [r EXCEPT !.pc = "hide", !.gone = r.have \ r.objs]
    <3>1. Typed'
      BY <1>6, <2>2, ZenonT(60) DEF HideBegin, IInv, Typed, Run, store, bucket
    <3>2. Clock' /\ Stayed' /\ Listed' /\ Answered' /\ Offsite'
      BY <1>6, <2>2 DEF HideBegin, IInv, Typed, Run, Clock, Stayed, Listed, Answered, Offsite, store, bucket
    <3>3. QED BY <3>1, <3>2, Zenon DEF IInv
  <2>3. QED BY <1>6, <2>1, <2>2, Zenon DEF HideBegin
<1>7. ASSUME NEW k \in Keys, Hide(k) PROVE IInv'
  <2>1. k \in r.gone /\ r.pc = "hide" /\ live' \subseteq live /\ live \ live' \subseteq {k}
    BY <1>7, Zenon DEF Hide, First, Marked, bucket
  <2>2. UNCHANGED <<store, now, mirroredAt, versioned>>
    BY <1>7, Zenon DEF Hide, Marked, bucket
  <2>3. CASE Done
    BY <2>1, <2>2, <2>3, Returned, Zenon
  <2>4. CASE r' = [r EXCEPT !.gone = @ \ {k}]
    <3>1. Typed'
      BY <2>1, <2>2, <2>4, Zenon DEF IInv, Typed, Run, store
    <3>2. k \in local => born[k] >= r.at
      BY <2>1 DEF IInv, Typed, Run, Stayed, Listed, Times
    <3>3. Clock' /\ Stayed' /\ Listed' /\ Answered'
      BY <2>1, <2>2, <2>4, <3>2 DEF IInv, Typed, Run, Clock, Stayed, Listed, Answered, store, Times
    <3>4. Offsite'
      BY <2>1, <2>2, <2>4, <3>2 DEF IInv, Typed, Run, Clock, Offsite, store, Times
    <3>5. QED BY <3>1, <3>3, <3>4, Zenon DEF IInv
  <2>5. QED BY <1>7, <2>3, <2>4, Zenon DEF Hide
<1>8. CASE HideEnd
  BY <1>8, Returned, Zenon DEF HideEnd, bucket
<1>9. CASE Record
  BY <1>9, Over, Zenon DEF Record, IInv, Typed, bucket
<1>10. ASSUME NEW k \in Keys, Put(k) PROVE IInv'
  <2>1. Typed'
    BY <1>10 DEF Put, IInv, Typed, Run, bucket
  <2>2. r'.at = r.at /\ r'.pc = r.pc /\ r'.stay = r.stay /\ r'.objs = r.objs /\ r'.todo = r.todo
        /\ r'.gone = r.gone /\ r'.versioned = r.versioned /\ r.some \subseteq r'.some
    BY <1>10 DEF Put, IInv, Typed, Run
  <2>3. Clock' /\ Answered'
    BY <1>10, <2>2, Zenon DEF Put, IInv, Clock, Answered, bucket
  <2>4. Stayed' /\ Listed' /\ Offsite'
    BY <1>10, <2>2 DEF Put, IInv, Typed, Run, Clock, Stayed, Listed, Offsite, bucket, Times
  <2>5. QED BY <2>1, <2>3, <2>4, Zenon DEF IInv
<1>11. ASSUME NEW k \in Keys, Remove(k) PROVE IInv'
  <2>1. Typed'
    BY <1>11 DEF Remove, IInv, Typed, Run, bucket, Times
  <2>2. Clock' /\ Answered' /\ Stayed' /\ Listed' /\ Offsite'
    BY <1>11 DEF Remove, IInv, Typed, Run, Clock, Answered, Stayed, Listed, Offsite, bucket
  <2>3. QED BY <2>1, <2>2, Zenon DEF IInv
<1>12. CASE Tick
  BY <1>12 DEF Tick, IInv, Typed, Clock, Answered, Stayed, Listed, Offsite, store, bucket, Run, Times
<1>13. CASE UNCHANGED vars
  BY <1>13, Zenon DEF vars, IInv, Typed, Clock, Answered, Stayed, Listed, Offsite
<1>14. QED BY <1>1, <1>2, <1>3, <1>4, <1>5, <1>6, <1>7, <1>8, <1>9, <1>10, <1>11, <1>12, <1>13, Zenon DEF Next, Job

-----------------------------------------------------------------------------
(* The invariant holds throughout.                                            *)
THEOREM Invariance == Spec => []IInv
BY InitIInv, NextIInv, PTL DEF Spec

(* What mirrored_at says is true: every object that was written before that   *)
(* time and is still in the hosted store is in the mirror.                    *)
THEOREM RecordedIsOffsite == Spec => []Offsite
<1>1. IInv => Offsite BY Zenon DEF IInv
<1>2. QED BY <1>1, Invariance, PTL

(* The job hides nothing that was in the hosted store all through its run.    *)
THEOREM LiveKeysNeverTouched == Spec => OnlyGoneHidden
<1>1. IInv /\ [Next]_vars => [live \ live' \subseteq Keys \ r.stay]_vars
  <2> SUFFICES ASSUME IInv, [Next]_vars PROVE live \ live' \subseteq Keys \ r.stay
    BY Zenon
  <2>1. ASSUME NEW k \in Keys, Hide(k) PROVE live \ live' \subseteq Keys \ r.stay
    <3>1. live \ live' \subseteq {k} /\ k \in r.gone /\ r.pc = "hide"
      BY <2>1, Zenon DEF Hide, First, Marked, bucket
    <3>2. QED BY <3>1, Zenon DEF IInv, Listed
  <2>2. CASE \E k \in Keys : Upload(k)
    BY <2>2, Zenon DEF Upload, Stored, bucket
  <2>3. CASE live' = live
    BY <2>3, Zenon
  <2>4. QED
    BY <2>1, <2>2, <2>3, Zenon DEF Next, Job, Start, Stop, Walk, Mirrored, HideBegin, HideEnd, Record, Put, Remove,
       Tick, bucket, vars
<1>2. QED BY <1>1, Invariance, PTL DEF Spec, OnlyGoneHidden

(* No version leaves the bucket, whatever it does with versions: the job does *)
(* not hide where it has no answer that they are kept.                        *)
THEOREM NoVersionDeleted == Spec => VersionsKept
<1>1. IInv /\ [Next]_vars => [versions \subseteq versions']_vars
  <2> SUFFICES ASSUME IInv, [Next]_vars PROVE versions \subseteq versions'
    BY Zenon
  <2>1. CASE \E k \in Keys : Hide(k)
    BY <2>1, Zenon DEF Hide, Marked, bucket, IInv, Answered
  <2>2. CASE \E k \in Keys : Upload(k)
    BY <2>2, Zenon DEF Upload, Stored, bucket
  <2>3. CASE versions' = versions
    BY <2>3, Zenon
  <2>4. QED
    BY <2>1, <2>2, <2>3, Zenon DEF Next, Job, Start, Stop, Walk, Mirrored, HideBegin, HideEnd, Record, Put, Remove,
       Tick, bucket, vars
<1>2. QED BY <1>1, Invariance, PTL DEF Spec, VersionsKept

-----------------------------------------------------------------------------
(* Counting hides one by one: finitely many, no fewer where no count is       *)
(* smaller, and one more where one count is.                                  *)
LEMMA EachFinite ==
  ASSUME NEW h \in [Times -> Nat], NEW W \in SUBSET Times
  PROVE  IsFiniteSet(Each(h, W))
<1> DEFINE Parts == {{t} \X (1..h[t]) : t \in W}
           part == [t \in W |-> {t} \X (1..h[t])]
<1>1. IsFiniteSet(W)
  <2>1. IsFiniteSet(Times)
    BY FS_Interval, MirrorAssumption DEF Times
  <2>2. QED BY <2>1, FS_Subset, Zenon
<1>2. part \in Surjection(W, Parts)
  BY Zenon DEF Surjection
<1>3. IsFiniteSet(Parts)
  BY <1>1, <1>2, FS_Surjection, Zenon
<1>4. ASSUME NEW t \in W PROVE IsFiniteSet({t} \X (1..h[t]))
  <2>1. h[t] \in Int
    OBVIOUS
  <2>2. IsFiniteSet(1..h[t])
    BY <2>1, FS_Interval
  <2>3. IsFiniteSet({t})
    BY FS_Singleton, Zenon
  <2>4. QED BY <2>2, <2>3, FS_Product, Zenon
<1>5. \A P \in Parts : IsFiniteSet(P)
  BY <1>4, Zenon
<1>6. IsFiniteSet(UNION Parts)
  BY <1>3, <1>5, FS_UNION, Zenon
<1>7. QED BY <1>6, Zenon DEF Each

LEMMA EachFewer ==
  ASSUME NEW h \in [Times -> Nat], NEW g \in [Times -> Nat], NEW W \in SUBSET Times, \A t \in W : h[t] <= g[t]
  PROVE  Cardinality(Each(h, W)) <= Cardinality(Each(g, W))
<1>1. \A t \in W : 1..h[t] \subseteq 1..g[t]
  OBVIOUS
<1>2. Each(h, W) \subseteq Each(g, W)
  BY <1>1 DEF Each
<1>3. QED BY <1>2, EachFinite, FS_Subset, Zenon

LEMMA EachOneMore ==
  ASSUME NEW h \in [Times -> Nat], NEW W \in SUBSET Times, NEW t \in W
  PROVE  Cardinality(Each([h EXCEPT ![t] = @ + 1], W)) = Cardinality(Each(h, W)) + 1
<1> DEFINE g == [h EXCEPT ![t] = @ + 1]
<1>1. t \in Times /\ h[t] \in Nat /\ g[t] = h[t] + 1 /\ \A u \in Times \ {t} : g[u] = h[u]
  BY Zenon
<1>2. 1..g[t] = (1..h[t]) \union {h[t] + 1}
  BY <1>1
<1>3. Each(g, W) = Each(h, W) \union {<<t, h[t] + 1>>}
  <2>1. ASSUME NEW u \in W, u # t PROVE {u} \X (1..g[u]) = {u} \X (1..h[u])
    BY <1>1, <2>1, Zenon
  <2>2. {t} \X (1..g[t]) = ({t} \X (1..h[t])) \union {<<t, h[t] + 1>>}
    BY <1>2
  <2>3. QED BY <2>1, <2>2 DEF Each
<1>4. <<t, h[t] + 1>> \notin Each(h, W)
  BY <1>1 DEF Each
<1>5. QED BY <1>3, <1>4, EachFinite, FS_AddElement, Zenon

(* The runs to come, and the one there is, look back to this time.            *)
Horizon == IF r.pc = "idle" THEN now ELSE r.at

(* The hides the run is still going to make.                                  *)
Owed(t) == IF r.pc = "hide" /\ t = r.at THEN Cardinality(r.gone) ELSE 0

(* Every hide, made or still to come, was reserved before, as far back as     *)
(* anybody looks.                                                             *)
Covered ==
  /\ reserved \in [Times -> Nat] /\ hidden \in [Times -> Nat]
  /\ \A t \in Times : t + hideWindow >= Horizon => hidden[t] + Owed(t) <= reserved[t]

(* Keys are finitely many.                                                    *)
LEMMA KeysFinite ==
  ASSUME NEW S \in SUBSET Keys
  PROVE  IsFiniteSet(S) /\ Cardinality(S) \in Nat
<1>1. IsFiniteSet(Keys)
  BY FS_Interval, MirrorAssumption DEF Keys
<1>2. QED BY <1>1, FS_Subset, FS_CardinalityType, Zenon

(* The two numbers that hide compares.                                        *)
LEMMA RecentType ==
  ASSUME NEW h \in [Times -> Nat]
  PROVE  Recent(h) \in Nat
BY EachFinite, FS_CardinalityType, Zenon DEF Recent

LEMMA LimitType ==
  ASSUME Typed
  PROVE  Limit \in Nat
<1> DEFINE c == Cardinality(r.have)
           s == (c * r.limits.percent) \div 100
<1>1. r.have \subseteq Keys /\ r.limits.percent \in Nat /\ r.limits.min \in Nat
  BY DEF Typed, Run
<1>2. c \in Nat
  BY <1>1, KeysFinite, Zenon
<1> HIDE DEF c
<1>3. c * r.limits.percent \in Nat
  BY <1>1, <1>2
<1>4. s \in Nat
  BY <1>3
<1> HIDE DEF s
<1>5. \E m \in {r.limits.min, s} : \A y \in {r.limits.min, s} : m >= y
  BY <1>1, <1>4
<1>6. Max({r.limits.min, s}) \in {r.limits.min, s}
  BY <1>5, Zenon DEF Max
<1>7. QED BY <1>1, <1>4, <1>6, Zenon DEF Limit, s, c

(* The reservation covers what the run is going to hide, and keeps the count  *)
(* within the limit.                                                          *)
LEMMA ReserveCovers ==
  ASSUME IInv, IInv', Covered, HideBegin
  PROVE  Covered' /\ HideBudget'
<1> USE MirrorAssumption
<1>1. r \in Run /\ r.at \in Times /\ r.at <= now /\ now \in Times
  BY Zenon DEF IInv, Typed, Clock, Run
<1>2. UNCHANGED <<hidden, now>> /\ r.pc = "upload"
  BY <1>1, Zenon DEF HideBegin
<1>3. CASE Done /\ UNCHANGED reserved
  <2>1. r'.pc = "record" /\ r'.at = r.at
    BY <1>3, Zenon DEF Done, NoRun
  <2>2. QED BY <1>1, <1>2, <1>3, <2>1, Zenon DEF Covered, HideBudget, Horizon, Owed
<1>4. ASSUME Reserve(Cardinality(r.have \ r.objs)), r' = [r EXCEPT !.pc = "hide", !.gone = r.have \ r.objs]
      PROVE  Covered' /\ HideBudget'
  <2> DEFINE n == Cardinality(r.have \ r.objs)
             W == {t \in Times : t + hideWindow >= r.at}
  <2>1. r'.pc = "hide" /\ r'.at = r.at /\ r'.gone = r.have \ r.objs /\ r'.limits = r.limits /\ r'.have = r.have
    BY <1>1, <1>4, Zenon DEF Run
  <2>2. n \in Nat
    <3>1. r.have \ r.objs \subseteq Keys
      BY <1>1, Zenon DEF Run
    <3>2. QED BY <3>1, KeysFinite, Zenon
  <2>3. Recent(reserved) + n <= Limit
    BY <1>4, Zenon DEF Reserve
  <2>4. Recent(hidden) <= Recent(reserved)
    <3>1. \A t \in W : Owed(t) = 0 /\ t + hideWindow >= Horizon
      BY <1>1, <1>2, Zenon DEF Horizon, Owed
    <3>2. hidden \in [Times -> Nat] /\ reserved \in [Times -> Nat] /\ W \subseteq Times
      BY Zenon DEF Covered
    <3>3. \A t \in W : hidden[t] <= reserved[t]
      BY <3>1, <3>2 DEF Covered
    <3>4. QED BY <3>2, <3>3, EachFewer, Zenon DEF Recent
  <2>5. Recent(hidden)' = Recent(hidden) /\ Limit' = Limit
    BY <1>2, <2>1, Zenon DEF Recent, Limit
  <2>6. HideBudget'
    <3>1. Recent(hidden) \in Nat /\ Recent(reserved) \in Nat /\ Limit \in Nat
      BY RecentType, LimitType, Zenon DEF IInv, Covered
    <3>2. Recent(hidden) + n <= Limit
      BY <2>2, <2>3, <2>4, <3>1
    <3>3. QED BY <2>1, <2>5, <3>2, Zenon DEF HideBudget
  <2>7. Covered'
    <3>1. /\ reserved \in [Times -> Nat] /\ hidden \in [Times -> Nat] /\ hideWindow \in Nat /\ Times \subseteq Nat
          /\ \A t \in Times : t + hideWindow >= r.at => hidden[t] <= reserved[t]
      BY <1>1, <1>2 DEF Covered, Horizon, Owed, Times
    <3>2. /\ reserved' \in [Times -> Nat]
          /\ \A t \in Times : t + hideWindow >= r.at => reserved'[t] = reserved[t] + IF t = r.at THEN n ELSE 0
      BY <1>1, <1>4, <2>2, <3>1 DEF Reserve
    <3>3. Horizon' = r.at /\ \A t \in Times : Owed(t)' = IF t = r.at THEN n ELSE 0
      BY <2>1, Zenon DEF Horizon, Owed
    <3>4. ASSUME NEW t \in Times, t + hideWindow >= r.at
          PROVE  hidden[t] + (IF t = r.at THEN n ELSE 0) <= reserved'[t]
      <4>1. /\ hidden[t] \in Nat /\ reserved[t] \in Nat /\ hidden[t] <= reserved[t]
            /\ reserved'[t] = reserved[t] + IF t = r.at THEN n ELSE 0
        BY <3>1, <3>2, <3>4, Zenon
      <4>2. QED BY <2>2, <4>1
    <3>5. \A t \in Times : t + hideWindow' >= Horizon' => hidden'[t] + Owed(t)' <= reserved'[t]
      BY <1>2, <2>1, <3>3, <3>4, Zenon
    <3>6. QED BY <1>2, <2>1, <3>1, <3>2, <3>5, Zenon DEF Covered
  <2>8. QED BY <2>6, <2>7, Zenon
<1>5. QED BY <1>2, <1>3, <1>4, Zenon DEF HideBegin

(* A delete marker uses up one of them.                                       *)
LEMMA HideCovers ==
  ASSUME IInv, Covered, HideBudget, NEW k \in Keys, Hide(k)
  PROVE  Covered' /\ HideBudget'
<1> USE MirrorAssumption
<1> DEFINE n == Cardinality(r.gone)
           W == {t \in Times : t + hideWindow >= r.at}
<1>1. r \in Run /\ r.at \in Times /\ r.at <= now /\ now \in Times /\ r.pc = "hide" /\ k \in r.gone
  BY Zenon DEF IInv, Typed, Clock, Run, Hide, First
<1>2. UNCHANGED <<reserved, now>>
  BY Zenon DEF Hide
<1>0. r.at \in W /\ W \subseteq Times
  BY <1>1 DEF Times
<1>4. n \in Nat /\ n >= 1 /\ Cardinality(r.gone \ {k}) = n - 1
  <2>1. r.gone \subseteq Keys
    BY <1>1, Zenon DEF Run
  <2>2. IsFiniteSet(r.gone) /\ n \in Nat /\ Cardinality(r.gone \ {k}) \in Nat
    BY <2>1, KeysFinite, Zenon
  <2>3. Cardinality(r.gone \ {k}) = n - 1
    BY <1>1, <2>2, FS_RemoveElement, Zenon
  <2>4. QED BY <2>2, <2>3
<1>3. /\ reserved \in [Times -> Nat] /\ hidden \in [Times -> Nat] /\ hideWindow \in Nat /\ Times \subseteq Nat
      /\ \A t \in W : hidden[t] <= reserved[t] /\ (t = r.at => hidden[t] + n <= reserved[t])
  <2>1. \A t \in W : t + hideWindow >= Horizon /\ Owed(t) = IF t = r.at THEN n ELSE 0
    BY <1>1, Zenon DEF Horizon, Owed
  <2> HIDE DEF n
  <2>2. reserved \in [Times -> Nat] /\ hidden \in [Times -> Nat] /\ hideWindow \in Nat /\ Times \subseteq Nat
    BY DEF Covered, Times
  <2>3. \A t \in W : t \in Times /\ hidden[t] + Owed(t) <= reserved[t]
    BY <2>1, Zenon DEF Covered
  <2>4. QED BY <1>4, <2>1, <2>2, <2>3
<1> HIDE DEF n
<1>5. hidden' = hidden \/ hidden' = [hidden EXCEPT ![r.at] = @ + 1]
  BY Zenon DEF Hide, Marked
<1>6. /\ hidden' \in [Times -> Nat]
      /\ \A t \in W : hidden'[t] <= reserved[t] /\ (t = r.at => hidden'[t] + (n - 1) <= reserved[t])
  BY <1>1, <1>3, <1>4, <1>5
<1>7. CASE Done
  <2>1. r'.pc = "record" /\ r'.at = r.at
    BY <1>7, Zenon DEF Done, NoRun
  <2>2. QED BY <1>1, <1>2, <1>3, <1>6, <2>1 DEF Covered, HideBudget, Horizon, Owed
<1>8. ASSUME r' = [r EXCEPT !.gone = @ \ {k}]
      PROVE  Covered' /\ HideBudget'
  <2>1. r'.pc = "hide" /\ r'.at = r.at /\ r'.gone = r.gone \ {k} /\ r'.limits = r.limits /\ r'.have = r.have
    BY <1>1, <1>8, Zenon DEF Run
  <2>2. Horizon' = r.at /\ \A t \in Times : Owed(t)' = IF t = r.at THEN n - 1 ELSE 0
    BY <1>4, <2>1, Zenon DEF Horizon, Owed
  <2>3. Covered'
    <3>1. ASSUME NEW t \in Times, t + hideWindow >= r.at
          PROVE  hidden'[t] + (IF t = r.at THEN n - 1 ELSE 0) <= reserved[t]
      <4>1. hidden'[t] \in Nat /\ hidden'[t] <= reserved[t] /\ (t = r.at => hidden'[t] + (n - 1) <= reserved[t])
        BY <1>6, <3>1, Zenon
      <4>2. QED BY <4>1
    <3>2. \A t \in Times : t + hideWindow' >= Horizon' => hidden'[t] + Owed(t)' <= reserved'[t]
      BY <1>2, <2>2, <3>1, Zenon
    <3>3. QED BY <1>2, <1>3, <1>6, <3>2, Zenon DEF Covered
  <2>4. Recent(hidden)' <= Recent(hidden) + 1
    <3>1. Recent(hidden) = Cardinality(Each(hidden, W)) /\ Recent(hidden)' = Cardinality(Each(hidden', W))
      BY <2>1, Zenon DEF Recent
    <3> HIDE DEF W
    <3>2. Cardinality(Each([hidden EXCEPT ![r.at] = @ + 1], W)) = Cardinality(Each(hidden, W)) + 1
      <4>1. hidden \in [Times -> Nat]
        BY <1>3, Zenon
      <4>2. QED BY <1>0, <4>1, EachOneMore, Zenon
    <3>3. hidden' = [hidden EXCEPT ![r.at] = @ + 1] => Recent(hidden)' = Recent(hidden) + 1
      BY <3>1, <3>2, Zenon
    <3>4. Recent(hidden) \in Nat
      BY <1>3, RecentType, Zenon
    <3>5. QED BY <1>5, <3>1, <3>3, <3>4
  <2>5. Limit' = Limit
    BY <2>1, Zenon DEF Limit
  <2>6. Recent(hidden) \in Nat /\ Recent(hidden)' \in Nat /\ Limit \in Nat
    <3>1. Recent(hidden)' = Cardinality(Each(hidden', W)) /\ W \subseteq Times
      BY <2>1, Zenon DEF Recent
    <3>2. QED BY <1>3, <1>6, <3>1, RecentType, LimitType, EachFinite, FS_CardinalityType, Zenon DEF IInv
  <2>7. Recent(hidden) + n <= Limit
    BY <1>1, Zenon DEF HideBudget, n
  <2>8. Recent(hidden)' + (n - 1) <= Limit
    BY <1>4, <2>4, <2>6, <2>7
  <2>9. HideBudget'
    BY <1>4, <2>1, <2>5, <2>8, Zenon DEF HideBudget
  <2>10. QED BY <2>3, <2>9, Zenon
<1>9. QED BY <1>7, <1>8, Zenon DEF Hide

(* A step that does not hide leaves the counts alone and looks no further     *)
(* back, or it does not concern the run.                                      *)
LEMMA NoHideCovers ==
  ASSUME IInv, Covered, UNCHANGED <<reserved, hidden>>, r'.pc # "hide", Horizon' \in Nat, Horizon <= Horizon'
  PROVE  Covered' /\ HideBudget'
<1>1. \A t \in Times : Owed(t)' = 0 /\ Owed(t) \in Nat
  <2>1. Cardinality(r.gone) \in Nat
    BY KeysFinite, Zenon DEF IInv, Typed, Run
  <2>2. QED BY <2>1, Zenon DEF Owed
<1>2. Horizon \in Nat /\ hideWindow \in Nat /\ Times \subseteq Nat
  BY MirrorAssumption DEF IInv, Typed, Run, Horizon, Times
<1>3. ASSUME NEW t \in Times, t + hideWindow >= Horizon' PROVE hidden[t] <= reserved[t]
  <2>1. t + hideWindow >= Horizon
    BY <1>2, <1>3
  <2>2. hidden[t] + Owed(t) <= reserved[t] /\ hidden[t] \in Nat /\ reserved[t] \in Nat
    BY <2>1, Zenon DEF Covered
  <2>3. QED BY <1>1, <2>2
<1>4. ASSUME NEW t \in Times, t + hideWindow >= Horizon' PROVE hidden'[t] + Owed(t)' <= reserved'[t]
  BY <1>1, <1>3, <1>4 DEF Covered
<1>5. QED BY <1>4, Zenon DEF HideBudget, Covered

LEMMA OutsideCovers ==
  ASSUME IInv, Covered, HideBudget, UNCHANGED <<reserved, hidden>>, now' \in {now, now + 1},
         r'.pc = r.pc, r'.at = r.at, r'.gone = r.gone, r'.limits = r.limits, r'.have = r.have
  PROVE  Covered' /\ HideBudget'
<1>1. Horizon \in Nat /\ Horizon' \in Nat /\ Horizon <= Horizon' /\ hideWindow \in Nat /\ Times \subseteq Nat
  BY MirrorAssumption DEF IInv, Typed, Run, Horizon, Times
<1>2. \A t \in Times : Owed(t)' = Owed(t) /\ Owed(t) \in Nat
  <2>1. Cardinality(r.gone) \in Nat
    BY KeysFinite, Zenon DEF IInv, Typed, Run
  <2>2. QED BY <2>1, Zenon DEF Owed
<1>3. ASSUME NEW t \in Times, t + hideWindow >= Horizon' PROVE hidden'[t] + Owed(t)' <= reserved'[t]
  <2>1. t + hideWindow >= Horizon
    <3>1. t \in Nat /\ t + hideWindow \in Nat
      BY <1>1
    <3>2. QED BY <1>1, <1>3, <3>1
  <2>2. hidden[t] + Owed(t) <= reserved[t]
    BY <2>1, Zenon DEF Covered
  <2>3. QED BY <1>2, <2>2, Zenon
<1>4. Recent(hidden)' = Recent(hidden) /\ Limit' = Limit
  BY Zenon DEF Recent, Limit
<1>5. QED BY <1>3, <1>4, Zenon DEF HideBudget, Covered

LEMMA NextCovers ==
  ASSUME IInv, IInv', Covered, HideBudget, [Next]_vars
  PROVE  Covered' /\ HideBudget'
<1> USE DEF store, bucket
<1>1. r \in Run /\ r.at \in Nat /\ r.at <= now /\ now \in Nat
  BY DEF IInv, Typed, Clock, Run, Times
<1>2. ASSUME UNCHANGED <<reserved, hidden, now>>, r'.pc # "hide", (r'.pc = "idle" \/ r'.at = Horizon)
      PROVE  Covered' /\ HideBudget'
  <2>1. Horizon' \in Nat /\ Horizon <= Horizon'
    BY <1>1, <1>2 DEF Horizon
  <2>2. QED BY <1>2, <2>1, NoHideCovers, Zenon
<1>3. CASE Start
  <2>1. r'.pc = "walk" /\ r'.at = now /\ r.pc = "idle"
    BY <1>3, Zenon DEF Start, NoRun
  <2>2. QED BY <1>2, <1>3, <2>1, Zenon DEF Start, Horizon
<1>4. CASE Stop \/ Record
  <2>1. r'.pc = "idle"
    BY <1>4 DEF Stop, Record, NoRun
  <2>2. QED BY <1>2, <1>4, <2>1, Zenon DEF Stop, Record
<1>5. CASE Walk \/ Mirrored
  <2>1. r'.pc = "idle" \/ (r'.pc \in {"list", "upload"} /\ r'.at = r.at /\ r.pc # "idle")
    <3>1. CASE Walk
      <4>1. PICK objs : r' = NoRun \/ r' = [r EXCEPT !.pc = "list", !.objs = objs, !.some = {}]
        BY <3>1, Zenon DEF Walk
      <4>2. NoRun.pc = "idle" /\ r.pc = "walk"
        BY <3>1, Zenon DEF Walk, NoRun
      <4>3. QED BY <1>1, <4>1, <4>2, Zenon DEF Run
    <3>2. CASE Mirrored
      BY <1>1, <3>2, Zenon DEF Mirrored, Run
    <3>3. QED BY <1>5, <3>1, <3>2, Zenon
  <2>2. QED BY <1>2, <1>5, <2>1, Zenon DEF Walk, Mirrored, Horizon
<1>6. ASSUME NEW k \in Keys, Upload(k) PROVE Covered' /\ HideBudget'
  <2>1. r'.pc = "idle" \/ (r'.pc = "upload" /\ r'.at = r.at /\ r.pc # "idle")
    BY <1>1, <1>6 DEF Upload, NoRun, Run
  <2>2. QED BY <1>2, <1>6, <2>1, Zenon DEF Upload, Horizon
<1>7. CASE HideEnd
  <2>1. r'.pc = "record" /\ r'.at = r.at /\ r.pc # "idle"
    BY <1>7, Zenon DEF HideEnd, Done, NoRun
  <2>2. QED BY <1>2, <1>7, <2>1, Zenon DEF HideEnd, Horizon
<1>8. CASE HideBegin
  BY <1>8, ReserveCovers, Zenon
<1>9. ASSUME NEW k \in Keys, Hide(k) PROVE Covered' /\ HideBudget'
  BY <1>9, HideCovers, Zenon
<1>10. ASSUME NEW k \in Keys, Put(k) \/ Remove(k) PROVE Covered' /\ HideBudget'
  <2>1. r'.pc = r.pc /\ r'.at = r.at /\ r'.gone = r.gone /\ r'.limits = r.limits /\ r'.have = r.have
    BY <1>1, <1>10, Zenon DEF Put, Remove, Run
  <2>2. QED BY <1>10, <2>1, OutsideCovers, Zenon DEF Put, Remove
<1>11. CASE Tick \/ UNCHANGED vars
  BY <1>11, OutsideCovers, Zenon DEF Tick, vars
<1>12. QED BY <1>3, <1>4, <1>5, <1>6, <1>7, <1>8, <1>9, <1>10, <1>11, Zenon DEF Next, Job

(* What the runs of a window hide stays within the limit of the last of them, *)
(* for any settings, any window and however the runs before it ended.         *)
THEOREM HidesWithinBudget == Spec => []HideBudget
<1>1. Init => Covered /\ HideBudget
  <2>1. Init => reserved \in [Times -> Nat] /\ hidden = reserved /\ r.pc = "idle"
    BY DEF Init, NoRun
  <2>2. QED BY <2>1 DEF Covered, HideBudget, Owed
<1>2. IInv /\ IInv' /\ Covered /\ HideBudget /\ [Next]_vars => Covered' /\ HideBudget'
  BY NextCovers, Zenon
<1>3. QED BY <1>1, <1>2, Invariance, PTL DEF Spec
=============================================================================
