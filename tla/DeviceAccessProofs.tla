-------------------------- MODULE DeviceAccessProofs --------------------------
(***************************************************************************)
(* That what a handler took away stays away, for any number of agents,     *)
(* keys, requests and kit handlers, any cache size and any TTL.            *)
(*                                                                         *)
(* The heart of it is Dead(k): the row is off, the cache has no entry, and *)
(* no lookup still in flight may put one back, because its generation is   *)
(* over.  A regeneration has brought every key it replaces to that state   *)
(* when it answers, and no step of anybody leaves it.                      *)
(***************************************************************************)
EXTENDS DeviceAccess, TLAPS

(* Requests carry a generation and a start that are not in the future.       *)
Started == \A r \in Requests :
  /\ req[r].gen <= gen /\ req[r].at <= now
  /\ req[r].pc # "idle" => req[r].k \in KeyIds

(* A row is switched off once, and no cache entry, nor a lookup that has     *)
(* read the row, outlives that by more than the TTL.                         *)
Expiry ==
  /\ \A k \in KeyIds :
       /\ key[k] = "active" => offAt[k] = None
       /\ offAt[k] # None => offAt[k] <= now
       /\ cache[k] # None => cache[k] <= now + TTL
       /\ cache[k] # None /\ offAt[k] # None => cache[k] <= offAt[k] + TTL
  /\ \A r \in Requests :
       LET k == req[r].k IN
       /\ req[r].pc = "fill" /\ offAt[k] # None => req[r].at <= offAt[k]
       /\ req[r].pc \in {"store", "served"} /\ offAt[k] # None => req[r].at < offAt[k] + TTL

(* The key is out of use for good.                                           *)
Dead(k) ==
  /\ offAt[k] # None /\ cache[k] = None
  /\ \A r \in Requests : req[r].k = k /\ req[r].pc = "fill" => req[r].gen # gen

(* How far a kit handler has come with the keys it replaces.                 *)
Replacing == \A h \in KitHandlers :
  /\ \A k \in kit[h].old : Owner[k] = kit[h].a /\ (key[k] = "active" \/ offAt[k] # None)
  /\ kit[h].pc = "disable" => \A k \in kit[h].old \ kit[h].todo : offAt[k] # None
  /\ kit[h].pc = "mint" => \A k \in kit[h].old : Dead(k)

(* What was reported as done is done, and a late request gets nowhere.       *)
Reported ==
  /\ \A a \in Agents : rev[a] = "schedule" \/ a \in barred => a \in revoked
  /\ \A k \in KeyIds : k \in barred => Dead(k)
  /\ \A r \in Requests : req[r].late =>
       /\ req[r].pc # "served"
       /\ Owner[req[r].k] \in revoked \/ (req[r].k \in barred /\ req[r].pc \in {"read", "refused"})

IInv == TypeOK /\ Started /\ Expiry /\ Replacing /\ Reported
-----------------------------------------------------------------------------
(* Type correctness.                                                         *)

(* A request that goes on keeps what it started with.                        *)
LEMMA MovedRequest ==
  ASSUME TypeOK, NEW r \in Requests, NEW p \in {"idle", "read", "fill", "store", "served", "refused"},
         req' = [req EXCEPT ![r].pc = p]
  PROVE  /\ req' \in [Requests -> Lookups]
         /\ req'[r].pc = p /\ req'[r].k = req[r].k /\ req'[r].gen = req[r].gen /\ req'[r].at = req[r].at
         /\ req'[r].late = req[r].late
         /\ \A q \in Requests \ {r} : req'[q] = req[q]
  <1>1. req \in [Requests -> Lookups]
    BY Zenon DEF TypeOK
  <1>2. req'[r] = [req[r] EXCEPT !.pc = p] /\ \A q \in Requests \ {r} : req'[q] = req[q]
    BY <1>1, Zenon
  <1>3. [req[r] EXCEPT !.pc = p] \in Lookups
    BY <1>1, Zenon DEF Lookups
  <1>4. req' \in [Requests -> Lookups]
    BY <1>1, <1>3, Zenon
  <1>5. req'[r].pc = p /\ req'[r].k = req[r].k /\ req'[r].gen = req[r].gen /\ req'[r].at = req[r].at
    BY <1>1, <1>2 DEF Lookups
  <1>6. req'[r].late = req[r].late
    BY <1>1, <1>2 DEF Lookups
  <1> QED
    BY <1>2, <1>4, <1>5, <1>6, Zenon

(* A request that starts, or ends.                                           *)
LEMMA FreshRequest ==
  ASSUME TypeOK, NEW r \in Requests, NEW new \in Lookups, req' = [req EXCEPT ![r] = new]
  PROVE  req' \in [Requests -> Lookups] /\ req'[r] = new /\ \A q \in Requests \ {r} : req'[q] = req[q]
  BY Zenon DEF TypeOK

(* What each step of a request does to it.                                   *)
LEMMA RequestEffect ==
  ASSUME TypeOK, NEW r \in Requests,
         \/ \E k \in KeyIds : LookupStart(r, k)
         \/ LookupRead(r) \/ LookupFill(r) \/ StoreForAgent(r) \/ RequestEnd(r)
  PROVE  /\ req' \in [Requests -> Lookups]
         /\ \A q \in Requests \ {r} : req'[q] = req[q]
         /\ \/ /\ req'[r].k \in KeyIds /\ req'[r].gen = gen /\ req'[r].at = now
               /\ req'[r].pc = IF Hit(req'[r].k) THEN "store" ELSE "read"
               /\ req'[r].late => req'[r].k \in barred \/ Owner[req'[r].k] \in barred
            \/ /\ req'[r].k = req[r].k /\ req'[r].gen = req[r].gen /\ req'[r].at = req[r].at /\ req'[r].late = req[r].late
               /\ \/ req[r].pc = "read" /\ req'[r].pc = "fill" /\ key[req[r].k] = "active"
                  \/ req[r].pc = "fill" /\ req'[r].pc = "store"
                  \/ req[r].pc = "store" /\ req'[r].pc = "served" /\ Owner[req[r].k] \notin revoked
                  \/ req[r].pc \in {"read", "store"} /\ req'[r].pc = "refused"
            \/ req'[r].pc = "idle" /\ req'[r].gen = 0 /\ req'[r].at = 0 /\ ~req'[r].late
  <1>1. ASSUME NEW k \in KeyIds, LookupStart(r, k)
        PROVE  /\ req' \in [Requests -> Lookups]
               /\ \A q \in Requests \ {r} : req'[q] = req[q]
               /\ req'[r].k \in KeyIds /\ req'[r].gen = gen /\ req'[r].at = now
               /\ req'[r].pc = IF Hit(req'[r].k) THEN "store" ELSE "read"
               /\ req'[r].late => req'[r].k \in barred \/ Owner[req'[r].k] \in barred
    <2> DEFINE p == IF Hit(k) THEN "store" ELSE "read"
               l == k \in barred \/ Owner[k] \in barred
               new == [pc |-> p, k |-> k, gen |-> gen, at |-> now, late |-> l]
    <2>1. p \in {"store", "read"} /\ gen \in Nat /\ now \in Nat /\ l \in BOOLEAN
      BY Zenon DEF TypeOK
    <2>2. req' = [req EXCEPT ![r] = new]
      BY <1>1, Zenon DEF LookupStart
    <2> HIDE DEF p, l
    <2>3. new \in Lookups /\ new.k = k /\ new.gen = gen /\ new.at = now /\ new.pc = p
      BY <2>1, Zenon DEF Lookups
    <2>4. new.late = l
      BY Zenon
    <2> HIDE DEF new
    <2>5. req' \in [Requests -> Lookups] /\ req'[r] = new /\ \A q \in Requests \ {r} : req'[q] = req[q]
      BY <2>2, <2>3, FreshRequest, Zenon
    <2> QED
      BY <2>3, <2>4, <2>5, Zenon DEF p, l
  <1>2. CASE LookupRead(r)
    <2>1. PICK p \in {"fill", "refused"} : /\ req' = [req EXCEPT ![r].pc = p]
                                           /\ p = "fill" => key[req[r].k] = "active"
      BY <1>2, Zenon DEF LookupRead
    <2> QED
      BY <1>2, <2>1, MovedRequest, Zenon DEF LookupRead
  <1>3. CASE LookupFill(r)
    BY <1>3, MovedRequest, Zenon DEF LookupFill
  <1>4. CASE StoreForAgent(r)
    <2>1. PICK p \in {"served", "refused"} : /\ req' = [req EXCEPT ![r].pc = p]
                                             /\ p = "served" => Owner[req[r].k] \notin revoked
      BY <1>4, Zenon DEF StoreForAgent
    <2> QED
      BY <1>4, <2>1, MovedRequest, Zenon DEF StoreForAgent
  <1>5. CASE RequestEnd(r)
    <2>1. req' = [req EXCEPT ![r] = Idle] /\ Idle \in Lookups
      BY <1>5, Zenon DEF RequestEnd, Idle, Lookups
    <2>2. req' \in [Requests -> Lookups] /\ req'[r] = Idle /\ \A q \in Requests \ {r} : req'[q] = req[q]
      BY <2>1, FreshRequest, Zenon
    <2> QED
      BY <2>2 DEF Idle
  <1> QED
    BY <1>1, <1>2, <1>3, <1>4, <1>5, Zenon

(* What each step of a kit handler does to it.                               *)
LEMMA KitEffect ==
  ASSUME TypeOK, NEW h \in KitHandlers, NEW new \in KitBuilds, kit' = [kit EXCEPT ![h] = new]
  PROVE  kit' \in [KitHandlers -> KitBuilds] /\ kit'[h] = new /\ \A g \in KitHandlers \ {h} : kit'[g] = kit[g]
  BY Zenon DEF TypeOK

LEMMA NoKitType == NoKit \in KitBuilds /\ NoKit.old = {} /\ NoKit.pc = "idle"
  BY Zenon DEF NoKit, KitBuilds

LEMMA IdleType == Idle \in Lookups /\ Idle.pc = "idle" /\ Idle.gen = 0 /\ Idle.at = 0 /\ Idle.late = FALSE
  BY Zenon DEF Idle, Lookups

LEMMA InitType == Init => TypeOK
  <1> SUFFICES ASSUME Init PROVE TypeOK
    BY Zenon
  <1>1. req \in [Requests -> Lookups] /\ kit \in [KitHandlers -> KitBuilds]
    BY NoKitType, IdleType, Zenon DEF Init
  <1> QED
    BY <1>1, AccessAssumption, Zenon DEF Init, TypeOK

LEMMA NextType ==
  ASSUME TypeOK, Next
  PROVE  TypeOK'
  <1> USE AccessAssumption DEF rows
  <1>1. ASSUME NEW r \in Requests,
               \/ \E k \in KeyIds : LookupStart(r, k)
               \/ LookupRead(r) \/ LookupFill(r) \/ StoreForAgent(r) \/ RequestEnd(r)
        PROVE  TypeOK'
    <2>1. req' \in [Requests -> Lookups]
      BY <1>1, RequestEffect, Zenon
    <2>2. cache' \in [KeyIds -> Nat \cup {None}]
      <3>1. CASE LookupFill(r)
        <4>1. req[r].at + TTL \in Nat
          BY DEF TypeOK, Lookups
        <4> QED
          BY <3>1, <4>1, Zenon DEF LookupFill, TypeOK
      <3>2. CASE ~LookupFill(r)
        BY <1>1, <3>2, Zenon DEF LookupStart, LookupRead, StoreForAgent, RequestEnd, TypeOK
      <3> QED
        BY <3>1, <3>2, Zenon
    <2>3. UNCHANGED <<key, offAt, revoked, retired, gen, rev, reap, kit, barred, now>>
      BY <1>1, Zenon DEF LookupStart, LookupRead, LookupFill, StoreForAgent, RequestEnd
    <2> QED
      BY <2>1, <2>2, <2>3, Zenon DEF TypeOK
  <1>2. ASSUME NEW a \in Agents, RevokeDisable(a) \/ RevokeInvalidate(a) \/ RevokeStamp(a) \/ RevokeDone(a) \/ ReapKeys(a)
        PROVE  TypeOK'
    <2>1. CASE RevokeDisable(a)
      BY <2>1, Zenon DEF TypeOK, RevokeDisable, Disable
    <2>2. CASE RevokeInvalidate(a)
      BY <2>2 DEF TypeOK, RevokeInvalidate, Invalidate
    <2>3. CASE RevokeStamp(a) \/ RevokeDone(a)
      BY <2>3 DEF TypeOK, RevokeStamp, RevokeDone
    <2>4. CASE ReapKeys(a)
      BY <2>4, Zenon DEF TypeOK, ReapKeys
    <2> QED
      BY <1>2, <2>1, <2>2, <2>3, <2>4, Zenon
  <1>3. ASSUME NEW h \in KitHandlers, NEW a \in Agents, NEW rotate \in BOOLEAN, KitRead(h, a, rotate)
        PROVE  TypeOK'
    <2>1. PICK p \in {"disable", "mint"} : kit' = [kit EXCEPT ![h] = [pc |-> p, a |-> a, todo |-> ActiveKits(a), old |-> ActiveKits(a)]]
      BY <1>3, Zenon DEF KitRead
    <2>2. [pc |-> p, a |-> a, todo |-> ActiveKits(a), old |-> ActiveKits(a)] \in KitBuilds
      BY Zenon DEF KitBuilds, ActiveKits
    <2>3. kit' \in [KitHandlers -> KitBuilds]
      BY <2>1, <2>2, KitEffect, Zenon
    <2> QED
      BY <1>3, <2>3, Zenon DEF KitRead, TypeOK
  <1>4. ASSUME NEW h \in KitHandlers, NEW k \in Kits, KitDisable(h, k)
        PROVE  TypeOK'
    <2>1. kit' \in [KitHandlers -> KitBuilds]
      BY <1>4, NoKitType DEF KitDisable, TypeOK, KitBuilds
    <2> QED
      BY <1>4, <2>1 DEF KitDisable, Disable, TypeOK
  <1>5. ASSUME NEW h \in KitHandlers, NEW k \in Kits, KitMint(h, k)
        PROVE  TypeOK'
    <2>1. kit' \in [KitHandlers -> KitBuilds] /\ kit[h].old \subseteq KeyIds
      BY <1>5, NoKitType, Zenon DEF KitMint, TypeOK, KitBuilds
    <2> QED
      BY <1>5, <2>1, Zenon DEF KitMint, TypeOK
  <1>6. ASSUME NEW h \in KitHandlers, KitInvalidate(h) \/ KitFail(h)
        PROVE  TypeOK'
    <2>1. kit' \in [KitHandlers -> KitBuilds]
      BY <1>6, NoKitType DEF KitInvalidate, KitFail, TypeOK, KitBuilds
    <2> QED
      BY <1>6, <2>1 DEF KitInvalidate, KitFail, Invalidate, TypeOK
  <1>7. CASE ReapRetire \/ Tick
    BY <1>7 DEF ReapRetire, Tick, TypeOK
  <1>8. CASE Restart
    <2>1. req' \in [Requests -> Lookups] /\ kit' \in [KitHandlers -> KitBuilds]
      BY <1>8, NoKitType, IdleType, Zenon DEF Restart
    <2> QED
      BY <1>8, <2>1, Zenon DEF Restart, TypeOK
  <1> QED
    BY <1>1, <1>2, <1>3, <1>4, <1>5, <1>6, <1>7, <1>8, Zenon DEF Next

-----------------------------------------------------------------------------
(* The steps that are no request's.                                          *)
Request(r) ==
  \/ \E k \in KeyIds : LookupStart(r, k)
  \/ LookupRead(r) \/ LookupFill(r) \/ StoreForAgent(r) \/ RequestEnd(r)

LEMMA Handlers ==
  ASSUME TypeOK, Next, ~Restart, ~\E r \in Requests : Request(r)
  PROVE  /\ req' = req /\ gen <= gen' /\ now <= now'
         /\ \A k \in KeyIds : cache'[k] \in {cache[k], None}
         /\ \A k \in KeyIds : \/ key'[k] = key[k] /\ offAt'[k] = offAt[k]
                              \/ key[k] = "active" /\ key'[k] # "active" /\ offAt'[k] = now /\ now' = now
                              \/ key[k] # "active" /\ key'[k] = "absent" /\ offAt'[k] = offAt[k]
                              \/ key[k] = "absent" /\ key'[k] = "active" /\ offAt[k] = None /\ offAt'[k] = None
  <1> USE AccessAssumption DEF rows
  <1>1. ASSUME NEW a \in Agents, RevokeInvalidate(a) PROVE gen' = gen + 1 /\ UNCHANGED <<rows, req, now>> /\ \A k \in KeyIds : cache'[k] \in {cache[k], None}
    BY <1>1, Zenon DEF RevokeInvalidate, Invalidate, TypeOK
  <1>2. ASSUME NEW h \in KitHandlers, KitInvalidate(h) PROVE gen' = gen + 1 /\ UNCHANGED <<rows, req, now>> /\ \A k \in KeyIds : cache'[k] \in {cache[k], None}
    BY <1>2, Zenon DEF KitInvalidate, Invalidate, TypeOK
  <1>3. ASSUME NEW a \in Agents, RevokeStamp(a) \/ RevokeDone(a) PROVE UNCHANGED <<key, offAt, req, gen, cache, now>>
    BY <1>3, Zenon DEF RevokeStamp, RevokeDone
  <1>4. ASSUME NEW h \in KitHandlers, (\E a \in Agents, rotate \in BOOLEAN : KitRead(h, a, rotate)) \/ KitFail(h)
        PROVE  UNCHANGED <<key, offAt, req, gen, cache, now>>
    BY <1>4, Zenon DEF KitRead, KitFail
  <1>5. CASE ReapRetire
    BY <1>5 DEF ReapRetire, TypeOK
  <1>6. CASE Tick
    BY <1>6 DEF Tick, TypeOK
  <1>7. ASSUME NEW a \in Agents, RevokeDisable(a) \/ ReapKeys(a)
        PROVE  /\ UNCHANGED <<req, gen, cache, now>>
               /\ \A k \in KeyIds : \/ key'[k] = key[k] /\ offAt'[k] = offAt[k]
                                    \/ key[k] = "active" /\ key'[k] # "active" /\ offAt'[k] = now
                                    \/ key[k] # "active" /\ key'[k] = "absent" /\ offAt'[k] = offAt[k]
    BY <1>7 DEF RevokeDisable, ReapKeys, Disable, TypeOK
  <1>8. ASSUME NEW h \in KitHandlers, NEW k \in Kits, KitDisable(h, k)
        PROVE  /\ UNCHANGED <<req, gen, cache, now>>
               /\ \A i \in KeyIds : \/ key'[i] = key[i] /\ offAt'[i] = offAt[i]
                                    \/ key[i] = "active" /\ key'[i] # "active" /\ offAt'[i] = now
    BY <1>8 DEF KitDisable, Disable, TypeOK
  <1>9. ASSUME NEW h \in KitHandlers, NEW k \in Kits, KitMint(h, k)
        PROVE  /\ UNCHANGED <<req, gen, cache, now>>
               /\ \A i \in KeyIds : \/ key'[i] = key[i] /\ offAt'[i] = offAt[i]
                                    \/ key[i] = "absent" /\ key'[i] = "active" /\ offAt[i] = None /\ offAt'[i] = None
    BY <1>9, Zenon DEF KitMint, TypeOK
  <1>10. gen \in Nat /\ now \in Nat
    BY Zenon DEF TypeOK
  <1> QED
    BY <1>1, <1>2, <1>3, <1>4, <1>5, <1>6, <1>7, <1>8, <1>9, <1>10 DEF Next, Request

LEMMA NextStarted ==
  ASSUME TypeOK, TypeOK', Started, Next
  PROVE  Started'
  <1>0. gen \in Nat /\ now \in Nat /\ gen' \in Nat /\ now' \in Nat
    BY Zenon DEF TypeOK
  <1>1. ASSUME NEW r \in Requests, Request(r)
        PROVE  Started'
    <2>1. gen' = gen /\ now' = now
      BY <1>1, Zenon DEF Request, LookupStart, LookupRead, LookupFill, StoreForAgent, RequestEnd
    <2>2. req[r].pc = "read" \/ req[r].pc = "fill" \/ req[r].pc = "store" => req[r].k \in KeyIds
      BY Zenon DEF Started
    <2>3. req'[r].gen <= gen /\ req'[r].at <= now /\ (req'[r].pc # "idle" => req'[r].k \in KeyIds)
      BY <1>0, <1>1, <2>2, RequestEffect DEF Request, Started
    <2>4. \A q \in Requests \ {r} : req'[q] = req[q]
      BY <1>1, RequestEffect, Zenon DEF Request
    <2> QED
      BY <2>1, <2>3, <2>4, Zenon DEF Started
  <1>2. CASE Restart
    <2>1. \A r \in Requests : req'[r] = Idle
      BY <1>2, Zenon DEF Restart
    <2> QED
      BY <1>0, <2>1, IdleType DEF Started
  <1>3. CASE ~Restart /\ ~\E r \in Requests : Request(r)
    <2>1. req' = req /\ gen <= gen' /\ now <= now'
      BY <1>3, Handlers, Zenon
    <2>2. \A r \in Requests : req[r].gen \in Nat /\ req[r].at \in Nat
      BY Zenon DEF TypeOK, Lookups
    <2> QED
      BY <1>0, <2>1, <2>2 DEF Started
  <1> QED
    BY <1>1, <1>2, <1>3, Zenon

(* What a request may do to the cache.                                       *)
LEMMA RequestCache ==
  ASSUME TypeOK, NEW r \in Requests, Request(r)
  PROVE  /\ UNCHANGED <<key, offAt, revoked, gen, rev, kit, barred, now>>
         /\ \A k \in KeyIds : \/ cache'[k] \in {cache[k], None}
                              \/ /\ req[r].pc = "fill" /\ k = req[r].k /\ gen = req[r].gen
                                 /\ cache'[k] = req[r].at + TTL
  <1> USE DEF Request, rows
  <1>1. UNCHANGED <<key, offAt, revoked, gen, rev, kit, barred, now>>
    BY Zenon DEF LookupStart, LookupRead, LookupFill, StoreForAgent, RequestEnd
  <1>2. CASE LookupFill(r)
    BY <1>1, <1>2, Zenon DEF LookupFill, TypeOK
  <1>3. CASE LookupRead(r)
    BY <1>1, <1>3, Zenon DEF LookupRead, TypeOK
  <1>4. CASE ~LookupFill(r) /\ ~LookupRead(r)
    BY <1>1, <1>4, Zenon DEF LookupStart, StoreForAgent, RequestEnd
  <1> QED
    BY <1>2, <1>3, <1>4, Zenon

LEMMA NextExpiry ==
  ASSUME TypeOK, TypeOK', Started, Expiry, Next
  PROVE  Expiry'
  <1> DEFINE RowOK(k) ==
               /\ key[k] = "active" => offAt[k] = None
               /\ offAt[k] # None => offAt[k] <= now
               /\ cache[k] # None => cache[k] <= now + TTL
               /\ cache[k] # None /\ offAt[k] # None => cache[k] <= offAt[k] + TTL
             LookupOK(r) ==
               /\ req[r].pc = "fill" /\ offAt[req[r].k] # None => req[r].at <= offAt[req[r].k]
               /\ req[r].pc \in {"store", "served"} /\ offAt[req[r].k] # None => req[r].at < offAt[req[r].k] + TTL
  <1>0. /\ TTL \in Nat \ {0} /\ now \in Nat /\ now' \in Nat /\ None \notin Nat
        /\ \A k \in KeyIds : offAt[k] \in Nat \cup {None} /\ cache[k] \in Nat \cup {None}
        /\ \A k \in KeyIds : offAt'[k] \in Nat \cup {None} /\ cache'[k] \in Nat \cup {None}
        /\ \A r \in Requests : req[r].at \in Nat /\ req'[r].at \in Nat
    BY AccessAssumption, Zenon DEF TypeOK, Lookups
  <1>1. (\A k \in KeyIds : RowOK(k)) /\ (\A r \in Requests : LookupOK(r))
    BY Zenon DEF Expiry
  <1>2. SUFFICES (\A k \in KeyIds : RowOK(k)') /\ (\A r \in Requests : LookupOK(r)')
    BY Zenon DEF Expiry
  <1>3. ASSUME NEW r \in Requests, Request(r)
        PROVE  (\A k \in KeyIds : RowOK(k)') /\ (\A q \in Requests : LookupOK(q)')
    <2>1. /\ key' = key /\ offAt' = offAt /\ now' = now
          /\ \A k \in KeyIds : \/ cache'[k] \in {cache[k], None}
                               \/ req[r].pc = "fill" /\ k = req[r].k /\ cache'[k] = req[r].at + TTL
      BY <1>3, RequestCache, Zenon
    <2>2. req[r].at <= now /\ (req[r].pc # "idle" => req[r].k \in KeyIds)
      BY Zenon DEF Started
    <2>3. \A k \in KeyIds : RowOK(k)'
      BY <1>0, <1>1, <2>1, <2>2
    <2>4. LookupOK(r)'
      <3>1. CASE req'[r].k \in KeyIds /\ req'[r].at = now /\ req'[r].pc = IF Hit(req'[r].k) THEN "store" ELSE "read"
        BY <1>0, <1>1, <2>1, <3>1 DEF Hit
      <3>2. CASE /\ req'[r].k = req[r].k /\ req'[r].at = req[r].at
                 /\ \/ req[r].pc = "read" /\ req'[r].pc = "fill" /\ key[req[r].k] = "active"
                    \/ req[r].pc = "fill" /\ req'[r].pc = "store"
                    \/ req[r].pc = "store" /\ req'[r].pc = "served"
                    \/ req[r].pc \in {"read", "store"} /\ req'[r].pc = "refused"
        BY <1>0, <1>1, <2>1, <2>2, <3>2
      <3>3. CASE req'[r].pc = "idle"
        BY <3>3, Zenon
      <3> QED
        BY <1>3, <3>1, <3>2, <3>3, RequestEffect, Zenon DEF Request
    <2>5. \A q \in Requests \ {r} : LookupOK(q)'
      BY <1>1, <1>3, <2>1, RequestEffect, Zenon DEF Request
    <2> QED
      BY <2>3, <2>4, <2>5, Zenon
  <1>4. CASE Restart
    <2>1. key' = key /\ offAt' = offAt /\ now' = now /\ \A k \in KeyIds : cache'[k] = None
      BY <1>4, Zenon DEF Restart, rows
    <2>2. \A r \in Requests : req'[r].pc = "idle"
      BY <1>4, IdleType, Zenon DEF Restart
    <2> QED
      BY <1>1, <2>1, <2>2, Zenon
  <1>5. CASE ~Restart /\ ~\E r \in Requests : Request(r)
    <2>1. /\ req' = req /\ now <= now'
          /\ \A k \in KeyIds : cache'[k] \in {cache[k], None}
          /\ \A k \in KeyIds : \/ key'[k] = key[k] /\ offAt'[k] = offAt[k]
                               \/ key[k] = "active" /\ key'[k] # "active" /\ offAt'[k] = now /\ now' = now
                               \/ key[k] # "active" /\ key'[k] = "absent" /\ offAt'[k] = offAt[k]
                               \/ key[k] = "absent" /\ key'[k] = "active" /\ offAt[k] = None /\ offAt'[k] = None
      BY <1>5, Handlers, Zenon
    <2>2. \A k \in KeyIds : RowOK(k)'
      BY <1>0, <1>1, <2>1
    <2>3. ASSUME NEW r \in Requests PROVE LookupOK(r)'
      <3>1. CASE req[r].pc = "idle"
        BY <2>1, <3>1, Zenon
      <3>2. CASE req[r].k \in KeyIds
        <4>1. req[r].at <= now
          BY Zenon DEF Started
        <4>2. offAt'[req[r].k] = offAt[req[r].k] \/ offAt'[req[r].k] = now
          BY <2>1, <3>2, Zenon
        <4> QED
          BY <1>0, <1>1, <2>1, <3>2, <4>1, <4>2
      <3> QED
        BY <3>1, <3>2, Zenon DEF Started
    <2> QED
      BY <2>2, <2>3, Zenon
  <1> QED
    BY <1>3, <1>4, <1>5, Zenon

-----------------------------------------------------------------------------
(* No step of anybody brings a key back into use.                            *)
LEMMA DeadStays ==
  ASSUME TypeOK, TypeOK', Started, Expiry, Next, NEW k \in KeyIds, Dead(k)
  PROVE  Dead(k)'
  <1>0. /\ gen \in Nat /\ gen' \in Nat /\ key[k] # "active" /\ now \in Nat /\ None \notin Nat
        /\ \A q \in Requests : req[q].gen \in Nat /\ req[q].gen <= gen
    BY AccessAssumption, Zenon DEF TypeOK, Lookups, Started, Expiry, Dead
  <1>1. ASSUME NEW r \in Requests, Request(r)
        PROVE  Dead(k)'
    <2>1. /\ offAt' = offAt /\ gen' = gen /\ cache'[k] = None
      BY <1>1, RequestCache, Zenon DEF Dead
    <2>2. req'[r].k = k => req'[r].pc # "fill"
      BY <1>0, <1>1, RequestEffect, Zenon DEF Request
    <2>3. \A q \in Requests \ {r} : req'[q] = req[q]
      BY <1>1, RequestEffect, Zenon DEF Request
    <2> QED
      BY <2>1, <2>2, <2>3, Zenon DEF Dead
  <1>2. CASE Restart
    <2>1. offAt' = offAt /\ cache'[k] = None /\ \A r \in Requests : req'[r].pc = "idle"
      BY <1>2, IdleType, Zenon DEF Restart, rows
    <2> QED
      BY <2>1, Zenon DEF Dead
  <1>3. CASE ~Restart /\ ~\E r \in Requests : Request(r)
    <2>1. req' = req /\ gen <= gen' /\ cache'[k] = None /\ offAt'[k] = offAt[k]
      BY <1>0, <1>3, Handlers, Zenon DEF Dead
    <2> QED
      BY <1>0, <2>1 DEF Dead
  <1> QED
    BY <1>1, <1>2, <1>3, Zenon

(* A key that is in use or off is never minted again.                        *)
LEMMA OffStays ==
  ASSUME TypeOK, Expiry, Next, NEW k \in KeyIds
  PROVE  /\ offAt[k] # None => offAt'[k] # None
         /\ key[k] = "active" \/ offAt[k] # None => key'[k] = "active" \/ offAt'[k] # None
  <1>0. now # None /\ (key[k] = "active" => offAt[k] = None)
    BY AccessAssumption, Zenon DEF TypeOK, Expiry
  <1>1. CASE Restart \/ \E r \in Requests : Request(r)
    <2>1. key' = key /\ offAt' = offAt
      BY <1>1, RequestCache, Zenon DEF Restart, rows
    <2> QED
      BY <2>1, Zenon
  <1>2. CASE ~Restart /\ ~\E r \in Requests : Request(r)
    BY <1>0, <1>2, Handlers, Zenon
  <1> QED
    BY <1>1, <1>2, Zenon

(* Where kit handlers come to: the regeneration has invalidated after the    *)
(* last of the keys it read was off.                                         *)
LEMMA NextReplacing ==
  ASSUME TypeOK, TypeOK', Started, Expiry, Replacing, Next
  PROVE  Replacing'
  <1> DEFINE P(h) ==
        /\ \A k \in kit[h].old : Owner[k] = kit[h].a /\ (key[k] = "active" \/ offAt[k] # None)
        /\ kit[h].pc = "disable" => \A k \in kit[h].old \ kit[h].todo : offAt[k] # None
        /\ kit[h].pc = "mint" => \A k \in kit[h].old : Dead(k)
  <1>0. /\ \A h \in KitHandlers : kit[h].old \subseteq KeyIds /\ P(h)
        /\ \A k \in KeyIds : offAt[k] # None => offAt'[k] # None
        /\ \A k \in KeyIds : key[k] = "active" \/ offAt[k] # None => key'[k] = "active" \/ offAt'[k] # None
        /\ \A k \in KeyIds : Dead(k) => Dead(k)'
    BY OffStays, DeadStays, Zenon DEF TypeOK, KitBuilds, Replacing
  <1>1. SUFFICES \A h \in KitHandlers : P(h)'
    BY Zenon DEF Replacing
  <1>2. ASSUME NEW h \in KitHandlers, kit'[h] = kit[h]
        PROVE  P(h)'
    BY <1>0, <1>2, Zenon
  <1>3. ASSUME NEW h \in KitHandlers, kit'[h] = NoKit
        PROVE  P(h)'
    BY <1>3, NoKitType, Zenon
  <1> HIDE DEF P
  <1>4. ASSUME NEW h \in KitHandlers, NEW a \in Agents, NEW rotate \in BOOLEAN, KitRead(h, a, rotate)
        PROVE  \A g \in KitHandlers : P(g)'
    <2>1. PICK p \in {"disable", "mint"} :
            /\ kit' = [kit EXCEPT ![h] = [pc |-> p, a |-> a, todo |-> ActiveKits(a), old |-> ActiveKits(a)]]
            /\ p = "mint" => ActiveKits(a) = {}
      BY <1>4, Zenon DEF KitRead
    <2>2. kit'[h] = [pc |-> p, a |-> a, todo |-> ActiveKits(a), old |-> ActiveKits(a)] /\ \A g \in KitHandlers \ {h} : kit'[g] = kit[g]
      BY <2>1, Zenon DEF TypeOK
    <2>3. key' = key
      BY <1>4, Zenon DEF KitRead, rows
    <2>4. P(h)'
      BY <2>1, <2>2, <2>3 DEF P, ActiveKits
    <2> QED
      BY <1>2, <2>2, <2>4, Zenon
  <1>5. ASSUME NEW h \in KitHandlers, NEW k \in Kits, KitDisable(h, k)
        PROVE  \A g \in KitHandlers : P(g)'
    <2>1. \A g \in KitHandlers \ {h} : kit'[g] = kit[g]
      BY <1>5, Zenon DEF KitDisable, TypeOK
    <2>2. CASE Disable({k}) /\ kit' = [kit EXCEPT ![h].todo = @ \ {k}]
      <3>1. kit'[h].pc = "disable" /\ kit'[h].a = kit[h].a /\ kit'[h].old = kit[h].old /\ kit'[h].todo = kit[h].todo \ {k}
        BY <1>5, <2>2 DEF KitDisable, TypeOK, KitBuilds
      <3>2. k \in KeyIds /\ (key[k] = "active" => offAt'[k] # None)
        BY <2>2, AccessAssumption, Zenon DEF Disable, TypeOK
      <3>3. k \in kit[h].old => offAt'[k] # None
        BY <1>0, <3>2, Zenon DEF P
      <3>4. kit[h].pc = "disable"
        BY <1>5, Zenon DEF KitDisable
      <3>5. P(h)'
        BY <1>0, <3>1, <3>3, <3>4, Zenon DEF P
      <3> QED
        BY <1>2, <2>1, <3>5, Zenon
    <2>3. CASE kit' = [kit EXCEPT ![h] = NoKit]
      BY <1>2, <1>3, <2>1, <2>3, Zenon DEF TypeOK
    <2> QED
      BY <1>5, <2>2, <2>3, Zenon DEF KitDisable
  <1>6. ASSUME NEW h \in KitHandlers, KitInvalidate(h)
        PROVE  \A g \in KitHandlers : P(g)'
    <2>1. /\ kit'[h].pc = "mint" /\ kit'[h].a = kit[h].a /\ kit'[h].old = kit[h].old
          /\ kit[h].pc = "disable" /\ kit[h].todo = {} /\ \A g \in KitHandlers \ {h} : kit'[g] = kit[g]
      BY <1>6 DEF KitInvalidate, TypeOK, KitBuilds
    <2>2. ASSUME NEW k \in kit[h].old PROVE Dead(k)'
      <3>1. k \in KeyIds /\ offAt[k] # None /\ Owner[k] = kit[h].a
        BY <1>0, <2>1, Zenon DEF P
      <3>2. cache'[k] = None /\ gen' = gen + 1 /\ req' = req /\ offAt' = offAt
        BY <1>6, <3>1, Zenon DEF KitInvalidate, Invalidate, rows
      <3>3. \A r \in Requests : req[r].gen \in Nat /\ req[r].gen <= gen /\ gen \in Nat
        BY Zenon DEF Started, TypeOK, Lookups
      <3> QED
        BY <3>1, <3>2, <3>3 DEF Dead
    <2>3. P(h)'
      BY <1>0, <2>1, <2>2, Zenon DEF P
    <2> QED
      BY <1>2, <2>1, <2>3, Zenon
  <1>7. ASSUME NEW h \in KitHandlers, KitFail(h) \/ \E k \in Kits : KitMint(h, k)
        PROVE  \A g \in KitHandlers : P(g)'
    <2>1. kit' = [kit EXCEPT ![h] = NoKit]
      BY <1>7, Zenon DEF KitFail, KitMint
    <2> QED
      BY <1>2, <1>3, <2>1, Zenon DEF TypeOK
  <1>8. CASE Restart
    BY <1>3, <1>8, Zenon DEF Restart
  <1>9. CASE kit' = kit
    BY <1>2, <1>9, Zenon
  <1>10. ASSUME NEW r \in Requests, Request(r) PROVE kit' = kit
    BY <1>10, RequestCache, Zenon
  <1>11. ASSUME NEW a \in Agents, RevokeDisable(a) \/ RevokeInvalidate(a) \/ RevokeStamp(a) \/ RevokeDone(a) \/ ReapKeys(a)
         PROVE  kit' = kit
    BY <1>11, Zenon DEF RevokeDisable, RevokeInvalidate, RevokeStamp, RevokeDone, ReapKeys
  <1>12. ReapRetire \/ Tick => kit' = kit
    BY Zenon DEF ReapRetire, Tick
  <1> QED
    BY <1>4, <1>5, <1>6, <1>7, <1>8, <1>9, <1>10, <1>11, <1>12, Zenon DEF Next, Request

(* What barred grows by: an agent whose row is stamped, or dead keys.        *)
LEMMA NextBarred ==
  ASSUME TypeOK, Replacing, Reported, Next
  PROVE  /\ revoked \subseteq revoked' /\ barred \subseteq barred'
         /\ \A a \in Agents : rev'[a] = "schedule" \/ a \in barred' => a \in revoked'
         /\ \A k \in KeyIds : k \in barred' => Dead(k)
  <1> USE DEF rows
  <1>0. /\ \A a \in Agents : rev[a] = "schedule" \/ a \in barred => a \in revoked
        /\ \A k \in KeyIds : k \in barred => Dead(k)
        /\ KeyIds \cap Agents = {}
    BY AccessAssumption, Zenon DEF Reported
  <1>1. ASSUME NEW a \in Agents, RevokeDisable(a) \/ RevokeInvalidate(a)
        PROVE  revoked' = revoked /\ barred' = barred /\ \A b \in Agents : rev'[b] = "schedule" => rev[b] = "schedule"
    BY <1>1, Zenon DEF RevokeDisable, RevokeInvalidate, TypeOK
  <1>2. ASSUME NEW a \in Agents, RevokeStamp(a)
        PROVE  /\ revoked \subseteq revoked' /\ barred' = barred
               /\ \A b \in Agents : rev'[b] = "schedule" => rev[b] = "schedule" \/ b \in revoked'
    BY <1>2, Zenon DEF RevokeStamp, TypeOK
  <1>3. ASSUME NEW a \in Agents, RevokeDone(a)
        PROVE  /\ revoked' = revoked /\ barred \subseteq barred' /\ barred' \subseteq barred \cup {a} /\ rev[a] = "schedule"
               /\ \A b \in Agents : rev'[b] = "schedule" => rev[b] = "schedule"
    BY <1>3, Zenon DEF RevokeDone, TypeOK
  <1>4. ASSUME NEW h \in KitHandlers, NEW k \in Kits, KitMint(h, k)
        PROVE  /\ revoked' = revoked /\ rev' = rev /\ barred' = barred \cup kit[h].old /\ kit[h].old \subseteq KeyIds
               /\ \A i \in kit[h].old : Dead(i)
    BY <1>4, Zenon DEF KitMint, TypeOK, KitBuilds, Replacing
  <1>5. Restart => revoked' = revoked /\ barred' = barred /\ \A a \in Agents : rev'[a] # "schedule"
    BY Zenon DEF Restart
  <1>6. ReapRetire \/ Tick => UNCHANGED <<revoked, barred, rev>>
    BY Zenon DEF ReapRetire, Tick
  <1>7. ASSUME NEW r \in Requests, Request(r) PROVE UNCHANGED <<revoked, barred, rev>>
    BY <1>7, RequestCache, Zenon
  <1>8. ASSUME NEW a \in Agents, ReapKeys(a) PROVE UNCHANGED <<revoked, barred, rev>>
    BY <1>8, Zenon DEF ReapKeys
  <1>9. ASSUME NEW h \in KitHandlers,
               \/ \E a \in Agents, rotate \in BOOLEAN : KitRead(h, a, rotate)
               \/ \E k \in Kits : KitDisable(h, k)
               \/ KitInvalidate(h) \/ KitFail(h)
        PROVE  UNCHANGED <<revoked, barred, rev>>
    BY <1>9, Zenon DEF KitRead, KitDisable, KitInvalidate, KitFail
  <1> DEFINE Goal == /\ revoked \subseteq revoked' /\ barred \subseteq barred'
                     /\ \A a \in Agents : rev'[a] = "schedule" \/ a \in barred' => a \in revoked'
                     /\ \A k \in KeyIds : k \in barred' => Dead(k)
  <1>10. UNCHANGED <<revoked, barred, rev>> => Goal
    BY <1>0, Zenon
  <1>11. ASSUME NEW a \in Agents, RevokeDisable(a) \/ RevokeInvalidate(a) \/ RevokeStamp(a) PROVE Goal
    BY <1>0, <1>1, <1>2, <1>11, Zenon
  <1>12. ASSUME NEW a \in Agents, RevokeDone(a) PROVE Goal
    BY <1>0, <1>3, <1>12, Zenon
  <1>13. ASSUME NEW h \in KitHandlers, NEW k \in Kits, KitMint(h, k) PROVE Goal
    BY <1>0, <1>4, <1>13, Zenon
  <1>14. Restart => Goal
    BY <1>0, <1>5, Zenon
  <1> HIDE DEF Goal
  <1>15. Goal
    BY <1>6, <1>7, <1>8, <1>9, <1>10, <1>11, <1>12, <1>13, <1>14, Zenon DEF Next, Request
  <1> QED
    BY <1>15, Zenon DEF Goal

LEMMA NextReported ==
  ASSUME TypeOK, TypeOK', Started, Expiry, Replacing, Reported, Next
  PROVE  Reported'
  <1> DEFINE L(r) == req[r].late =>
               /\ req[r].pc # "served"
               /\ Owner[req[r].k] \in revoked \/ (req[r].k \in barred /\ req[r].pc \in {"read", "refused"})
  <1>1. \A a \in Agents : rev'[a] = "schedule" \/ a \in barred' => a \in revoked'
    BY NextBarred, Zenon
  <1>2. \A k \in KeyIds : k \in barred' => Dead(k)'
    BY NextBarred, DeadStays, Zenon
  <1>3. \A r \in Requests : L(r)
    BY Zenon DEF Reported
  <1>4. ASSUME NEW r \in Requests, req'[r] = req[r] PROVE L(r)'
    BY <1>3, <1>4, NextBarred, Zenon
  <1>5. ASSUME NEW r \in Requests, Request(r) PROVE \A q \in Requests : L(q)'
    <2>1. revoked' = revoked /\ barred' = barred
      BY <1>5, RequestCache, Zenon
    <2>2. L(r)'
      <3>1. CASE /\ req'[r].k \in KeyIds /\ req'[r].pc = IF Hit(req'[r].k) THEN "store" ELSE "read"
                 /\ req'[r].late => req'[r].k \in barred \/ Owner[req'[r].k] \in barred
        <4>1. Owner[req'[r].k] \in barred => Owner[req'[r].k] \in revoked
          BY <3>1, AccessAssumption, Zenon DEF Reported
        <4>2. req'[r].k \in barred => ~Hit(req'[r].k)
          BY <3>1, Zenon DEF Reported, Dead, Hit
        <4> QED
          BY <2>1, <3>1, <4>1, <4>2, Zenon
      <3>2. CASE /\ req'[r].k = req[r].k /\ req'[r].late = req[r].late
                 /\ \/ req[r].pc = "read" /\ req'[r].pc = "fill" /\ key[req[r].k] = "active"
                    \/ req[r].pc = "fill" /\ req'[r].pc = "store"
                    \/ req[r].pc = "store" /\ req'[r].pc = "served" /\ Owner[req[r].k] \notin revoked
                    \/ req[r].pc \in {"read", "store"} /\ req'[r].pc = "refused"
        <4>1. req[r].k \in barred => key[req[r].k] # "active"
          BY <3>2, Zenon DEF Reported, Dead, Expiry, Started
        <4> QED
          BY <1>3, <2>1, <3>2, <4>1, Zenon
      <3>3. CASE ~req'[r].late
        BY <3>3, Zenon
      <3> QED
        BY <1>5, <3>1, <3>2, <3>3, RequestEffect, Zenon DEF Request
    <2> QED
      BY <1>4, <1>5, <2>2, RequestEffect, Zenon DEF Request
  <1>6. CASE Restart
    <2>1. \A r \in Requests : ~req'[r].late
      BY <1>6, IdleType, Zenon DEF Restart
    <2> QED
      BY <1>1, <1>2, <2>1, Zenon DEF Reported
  <1>7. CASE ~Restart /\ ~\E r \in Requests : Request(r)
    <2>1. \A r \in Requests : L(r)'
      BY <1>4, <1>7, Handlers, Zenon
    <2> QED
      BY <1>1, <1>2, <2>1, Zenon DEF Reported
  <1> QED
    BY <1>1, <1>2, <1>5, <1>6, <1>7, Zenon DEF Reported

-----------------------------------------------------------------------------
LEMMA InitIInv == Init => IInv
  <1> SUFFICES ASSUME Init PROVE IInv
    BY Zenon
  <1>1. TypeOK
    BY InitType, Zenon
  <1>2. /\ \A r \in Requests : req[r].gen = 0 /\ req[r].at = 0 /\ req[r].pc = "idle" /\ ~req[r].late
        /\ \A h \in KitHandlers : kit[h].old = {}
    BY IdleType, NoKitType, Zenon DEF Init
  <1>3. Started
    BY <1>2 DEF Started, Init
  <1>4. Expiry
    BY <1>2, Zenon DEF Expiry, Init
  <1>5. Replacing
    BY <1>2, Zenon DEF Replacing
  <1>6. Reported
    BY <1>2, Zenon DEF Reported, Init
  <1> QED
    BY <1>1, <1>3, <1>4, <1>5, <1>6, Zenon DEF IInv

LEMMA NextIInv == IInv /\ [Next]_vars => IInv'
  <1>1. ASSUME IInv, Next PROVE IInv'
    <2>1. TypeOK'
      BY <1>1, NextType, Zenon DEF IInv
    <2> QED
      BY <1>1, <2>1, NextStarted, NextExpiry, NextReplacing, NextReported, Zenon DEF IInv
  <1>2. ASSUME IInv, UNCHANGED vars PROVE IInv'
    <2> USE <1>2 DEF vars
    <2>1. TypeOK' /\ Started'
      BY Zenon DEF IInv, TypeOK, Started
    <2>2. Expiry'
      BY Zenon DEF IInv, Expiry
    <2>3. \A k : Dead(k)' = Dead(k)
      BY Zenon DEF Dead
    <2>4. Replacing' /\ Reported'
      BY <2>3, Zenon DEF IInv, Replacing, Reported
    <2> QED
      BY <2>1, <2>2, <2>4, Zenon DEF IInv
  <1> QED
    BY <1>1, <1>2, Zenon

(* The invariant the two results follow from.                                *)
THEOREM AccessInvariant == Spec => []IInv
  BY InitIInv, NextIInv, PTL DEF Spec

(* A request that starts after a revocation or a kit regeneration was        *)
(* reported as done is never served with what it took away, for any number   *)
(* of requests, handlers, keys and agents.                                   *)
THEOREM TakenAwayIsRefused == Spec => []LateRefused
  <1>1. IInv => LateRefused
    BY Zenon DEF IInv, Reported, LateRefused
  <1> QED
    BY <1>1, AccessInvariant, PTL

(* "cacheTTL bounds how long a revoked key can keep working": also when no   *)
(* Invalidate reaches the cache, for every TTL of at least one instant.      *)
THEOREM RevokedKeysExpire == Spec => []DisabledKeyExpires
  <1>1. IInv => DisabledKeyExpires
    BY Zenon DEF IInv, Expiry, DisabledKeyExpires
  <1> QED
    BY <1>1, AccessInvariant, PTL
=============================================================================
