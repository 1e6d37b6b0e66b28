----------------------------- MODULE DeviceAccess -----------------------------
(***************************************************************************)
(* Who the gateway lets in: the device key rows of                         *)
(* fleet/store/device_keys.go, the cache of fleet/gateway/keys.go in front *)
(* of them, storeForAgent, and the handlers that take credentials away or  *)
(* hand them out: handleAgentRevoke, the recovery kit (readOnlyKey) and    *)
(* the key deletion of the reap job.                                       *)
(*                                                                         *)
(* Every store call is one statement and one step; requests and handlers   *)
(* interleave between them.  late, offAt and barred are history: they say *)
(* what a handler that has reported success promised.                      *)
(***************************************************************************)
EXTENDS Naturals, FiniteSets

CONSTANTS
  Agents,
  KeyIds,      \* access key ids
  Owner,       \* [KeyIds -> Agents]
  Kits,        \* the key ids recovery kits may mint (read-only)
  Requests,    \* gateway requests
  KitHandlers, \* kit GETs and regenerations
  None,
  TTL,         \* cacheTTL
  CacheSize,
  MaxGen,      \* bound: handlers start only up to this generation
  MaxNow       \* bound: the last instant of the clock

ASSUME AccessAssumption ==
  /\ Owner \in [KeyIds -> Agents] /\ Kits \subseteq KeyIds
  /\ None \notin Nat /\ None \notin KeyIds /\ None \notin Agents /\ KeyIds \cap Agents = {}
  /\ TTL \in Nat \ {0} /\ CacheSize \in Nat \ {0}
  /\ MaxGen \in Nat /\ MaxNow \in Nat

VARIABLES
  key,       \* state of each device_keys row: "absent", "active" or "disabled"
  offAt,     \* when the row was disabled or deleted
  revoked,   \* agents with revoked_at set
  retired,   \* agents with retired_at set
  cache,     \* Keys.cache: expiry of each entry, None for no entry
  gen,       \* Keys.gen
  req,       \* gateway requests
  rev,       \* handleAgentRevoke of each agent: its next step
  reap,      \* the agent the reap job is working on, None for none
  kit,       \* kit handlers
  barred,    \* keys and agents whose removal a handler has reported as done
  now

vars == <<key, offAt, revoked, retired, cache, gen, req, rev, reap, kit, barred, now>>

rows == <<key, offAt, revoked, retired>>

Idle == [pc |-> "idle", k |-> None, gen |-> 0, at |-> 0, late |-> FALSE]
NoKit == [pc |-> "idle", a |-> None, todo |-> {}, old |-> {}]

Lookups == [pc : {"idle", "read", "fill", "store", "served", "refused"},
            k : KeyIds \cup {None}, gen : Nat, at : Nat, late : BOOLEAN]
KitBuilds == [pc : {"idle", "disable", "mint"}, a : Agents \cup {None}, todo : SUBSET KeyIds, old : SUBSET KeyIds]

TypeOK ==
  /\ key \in [KeyIds -> {"absent", "active", "disabled"}]
  /\ offAt \in [KeyIds -> Nat \cup {None}]
  /\ revoked \subseteq Agents /\ retired \subseteq Agents
  /\ cache \in [KeyIds -> Nat \cup {None}]
  /\ gen \in Nat
  /\ req \in [Requests -> Lookups]
  /\ rev \in [Agents -> {"idle", "invalidate", "revoke", "schedule"}]
  /\ reap \in Agents \cup {None}
  /\ kit \in [KitHandlers -> KitBuilds]
  /\ barred \subseteq KeyIds \cup Agents
  /\ now \in Nat

\* Enrolled devices: each has its own key, no recovery kit was printed yet.
Init ==
  /\ key = [k \in KeyIds |-> IF k \in Kits THEN "absent" ELSE "active"]
  /\ offAt = [k \in KeyIds |-> None]
  /\ revoked = {} /\ retired = {}
  /\ cache = [k \in KeyIds |-> None]
  /\ gen = 0
  /\ req = [r \in Requests |-> Idle]
  /\ rev = [a \in Agents |-> "idle"]
  /\ reap = None
  /\ kit = [h \in KitHandlers |-> NoKit]
  /\ barred = {}
  /\ now = 0

KeysOf(a) == {k \in KeyIds : Owner[k] = a}

-----------------------------------------------------------------------------
(* A gateway request *)

\* The entry Lookup finds is usable.
Hit(k) == cache[k] # None /\ now < cache[k]

\* Lookup, first part under Keys.mu: note the generation and look in the cache.
LookupStart(r, k) ==
  /\ req[r].pc = "idle"
  /\ req' = [req EXCEPT ![r] = [pc |-> IF Hit(k) THEN "store" ELSE "read", k |-> k, gen |-> gen,
                                at |-> now, late |-> k \in barred \/ Owner[k] \in barred]]
  /\ UNCHANGED <<rows, cache, gen, rev, reap, kit, barred, now>>

\* The store read: only an active row is found.  An unknown, disabled or
\* unsealable key and a failed read drop the entry.
LookupRead(r) ==
  /\ req[r].pc = "read"
  /\ \/ /\ key[req[r].k] = "active"
        /\ req' = [req EXCEPT ![r].pc = "fill"]
        /\ UNCHANGED cache
     \/ /\ req' = [req EXCEPT ![r].pc = "refused"]
        /\ cache' = [cache EXCEPT ![req[r].k] = None]
  /\ UNCHANGED <<rows, gen, rev, reap, kit, barred, now>>

Entries == {k \in KeyIds : cache[k] # None}

\* Mutant: the entry is cached whatever happened since the row was read.
LookupFillAlways(r) ==
  /\ req[r].pc = "fill"
  /\ cache' = [cache EXCEPT ![req[r].k] = req[r].at + TTL]
  /\ req' = [req EXCEPT ![r].pc = "store"]
  /\ UNCHANGED <<rows, gen, rev, reap, kit, barred, now>>

\* Mutant: the entry lives from the moment it is stored.
LookupFillLate(r) ==
  /\ req[r].pc = "fill"
  /\ cache' = IF gen = req[r].gen THEN [cache EXCEPT ![req[r].k] = now + TTL] ELSE cache
  /\ req' = [req EXCEPT ![r].pc = "store"]
  /\ UNCHANGED <<rows, gen, rev, reap, kit, barred, now>>

\* Back under Keys.mu: cache the row unless an Invalidate ran since, clearing a
\* full cache first.  The entry expires TTL after the lookup began.
LookupFill(r) ==
  /\ req[r].pc = "fill"
  /\ cache' = IF gen # req[r].gen THEN cache
              ELSE [k \in KeyIds |-> IF k = req[r].k THEN req[r].at + TTL
                                     ELSE IF Cardinality(Entries) >= CacheSize THEN None ELSE cache[k]]
  /\ req' = [req EXCEPT ![r].pc = "store"]
  /\ UNCHANGED <<rows, gen, rev, reap, kit, barred, now>>

\* storeForAgent: a revoked agent is refused whatever key it came with.  (A
\* failed read of its agent, group or target refuses too; not modelled.)
StoreForAgent(r) ==
  /\ req[r].pc = "store"
  /\ req' = [req EXCEPT ![r].pc = IF Owner[req[r].k] \in revoked THEN "refused" ELSE "served"]
  /\ UNCHANGED <<rows, cache, gen, rev, reap, kit, barred, now>>

RequestEnd(r) ==
  /\ req[r].pc \in {"served", "refused"}
  /\ req' = [req EXCEPT ![r] = Idle]
  /\ UNCHANGED <<rows, cache, gen, rev, reap, kit, barred, now>>

-----------------------------------------------------------------------------
(* Invalidate, and the handlers that take keys away *)

Invalidate(a) ==
  /\ gen' = gen + 1
  /\ cache' = [k \in KeyIds |-> IF Owner[k] = a THEN None ELSE cache[k]]

\* The active ones among ks are disabled.
Disable(ks) ==
  /\ key' = [k \in KeyIds |-> IF k \in ks /\ key[k] = "active" THEN "disabled" ELSE key[k]]
  /\ offAt' = [k \in KeyIds |-> IF k \in ks /\ key[k] = "active" THEN now ELSE offAt[k]]

\* handleAgentRevoke.  Each step may fail, and then the handler reports an
\* error and stops where it is.
RevokeDisable(a) ==
  /\ rev[a] = "idle" /\ gen < MaxGen
  /\ Disable(KeysOf(a))
  /\ rev' = [rev EXCEPT ![a] = "invalidate"]
  /\ UNCHANGED <<revoked, retired, cache, gen, req, reap, kit, barred, now>>

RevokeInvalidate(a) ==
  /\ rev[a] = "invalidate"
  /\ Invalidate(a)
  /\ rev' = [rev EXCEPT ![a] = "revoke"]
  /\ UNCHANGED <<rows, req, reap, kit, barred, now>>

RevokeStamp(a) ==
  /\ rev[a] = "revoke"
  /\ \/ revoked' = revoked \cup {a} /\ rev' = [rev EXCEPT ![a] = "schedule"]
     \/ UNCHANGED revoked /\ rev' = [rev EXCEPT ![a] = "idle"]
  /\ UNCHANGED <<key, offAt, retired, cache, gen, req, reap, kit, barred, now>>

\* The reap is scheduled and the handler answers 204.
RevokeDone(a) ==
  /\ rev[a] = "schedule"
  /\ barred' \in {barred, barred \cup {a}}
  /\ rev' = [rev EXCEPT ![a] = "idle"]
  /\ UNCHANGED <<rows, cache, gen, req, reap, kit, now>>

\* The reap job on a revoked agent: first the keys ...
ReapKeys(a) ==
  /\ reap = None /\ a \in revoked \ retired
  /\ key' = [k \in KeyIds |-> IF Owner[k] = a THEN "absent" ELSE key[k]]
  /\ offAt' = [k \in KeyIds |-> IF Owner[k] = a /\ key[k] = "active" THEN now ELSE offAt[k]]
  /\ reap' = a
  /\ UNCHANGED <<revoked, retired, cache, gen, req, rev, kit, barred, now>>

\* ... then the repository, and the row is stamped once both are gone.
ReapRetire ==
  /\ reap # None
  /\ retired' \in {retired, retired \cup {reap}}
  /\ reap' = None
  /\ UNCHANGED <<key, offAt, revoked, cache, gen, req, rev, kit, barred, now>>

-----------------------------------------------------------------------------
(* readOnlyKey *)

ActiveKits(a) == {k \in Kits : Owner[k] = a /\ key[k] = "active"}

\* Read the agent's keys.  A GET that finds an active read-only key returns it.
KitRead(h, a, rotate) ==
  /\ kit[h].pc = "idle" /\ gen < MaxGen
  /\ rotate \/ ActiveKits(a) = {}
  /\ kit' = [kit EXCEPT ![h] = [pc |-> IF rotate THEN "disable" ELSE "mint", a |-> a,
                                todo |-> ActiveKits(a), old |-> ActiveKits(a)]]
  /\ UNCHANGED <<rows, cache, gen, req, rev, reap, barred, now>>

\* A regeneration disables what it read, one statement per key; a failure
\* returns at once, without an Invalidate.
KitDisable(h, k) ==
  /\ kit[h].pc = "disable" /\ k \in kit[h].todo
  /\ \/ Disable({k}) /\ kit' = [kit EXCEPT ![h].todo = @ \ {k}]
     \/ UNCHANGED <<key, offAt>> /\ kit' = [kit EXCEPT ![h] = NoKit]
  /\ UNCHANGED <<revoked, retired, cache, gen, req, rev, reap, barred, now>>

KitInvalidate(h) ==
  /\ kit[h].pc = "disable" /\ kit[h].todo = {}
  /\ Invalidate(kit[h].a)
  /\ kit' = [kit EXCEPT ![h].pc = "mint"]
  /\ UNCHANGED <<rows, req, rev, reap, barred, now>>

\* Insert a fresh key and answer; what a regeneration replaced is out of use.
KitMint(h, k) ==
  /\ kit[h].pc = "mint"
  /\ k \in Kits /\ Owner[k] = kit[h].a /\ key[k] = "absent" /\ offAt[k] = None
  /\ key' = [key EXCEPT ![k] = "active"]
  /\ barred' = barred \cup kit[h].old
  /\ kit' = [kit EXCEPT ![h] = NoKit]
  /\ UNCHANGED <<offAt, revoked, retired, cache, gen, req, rev, reap, now>>

\* The insert fails, or the bound on key ids is reached.
KitFail(h) ==
  /\ kit[h].pc = "mint"
  /\ kit' = [kit EXCEPT ![h] = NoKit]
  /\ UNCHANGED <<rows, cache, gen, req, rev, reap, barred, now>>

-----------------------------------------------------------------------------

\* A new server process: an empty cache and no request or handler in flight.
Restart ==
  /\ cache' = [k \in KeyIds |-> None]
  /\ gen' = 0
  /\ req' = [r \in Requests |-> Idle]
  /\ rev' = [a \in Agents |-> "idle"]
  /\ reap' = None
  /\ kit' = [h \in KitHandlers |-> NoKit]
  /\ UNCHANGED <<rows, barred, now>>

Tick ==
  /\ now < MaxNow
  /\ now' = now + 1
  /\ UNCHANGED <<rows, cache, gen, req, rev, reap, kit, barred>>

Next ==
  \/ \E r \in Requests :
       \/ \E k \in KeyIds : LookupStart(r, k)
       \/ LookupRead(r) \/ LookupFill(r) \/ StoreForAgent(r) \/ RequestEnd(r)
  \/ \E a \in Agents :
       RevokeDisable(a) \/ RevokeInvalidate(a) \/ RevokeStamp(a) \/ RevokeDone(a) \/ ReapKeys(a)
  \/ \E h \in KitHandlers :
       \/ \E a \in Agents, rotate \in BOOLEAN : KitRead(h, a, rotate)
       \/ \E k \in Kits : KitDisable(h, k) \/ KitMint(h, k)
       \/ KitInvalidate(h) \/ KitFail(h)
  \/ ReapRetire \/ Restart \/ Tick

Spec == Init /\ [][Next]_vars

-----------------------------------------------------------------------------
(* Properties *)

\* A request that starts after a revocation or a kit regeneration was reported
\* as done is never served with what it took away, whatever lookups were in
\* flight and whatever the cache held.
LateRefused == \A r \in Requests : req[r].late => req[r].pc # "served"

\* "cacheTTL bounds how long a revoked key can keep working": even when nobody
\* calls Invalidate, a request that starts TTL or more after its key was
\* disabled or deleted is not served.
DisabledKeyExpires ==
  \A r \in Requests :
    LET k == req[r].k IN
    req[r].pc = "served" /\ offAt[k] # None => req[r].at < offAt[k] + TTL

\* "the M5 reap job refuses one once retired_at is set": no kit is built
\* for a retired device.
NoKitOnceRetired ==
  [][\A h \in KitHandlers : kit[h].pc = "idle" /\ kit'[h].pc # "idle" => kit'[h].a \notin retired]_vars

\* "A revoked device still gets a kit on purpose (restore after revoke is a
\* real need)": the gateway serves an active kit key until the device is
\* retired.
KitRestores ==
  [][\A r \in Requests :
       LET k == req[r].k IN
       req[r].pc = "store" /\ req'[r].pc = "refused" /\ k \in Kits /\ key[k] = "active"
         => Owner[k] \in retired]_vars
=============================================================================
