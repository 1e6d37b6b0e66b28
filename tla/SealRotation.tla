----------------------------- MODULE SealRotation -----------------------------
(***************************************************************************)
(* The sealing key and its rotation: fleet/api/admin_passphrase.go over    *)
(* the sealed rows of fleet/store/reseal.go, the key files of fleet/seal   *)
(* and the gateway that keeps a copy of the key.                           *)
(*                                                                         *)
(* Every secret the Fleet stores is sealed under one key.  A rotation      *)
(* moves the store, the key file, the key in memory and the gateway's copy *)
(* to a new key while handlers seal and write; the process may die between *)
(* any two steps.                                                          *)
(*                                                                         *)
(* A key is identified with the salt it was derived from: key k opens what *)
(* was sealed under k and nothing else.  Numbers are handed out in order   *)
(* and stand for NewSalt's random salts.                                   *)
(***************************************************************************)
EXTENDS Naturals, FiniteSets

CONSTANTS
  Secrets,    \* sealed columns and settings of the store
  Handlers,   \* requests that seal and store a secret (sealHeld)
  Rotators,   \* requests for a rotation
  None,
  Faults,     \* which system calls may fail: a subset of {"rename", "commit"}
  MaxKey      \* bound: keys made by rotations

ASSUME RotationAssumption == None \notin Nat /\ MaxKey \in Nat

VARIABLES
  salt,      \* the salt setting in the store
  sealed,    \* key each stored secret is sealed under, None when not stored
  keyFile,   \* the key in seal.key
  pending,   \* the key in seal.key.new, None when there is no such file
  proc,      \* "up" or "down"
  memKey,    \* Server.key
  gw,        \* key held by the published Gateway, None when there is none
  gwBuild,   \* key a Gateway under construction read; None: gwDeps.mu is free
  held,      \* what a handler inside sealHeld has sealed and not yet written
  rot,       \* rotators: program counter, key derived from "current", new key
  made,      \* keys handed out so far
  failed     \* history: has a rename or commit failed ("once"), and has a
             \* rotation written a key file after that ("again")

vars == <<salt, sealed, keyFile, pending, proc, memKey, gw, gwBuild, held, rot, made, failed>>

disk == <<salt, sealed, keyFile, pending>>
memory == <<proc, memKey, gw, gwBuild>>

Keys == 0 .. MaxKey
RotPCs == {"idle", "lock", "check", "tx", "rename", "swap", "reset"}
NoRotation == [pc |-> "idle", derived |-> None, new |-> None]

TypeOK ==
  /\ salt \in Keys /\ keyFile \in Keys /\ memKey \in Keys
  /\ sealed \in [Secrets -> Keys \cup {None}]
  /\ pending \in Keys \cup {None}
  /\ proc \in {"up", "down"}
  /\ gw \in Keys \cup {None} /\ gwBuild \in Keys \cup {None}
  /\ held \in [Handlers -> Keys \cup {None}]
  /\ rot \in [Rotators -> [pc : RotPCs, derived : Keys \cup {None}, new : Keys \cup {None}]]
  /\ made \in Keys
  /\ failed \in {"none", "once", "again"}

\* A fleet after Activate: store and seal.key on the first key.
Init ==
  /\ salt = 0 /\ keyFile = 0 /\ pending = None
  /\ sealed = [s \in Secrets |-> None]
  /\ proc = "up" /\ memKey = 0
  /\ gw = None /\ gwBuild = None
  /\ held = [h \in Handlers |-> None]
  /\ rot = [r \in Rotators |-> NoRotation]
  /\ made = 0
  /\ failed = "none"

-----------------------------------------------------------------------------
(* Server.sealMu, a sync.RWMutex *)

Writing(r) == rot[r].pc \in {"check", "tx", "rename", "swap", "reset"}
Writer == \E r \in Rotators : Writing(r)
WriterQueued == \E r \in Rotators : rot[r].pc = "lock"
Readers == {h \in Handlers : held[h] # None}

\* Mutant: a lock without writer preference.
MayReadUnfair == ~Writer

\* A pending writer goes before new readers.
MayRead == ~Writer /\ ~WriterQueued
MayWrite == ~Writer /\ Readers = {}

-----------------------------------------------------------------------------
(* Handlers that seal *)

\* Mutant: the handler is not wrapped in sealHeld.
SealUnheld(h) ==
  /\ proc = "up" /\ held[h] = None
  /\ held' = [held EXCEPT ![h] = memKey]
  /\ UNCHANGED <<disk, memory, rot, made, failed>>

\* sealHeld takes the read lock and the handler seals a value with s.key.
Seal(h) ==
  /\ proc = "up" /\ held[h] = None /\ MayRead
  /\ held' = [held EXCEPT ![h] = memKey]
  /\ UNCHANGED <<disk, memory, rot, made, failed>>

\* The handler writes the row, or fails to, and the lock is released.
Write(h) ==
  /\ held[h] # None
  /\ \/ \E s \in Secrets : sealed' = [sealed EXCEPT ![s] = held[h]]
     \/ UNCHANGED sealed
  /\ held' = [held EXCEPT ![h] = None]
  /\ UNCHANGED <<salt, keyFile, pending, memory, rot, made, failed>>

\* gateway(): under gwDeps.mu read the key ...
BuildGateway ==
  /\ proc = "up" /\ gw = None /\ gwBuild = None
  /\ gwBuild' = memKey
  /\ UNCHANGED <<disk, proc, memKey, gw, held, rot, made, failed>>

\* ... and publish a Gateway that holds a copy of it.
PublishGateway ==
  /\ gwBuild # None
  /\ gw' = gwBuild /\ gwBuild' = None
  /\ UNCHANGED <<disk, proc, memKey, held, rot, made, failed>>

-----------------------------------------------------------------------------
(* RotatePassphrase *)

To(r, pc) == rot' = [rot EXCEPT ![r].pc = pc]
Done(r) == rot' = [rot EXCEPT ![r] = NoRotation]

\* The history of failures.
Failing == failed' = IF failed = "none" THEN "once" ELSE failed
Overwriting == failed' = IF failed = "none" THEN "none" ELSE "again"

\* Read the stored salt and derive both keys, before the lock.  A wrong
\* "current" derives a key that is nobody's (None).
Derive(r) ==
  /\ proc = "up" /\ rot[r].pc = "idle" /\ made < MaxKey
  /\ \E d \in {salt, None} :
       rot' = [rot EXCEPT ![r] = [pc |-> "lock", derived |-> d, new |-> made + 1]]
  /\ made' = made + 1
  /\ UNCHANGED <<disk, memory, held, failed>>

Lock(r) ==
  /\ rot[r].pc = "lock" /\ MayWrite
  /\ To(r, "check")
  /\ UNCHANGED <<disk, memory, held, made, failed>>

\* Compare with the key in force; then write seal.key.new.  A wrong passphrase,
\* a dry run and a failed write of the file return here with nothing written.
Check(r) ==
  /\ rot[r].pc = "check"
  /\ \/ /\ rot[r].derived = memKey
        /\ pending' = rot[r].new /\ Overwriting
        /\ To(r, "tx")
     \/ Done(r) /\ UNCHANGED <<pending, failed>>
  /\ UNCHANGED <<salt, sealed, keyFile, memory, held, made>>

\* Every table re-sealed row by row; an absent secret stays absent.
Resealed(k) == [s \in Secrets |-> IF sealed[s] = None THEN None ELSE k]

\* Reseal's transaction takes effect: every secret opens under s.key and is
\* sealed under the new key, and the salt is replaced.
Committed(r) ==
  /\ \A s \in Secrets : sealed[s] \in {None, memKey}
  /\ sealed' = Resealed(rot[r].new)
  /\ salt' = rot[r].new

\* Mutant: a failed rotation removes the key file it wrote.
ResealDropsPending(r) ==
  /\ rot[r].pc = "tx"
  /\ \/ Committed(r) /\ To(r, "rename") /\ UNCHANGED <<pending, failed>>
     \/ UNCHANGED <<salt, sealed, failed>> /\ Done(r) /\ pending' = None
     \/ "commit" \in Faults /\ Committed(r) /\ Done(r) /\ Failing /\ pending' = None
  /\ UNCHANGED <<keyFile, memory, held, made>>

\* Reseal: committed, rolled back with an error, or, where a commit may report
\* an error, committed and reported as failed.  On an error seal.key.new stays
\* and the process goes on.
Reseal(r) ==
  /\ rot[r].pc = "tx"
  /\ \/ Committed(r) /\ To(r, "rename") /\ UNCHANGED failed
     \/ UNCHANGED <<salt, sealed, failed>> /\ Done(r)
     \/ "commit" \in Faults /\ Committed(r) /\ Done(r) /\ Failing
  /\ UNCHANGED <<keyFile, pending, memory, held, made>>

\* Rename seal.key.new over seal.key.  A failure is reported at the end only.
Rename(r) ==
  /\ rot[r].pc = "rename"
  /\ \/ keyFile' = pending /\ pending' = None /\ UNCHANGED failed
     \/ "rename" \in Faults /\ UNCHANGED <<keyFile, pending>> /\ Failing
  /\ To(r, "swap")
  /\ UNCHANGED <<salt, sealed, memory, held, made>>

\* Mutant: the key in memory stays the old one.
SwapNone(r) ==
  /\ rot[r].pc = "swap"
  /\ To(r, "reset")
  /\ UNCHANGED <<disk, memory, held, made, failed>>

Swap(r) ==
  /\ rot[r].pc = "swap"
  /\ memKey' = rot[r].new
  /\ To(r, "reset")
  /\ UNCHANGED <<disk, proc, gw, gwBuild, held, made, failed>>

\* Mutant: resetGateway does not wait for a Gateway under construction.
ResetUnlocked(r) ==
  /\ rot[r].pc = "reset"
  /\ gw' = None
  /\ Done(r)
  /\ UNCHANGED <<disk, proc, memKey, gwBuild, held, made, failed>>

\* resetGateway, under gwDeps.mu; then the deferred unlock of sealMu.
Reset(r) ==
  /\ rot[r].pc = "reset" /\ gwBuild = None
  /\ gw' = None
  /\ Done(r)
  /\ UNCHANGED <<disk, proc, memKey, gwBuild, held, made, failed>>

Rotate(r) == Lock(r) \/ Check(r) \/ Reseal(r) \/ Rename(r) \/ Swap(r) \/ Reset(r)

-----------------------------------------------------------------------------
(* The process *)

\* Memory is gone; what a handler had not written is lost, an open transaction
\* rolls back.
Crash ==
  /\ proc = "up"
  /\ proc' = "down"
  /\ gw' = None /\ gwBuild' = None
  /\ held' = [h \in Handlers |-> None]
  /\ rot' = [r \in Rotators |-> NoRotation]
  /\ UNCHANGED <<disk, memKey, made, failed>>

\* recoverPendingKey: finish the rename when the stored salt is the file's,
\* drop the file when it is another.  An unreadable store or file and a failed
\* rename refuse the start: the process stays down.
RecoverPendingKey ==
  /\ proc = "down" /\ pending # None
  /\ keyFile' = IF pending = salt THEN pending ELSE keyFile
  /\ pending' = None
  /\ UNCHANGED <<salt, sealed, memory, held, rot, made, failed>>

\* load, once there is no pending file: read seal.key and open the store.
Load ==
  /\ proc = "down" /\ pending = None
  /\ proc' = "up" /\ memKey' = keyFile
  /\ UNCHANGED <<disk, gw, gwBuild, held, rot, made, failed>>

-----------------------------------------------------------------------------

Next ==
  \/ \E h \in Handlers : Seal(h) \/ Write(h)
  \/ \E r \in Rotators : Derive(r) \/ Rotate(r)
  \/ BuildGateway \/ PublishGateway
  \/ Crash \/ RecoverPendingKey \/ Load

Spec == Init /\ [][Next]_vars

\* Requests that hold a lock go on: handlers, rotations and a Gateway under
\* construction.  Nothing is assumed of new requests, crashes and restarts.
FairSpec ==
  /\ Spec
  /\ \A r \in Rotators : WF_vars(Rotate(r))
  /\ \A h \in Handlers : WF_vars(Write(h))
  /\ WF_vars(PublishGateway)

-----------------------------------------------------------------------------
(* Properties.  What a rename or a commit that failed leaves behind is the   *)
(* subject of KeyOnDisk and ComesBackConsistent.                             *)

\* Opens(k): key k opens every stored secret.
Opens(k) == \A s \in Secrets : sealed[s] \in {None, k}

\* Whenever no rotation holds sealMu, the key in memory opens every stored
\* secret: no handler sealed with a key a rotation was replacing (the comment
\* on Server.sealMu).
StoreReadable == failed = "none" /\ proc = "up" /\ ~Writer => Opens(memKey)

\* At every instant, whatever step the process may die after, one of the two
\* key files holds the key of the stored salt: recoverPendingKey can settle it.
\* This survives a failed rename and a commit reported as failed, until the
\* next rotation writes seal.key.new.
KeyOnDisk == failed # "again" => salt \in {keyFile, pending}

\* The store is never sealed under two keys: the key of the stored salt opens
\* every secret, in the middle of a rotation too.
OneKey == failed = "none" => Opens(salt)

\* A Gateway that requests can pick up while no rotation runs holds the key in
\* force (resetGateway's comment: the Gateway holds the sealing key by value).
GatewayKeyCurrent == failed = "none" /\ proc = "up" /\ ~Writer /\ gw # None => gw = memKey

\* Only a rotation whose "current" passphrase was the one in force re-seals the
\* store: of two rotations that started from the same passphrase the second is
\* refused.
AuthorizedRotation ==
  [][failed = "none" /\ salt' # salt
       => \E r \in Rotators : rot[r].pc = "tx" /\ rot[r].derived = salt]_vars

\* A rotation returns: it gets sealMu in spite of handlers that come and go,
\* and nobody who holds sealMu waits for someone who waits for it.
RotationReturns == \A r \in Rotators : rot[r].pc # "idle" ~> rot[r].pc = "idle"

\* "Either way the fleet comes back consistent": whenever load brings the
\* server up, the key it loaded opens every stored secret.
ComesBackConsistent == [][proc = "down" /\ proc' = "up" => Opens(memKey')]_vars

\* It does as long as no rename and no commit has failed.
ComesBackUnlessFailed ==
  [][failed = "none" /\ proc = "down" /\ proc' = "up" => Opens(memKey')]_vars
=============================================================================
