-------------------------- MODULE SealRotationProofs --------------------------
(***************************************************************************)
(* Proofs about SealRotation for any number of secrets, handlers, rotators *)
(* and keys.  The rename and the commit may fail; what holds after that    *)
(* happened is KeyOnDisk, until the next rotation writes seal.key.new.     *)
(*                                                                         *)
(* The invariant follows the rotation: while nobody holds sealMu, the      *)
(* store, seal.key and the key in memory are on one key; a rotation that   *)
(* holds it moves the store first, then seal.key, then the key in memory,  *)
(* then the gateway, and its phase says how far it got.                    *)
(***************************************************************************)
EXTENDS SealRotation, TLAPS

\* sealMu: one writer, and no reader beside it.
Exclusion ==
  /\ \A r, q \in Rotators : Writing(r) /\ Writing(q) => r = q
  /\ \A r \in Rotators, h \in Handlers : Writing(r) => held[h] = None

\* A process that is down holds nothing.
DownIsEmpty ==
  proc = "down" => /\ \A r \in Rotators : rot[r].pc = "idle"
                   /\ \A h \in Handlers : held[h] = None
                   /\ gw = None /\ gwBuild = None

\* How far a rotation got.
Phase(r) ==
  /\ rot[r].pc # "idle" => rot[r].new \in Keys
  /\ rot[r].pc = "tx" => pending = rot[r].new /\ rot[r].derived = memKey
  /\ rot[r].pc = "rename" => pending = salt
  /\ rot[r].pc \in {"rename", "swap"} => rot[r].new = salt
  /\ rot[r].pc \in {"swap", "reset"} => keyFile = salt
  /\ rot[r].pc = "reset" => memKey = salt

\* The store moved and the key in memory did not yet; the key in memory moved
\* and the gateway did not yet.
StoreAhead == \E r \in Rotators : rot[r].pc \in {"rename", "swap"}
GatewayBehind == \E r \in Rotators : rot[r].pc = "reset"

\* The store and the key files, leaving failures aside.
StoreOnSalt == Opens(salt)
KeyFound == salt \in {keyFile, pending}

\* While nothing has failed.
IInv ==
  /\ TypeOK
  /\ Exclusion
  /\ DownIsEmpty
  /\ \A r \in Rotators : Phase(r)
  /\ StoreOnSalt
  /\ KeyFound
  /\ proc = "up" /\ ~StoreAhead => memKey = salt /\ keyFile = salt
  /\ \A h \in Handlers : held[h] \in {None, memKey}
  /\ ~GatewayBehind => gw \in {None, memKey} /\ gwBuild \in {None, memKey}

\* A freshly activated server satisfies the invariant.
LEMMA InitIInv == Init => IInv
  BY RotationAssumption
     DEF Init, IInv, TypeOK, Keys, RotPCs, NoRotation, Exclusion, Writing, DownIsEmpty, Phase,
         StoreOnSalt, Opens, KeyFound, StoreAhead, GatewayBehind

-----------------------------------------------------------------------------
(* A rotator moving *)

Rotation == [pc : RotPCs, derived : Keys \cup {None}, new : Keys \cup {None}]

\* One rotator advances to pc c.
LEMMA Moves ==
  ASSUME TypeOK, NEW r \in Rotators, NEW c \in RotPCs, To(r, c)
  PROVE  /\ rot' \in [Rotators -> Rotation]
         /\ rot'[r].pc = c /\ rot'[r].derived = rot[r].derived /\ rot'[r].new = rot[r].new
         /\ \A q \in Rotators : q # r => rot'[q] = rot[q]
<1>1. rot \in [Rotators -> Rotation] /\ rot[r] \in Rotation
  BY Zenon DEF TypeOK, Rotation
<1>2. rot' = [rot EXCEPT ![r] = [rot[r] EXCEPT !.pc = c]]
  BY Zenon DEF To
<1>3. [rot[r] EXCEPT !.pc = c] \in Rotation
  BY <1>1, Zenon DEF Rotation
<1>4. rot'[r] = [rot[r] EXCEPT !.pc = c]
  BY <1>1, <1>2, Zenon
<1>5. rot'[r].pc = c /\ rot'[r].derived = rot[r].derived /\ rot'[r].new = rot[r].new
  BY <1>1, <1>4, Zenon DEF Rotation
<1> QED
  BY <1>1, <1>2, <1>3, <1>5, Zenon

\* One rotator returns.
LEMMA Returns ==
  ASSUME TypeOK, NEW r \in Rotators, Done(r)
  PROVE  /\ rot' \in [Rotators -> Rotation]
         /\ rot'[r].pc = "idle"
         /\ \A q \in Rotators : q # r => rot'[q] = rot[q]
<1>1. NoRotation \in Rotation /\ NoRotation.pc = "idle"
  BY Zenon DEF NoRotation, Rotation, RotPCs
<1> QED
  BY <1>1, Zenon DEF TypeOK, Done, Rotation

-----------------------------------------------------------------------------
(* One lemma per action *)

\* A handler that seals holds sealMu for reading, so it uses the key in force.
LEMMA SealStep == ASSUME IInv, NEW h \in Handlers, Seal(h) PROVE IInv'
<1> USE RotationAssumption DEF IInv, TypeOK, disk, memory
<1>1. ~Writer /\ UNCHANGED <<disk, memory, rot, made, failed>>
  BY Zenon DEF Seal, MayRead
<1>2. \A r \in Rotators : ~Writing(r)
  BY <1>1, Zenon DEF Writer
<1>3. held' = [held EXCEPT ![h] = memKey] /\ proc = "up"
  BY Zenon DEF Seal
<1>4. TypeOK'
  BY <1>1, <1>3, Zenon DEF Keys
<1>5. Exclusion' /\ DownIsEmpty'
  BY <1>1, <1>2, <1>3, Zenon DEF Exclusion, Writing, DownIsEmpty
<1>6. \A k \in Handlers : held'[k] \in {None, memKey'}
  BY <1>1, <1>3, Zenon
<1> QED
  BY <1>1, <1>4, <1>5, <1>6, Zenon DEF Phase, StoreOnSalt, Opens, KeyFound, StoreAhead, GatewayBehind

\* What it writes is sealed under the key the store is on.
LEMMA WriteStep == ASSUME IInv, NEW h \in Handlers, Write(h) PROVE IInv'
<1> USE RotationAssumption DEF IInv, TypeOK, memory
<1>1. UNCHANGED <<salt, keyFile, pending, memory, rot, made, failed>> /\ held[h] = memKey
  BY Zenon DEF Write
<1>2. \A r \in Rotators : ~Writing(r)
  BY Zenon DEF Exclusion, Write
<1>3. held' = [held EXCEPT ![h] = None]
  BY Zenon DEF Write
<1>4. proc = "up" /\ memKey = salt
  BY <1>2, Zenon DEF DownIsEmpty, Write, StoreAhead, Writing
<1>5. TypeOK' /\ StoreOnSalt'
  BY <1>1, <1>3, <1>4, Zenon DEF Write, StoreOnSalt, Opens
<1>6. Exclusion' /\ DownIsEmpty'
  BY <1>1, <1>3, Zenon DEF Exclusion, Writing, DownIsEmpty
<1> QED
  BY <1>1, <1>3, <1>5, <1>6, Zenon DEF Phase, KeyFound, StoreAhead, GatewayBehind

\* A Gateway is built from the key in memory, outside a rotation.
LEMMA GatewayStep == ASSUME IInv, BuildGateway \/ PublishGateway PROVE IInv'
  BY RotationAssumption
     DEF IInv, TypeOK, disk, BuildGateway, PublishGateway,
         Exclusion, Writing, DownIsEmpty, Phase, StoreOnSalt, Opens, KeyFound, StoreAhead, GatewayBehind

\* A rotation that starts has touched nothing yet.
LEMMA DeriveStep == ASSUME IInv, NEW r \in Rotators, Derive(r) PROVE IInv'
<1> USE RotationAssumption DEF IInv, disk, memory
<1>1. PICK d \in {salt, None} :
        rot' = [rot EXCEPT ![r] = [pc |-> "lock", derived |-> d, new |-> made + 1]]
  BY Zenon DEF Derive
<1>2. made' \in Keys /\ made + 1 \in Keys /\ proc = "up" /\ rot[r].pc = "idle"
      /\ UNCHANGED <<disk, memory, held, failed>>
  BY DEF Derive, TypeOK, Keys
<1>3. [pc |-> "lock", derived |-> d, new |-> made + 1] \in Rotation
  BY <1>2, Zenon DEF Rotation, RotPCs, TypeOK
<1>4. rot' \in [Rotators -> Rotation] /\ rot'[r].pc = "lock" /\ rot'[r].new = made + 1
      /\ \A q \in Rotators : q # r => rot'[q] = rot[q]
  BY <1>1, <1>3, Zenon DEF TypeOK, Rotation
<1>5. TypeOK'
  BY <1>2, <1>4, Zenon DEF TypeOK, Rotation
<1>6. Exclusion' /\ DownIsEmpty' /\ \A q \in Rotators : Phase(q)'
  BY <1>2, <1>4 DEF Exclusion, Writing, DownIsEmpty, Phase
<1>7. (StoreAhead' <=> StoreAhead) /\ (GatewayBehind' <=> GatewayBehind)
  BY <1>2, <1>4, Zenon DEF StoreAhead, GatewayBehind
<1> QED
  BY <1>2, <1>5, <1>6, <1>7, Zenon DEF StoreOnSalt, Opens, KeyFound

\* While r holds sealMu the others are outside, no handler seals and the
\* process is up.
LEMMA Alone ==
  ASSUME IInv, NEW r \in Rotators, Writing(r)
  PROVE  /\ \A q \in Rotators : q # r => rot[q].pc \in {"idle", "lock"}
         /\ \A h \in Handlers : held[h] = None
         /\ proc = "up"
<1>1. \A q \in Rotators : rot[q].pc \in RotPCs
  BY Zenon DEF IInv, TypeOK
<1> QED
  BY <1>1, Zenon DEF IInv, TypeOK, Exclusion, DownIsEmpty, Writing, RotPCs

\* sealMu is taken only when no handler and no other rotation is inside.
LEMMA LockStep == ASSUME IInv, NEW r \in Rotators, Lock(r) PROVE IInv'
<1> USE RotationAssumption DEF IInv, disk, memory
<1>1. /\ rot'[r].pc = "check" /\ rot'[r].new = rot[r].new /\ rot' \in [Rotators -> Rotation]
      /\ \A q \in Rotators : q # r => rot'[q] = rot[q]
  BY Moves, Zenon DEF Lock, RotPCs
<1>2. UNCHANGED <<disk, memory, held, made, failed>> /\ rot[r].pc = "lock"
  BY Zenon DEF Lock
<1>3. (\A q \in Rotators : ~Writing(q)) /\ \A h \in Handlers : held[h] = None
  BY Zenon DEF Lock, MayWrite, Writer, Readers
<1>4. TypeOK'
  BY <1>1, <1>2, Zenon DEF TypeOK, Rotation
<1>5. Exclusion' /\ DownIsEmpty'
  BY <1>1, <1>2, <1>3, Zenon DEF Exclusion, DownIsEmpty, Writing
<1>6. ~StoreAhead' /\ ~StoreAhead /\ ~GatewayBehind' /\ ~GatewayBehind /\ \A q \in Rotators : Phase(q)'
  BY <1>1, <1>2, <1>3 DEF StoreAhead, GatewayBehind, Writing, Phase
<1> QED
  BY <1>2, <1>4, <1>5, <1>6, Zenon DEF StoreOnSalt, Opens, KeyFound

\* The passphrase is compared under the lock, then the pending key file is written.
LEMMA CheckStep == ASSUME IInv, NEW r \in Rotators, Check(r) PROVE IInv'
<1> USE RotationAssumption DEF IInv, memory
<1>1. /\ \A q \in Rotators : q # r => rot[q].pc \in {"idle", "lock"}
      /\ \A h \in Handlers : held[h] = None
      /\ proc = "up" /\ rot[r].pc = "check"
      /\ UNCHANGED <<salt, sealed, keyFile, memory, held, made>>
      /\ failed' \in {"none", "once", "again"}
  BY Alone, Zenon DEF Check, Writing, Overwriting, TypeOK
<1>2. memKey = salt /\ keyFile = salt /\ ~StoreAhead /\ ~GatewayBehind
  BY <1>1, Zenon DEF StoreAhead, GatewayBehind
<1>3. CASE rot[r].derived = memKey /\ pending' = rot[r].new /\ To(r, "tx")
  <2>1. /\ rot'[r].pc = "tx" /\ rot' \in [Rotators -> Rotation]
        /\ rot'[r].new = rot[r].new /\ rot'[r].derived = rot[r].derived
        /\ \A q \in Rotators : q # r => rot'[q] = rot[q]
    BY <1>3, Moves, Zenon DEF RotPCs
  <2>2. TypeOK'
    BY <1>1, <1>3, <2>1, Zenon DEF TypeOK, Rotation
  <2>3. Exclusion' /\ DownIsEmpty'
    BY <1>1, <2>1, Zenon DEF Exclusion, DownIsEmpty, Writing
  <2>4. ~StoreAhead' /\ ~GatewayBehind' /\ \A q \in Rotators : Phase(q)'
    BY <1>1, <1>3, <2>1, Zenon DEF StoreAhead, GatewayBehind, Phase
  <2> QED
    BY <1>1, <1>2, <2>2, <2>3, <2>4, Zenon DEF StoreOnSalt, Opens, KeyFound
<1>4. CASE Done(r) /\ UNCHANGED pending
  <2>1. /\ rot'[r].pc = "idle" /\ rot' \in [Rotators -> Rotation]
        /\ \A q \in Rotators : q # r => rot'[q] = rot[q]
    BY <1>4, Returns, Zenon
  <2>2. TypeOK'
    BY <1>1, <1>4, <2>1, Zenon DEF TypeOK, Rotation
  <2>3. Exclusion' /\ DownIsEmpty'
    BY <1>1, <2>1, Zenon DEF Exclusion, DownIsEmpty, Writing
  <2>4. ~StoreAhead' /\ ~GatewayBehind' /\ \A q \in Rotators : Phase(q)'
    BY <1>1, <1>4, <2>1, Zenon DEF StoreAhead, GatewayBehind, Phase
  <2> QED
    BY <1>1, <1>2, <1>4, <2>2, <2>3, <2>4, Zenon DEF StoreOnSalt, Opens, KeyFound
<1> QED
  BY <1>3, <1>4, Zenon DEF Check

\* The transaction moves the salt and every secret to the new key at once.
LEMMA ResealStep == ASSUME failed' = "none", IInv, NEW r \in Rotators, Reseal(r) PROVE IInv'
<1> USE RotationAssumption DEF IInv, memory
<1>1. /\ \A q \in Rotators : q # r => rot[q].pc \in {"idle", "lock"}
      /\ \A h \in Handlers : held[h] = None
      /\ proc = "up" /\ rot[r].pc = "tx"
      /\ UNCHANGED <<keyFile, pending, memory, held, made>>
      /\ failed' \in {"none", "once", "again"}
  BY Alone, Zenon DEF Reseal, Writing
<1>2. /\ memKey = salt /\ keyFile = salt /\ ~StoreAhead /\ ~GatewayBehind
      /\ pending = rot[r].new
  BY <1>1, Zenon DEF StoreAhead, GatewayBehind, Phase
<1>3. CASE Committed(r) /\ To(r, "rename")
  <2>1. /\ rot'[r].pc = "rename" /\ rot' \in [Rotators -> Rotation]
        /\ rot'[r].new = rot[r].new
        /\ \A q \in Rotators : q # r => rot'[q] = rot[q]
    BY <1>3, Moves, Zenon DEF RotPCs
  <2>2. rot[r].new \in Keys
    BY <1>1, Zenon DEF Phase
  <2>3. TypeOK'
    BY <1>1, <1>3, <2>1, <2>2, Zenon DEF TypeOK, Rotation, Committed, Resealed
  <2>4. Exclusion' /\ DownIsEmpty'
    BY <1>1, <2>1, Zenon DEF Exclusion, DownIsEmpty, Writing
  <2>5. StoreAhead' /\ ~GatewayBehind' /\ \A q \in Rotators : Phase(q)'
    BY <1>1, <1>2, <1>3, <2>1, Zenon DEF StoreAhead, GatewayBehind, Phase, Committed
  <2>6. StoreOnSalt' /\ KeyFound'
    BY <1>1, <1>2, <1>3, Zenon DEF Committed, Resealed, StoreOnSalt, Opens, KeyFound
  <2> QED
    BY <1>1, <1>2, <2>3, <2>4, <2>5, <2>6, Zenon
<1>4. CASE UNCHANGED <<salt, sealed>> /\ Done(r)
  <2>1. /\ rot'[r].pc = "idle" /\ rot' \in [Rotators -> Rotation]
        /\ \A q \in Rotators : q # r => rot'[q] = rot[q]
    BY <1>4, Returns, Zenon
  <2>2. TypeOK'
    BY <1>1, <1>4, <2>1, Zenon DEF TypeOK, Rotation
  <2>3. Exclusion' /\ DownIsEmpty'
    BY <1>1, <2>1, Zenon DEF Exclusion, DownIsEmpty, Writing
  <2>4. ~StoreAhead' /\ ~GatewayBehind' /\ \A q \in Rotators : Phase(q)'
    BY <1>1, <2>1, Zenon DEF StoreAhead, GatewayBehind, Phase
  <2> QED
    BY <1>1, <1>2, <1>4, <2>2, <2>3, <2>4, Zenon DEF StoreOnSalt, Opens, KeyFound
<1> QED
  BY <1>3, <1>4, Zenon DEF Reseal, Failing

\* The pending key file becomes the key file.
LEMMA RenameStep == ASSUME failed' = "none", IInv, NEW r \in Rotators, Rename(r) PROVE IInv'
<1> USE RotationAssumption DEF IInv, memory
<1>1. /\ \A q \in Rotators : q # r => rot[q].pc \in {"idle", "lock"}
      /\ \A h \in Handlers : held[h] = None
      /\ proc = "up" /\ rot[r].pc = "rename"
      /\ UNCHANGED <<salt, sealed, memory, held, made>>
      /\ failed' \in {"none", "once", "again"}
      /\ keyFile' = salt /\ pending' = None
  BY Alone, Zenon DEF Rename, Writing, Failing, Phase
<1>2. /\ rot'[r].pc = "swap" /\ rot' \in [Rotators -> Rotation]
      /\ rot'[r].new = rot[r].new /\ rot[r].new = salt
      /\ \A q \in Rotators : q # r => rot'[q] = rot[q]
  BY <1>1, Moves, Zenon DEF Rename, RotPCs, Phase
<1>3. TypeOK'
  BY <1>1, <1>2, Zenon DEF TypeOK, Rotation
<1>4. Exclusion' /\ DownIsEmpty'
  BY <1>1, <1>2, Zenon DEF Exclusion, DownIsEmpty, Writing
<1>5. StoreAhead' /\ ~GatewayBehind' /\ ~GatewayBehind
  BY <1>1, <1>2, Zenon DEF StoreAhead, GatewayBehind
<1>6. \A q \in Rotators : Phase(q)'
  BY <1>1, <1>2, Zenon DEF Phase
<1> QED
  BY <1>1, <1>3, <1>4, <1>5, <1>6, Zenon DEF StoreOnSalt, Opens, KeyFound

\* The key in memory follows the store.
LEMMA SwapStep == ASSUME IInv, NEW r \in Rotators, Swap(r) PROVE IInv'
<1> USE RotationAssumption DEF IInv, disk
<1>1. /\ \A q \in Rotators : q # r => rot[q].pc \in {"idle", "lock"}
      /\ \A h \in Handlers : held[h] = None
      /\ proc = "up" /\ rot[r].pc = "swap"
      /\ UNCHANGED <<disk, proc, gw, gwBuild, held, made, failed>>
      /\ memKey' = salt /\ keyFile = salt
  BY Alone, Zenon DEF Swap, Writing, Phase
<1>2. /\ rot'[r].pc = "reset" /\ rot' \in [Rotators -> Rotation]
      /\ rot'[r].new = rot[r].new
      /\ \A q \in Rotators : q # r => rot'[q] = rot[q]
  BY <1>1, Moves, Zenon DEF Swap, RotPCs
<1>3. TypeOK'
  BY <1>1, <1>2, Zenon DEF TypeOK, Rotation
<1>4. Exclusion' /\ DownIsEmpty'
  BY <1>1, <1>2, Zenon DEF Exclusion, DownIsEmpty, Writing
<1>5. GatewayBehind' /\ \A q \in Rotators : Phase(q)'
  BY <1>1, <1>2, Zenon DEF GatewayBehind, Phase
<1> QED
  BY <1>1, <1>3, <1>4, <1>5, Zenon DEF StoreOnSalt, Opens, KeyFound

\* The Gateway that holds the old key is dropped and sealMu is released.
LEMMA ResetStep == ASSUME IInv, NEW r \in Rotators, Reset(r) PROVE IInv'
<1> USE RotationAssumption DEF IInv, disk
<1>1. /\ \A q \in Rotators : q # r => rot[q].pc \in {"idle", "lock"}
      /\ \A h \in Handlers : held[h] = None
      /\ proc = "up" /\ rot[r].pc = "reset"
      /\ UNCHANGED <<disk, proc, memKey, gwBuild, held, made, failed>>
      /\ gw' = None /\ gwBuild = None
      /\ memKey = salt /\ keyFile = salt
  BY Alone, Zenon DEF Reset, Writing, Phase
<1>2. /\ rot'[r].pc = "idle" /\ rot' \in [Rotators -> Rotation]
      /\ \A q \in Rotators : q # r => rot'[q] = rot[q]
  BY <1>1, Returns, Zenon DEF Reset
<1>3. TypeOK'
  BY <1>1, <1>2, Zenon DEF TypeOK, Rotation
<1>4. Exclusion' /\ DownIsEmpty'
  BY <1>1, <1>2, Zenon DEF Exclusion, DownIsEmpty, Writing
<1>5. \A q \in Rotators : Phase(q)'
  BY <1>1, <1>2, Zenon DEF Phase
<1> QED
  BY <1>1, <1>3, <1>4, <1>5, Zenon DEF StoreOnSalt, Opens, KeyFound

\* A crash, the recovery of the pending key file and a start.
LEMMA ProcessStep == ASSUME IInv, Crash \/ RecoverPendingKey \/ Load PROVE IInv'
<1> USE RotationAssumption DEF IInv, disk, memory
<1>1. CASE Crash
  <2>1. NoRotation \in Rotation /\ NoRotation.pc = "idle"
    BY Zenon DEF NoRotation, Rotation, RotPCs
  <2>2. TypeOK' /\ \A r \in Rotators : rot'[r].pc = "idle"
    BY <1>1, <2>1, Zenon DEF Crash, TypeOK, Rotation
  <2>3. /\ proc' = "down" /\ gw' = None /\ gwBuild' = None /\ \A h \in Handlers : held'[h] = None
        /\ UNCHANGED <<disk, memKey, made, failed>>
    BY <1>1, Zenon DEF Crash
  <2>4. Exclusion' /\ DownIsEmpty' /\ (\A r \in Rotators : Phase(r)') /\ StoreOnSalt' /\ KeyFound'
    BY <2>2, <2>3, Zenon DEF Exclusion, Writing, DownIsEmpty, Phase, StoreOnSalt, Opens, KeyFound
  <2> QED
    BY <2>2, <2>3, <2>4, Zenon
<1>2. CASE RecoverPendingKey
  <2>1. TypeOK' /\ keyFile' = salt /\ UNCHANGED <<salt, sealed, memory, held, rot, made, failed>>
    BY <1>2, Zenon DEF RecoverPendingKey, TypeOK, KeyFound
  <2>2. \A r \in Rotators : rot[r].pc = "idle"
    BY <1>2, Zenon DEF RecoverPendingKey, DownIsEmpty
  <2> QED
    BY <1>2, <2>1, <2>2, Zenon DEF RecoverPendingKey, Exclusion, Writing, DownIsEmpty, Phase, StoreOnSalt, Opens,
                            KeyFound, GatewayBehind
<1>3. CASE Load
  <2>1. memKey' = salt /\ keyFile = salt /\ UNCHANGED <<disk, gw, gwBuild, held, rot, made, failed>>
    BY <1>3 DEF Load, TypeOK, KeyFound, Keys
  <2>2. TypeOK'
    BY <1>3, <2>1, Zenon DEF Load, TypeOK
  <2>3. (\A r \in Rotators : rot[r].pc = "idle") /\ (\A h \in Handlers : held[h] = None)
        /\ gw = None /\ gwBuild = None
    BY <1>3, Zenon DEF Load, DownIsEmpty
  <2> QED
    BY <1>3, <2>1, <2>2, <2>3, Zenon DEF Load, Exclusion, Writing, DownIsEmpty, Phase, StoreOnSalt, Opens, KeyFound
<1> QED
  BY <1>1, <1>2, <1>3, Zenon

\* Every step at which nothing has failed keeps the invariant.
LEMMA CleanStep == ASSUME IInv, Next, failed = "none", failed' = "none" PROVE IInv'
  BY Zenon, SealStep, WriteStep, GatewayStep, DeriveStep, LockStep, CheckStep, ResealStep, RenameStep,
     SwapStep, ResetStep, ProcessStep DEF Next, Rotate

-----------------------------------------------------------------------------
(* After a failure *)

\* The rotation that met the failure is past its transaction and its rename.
Once ==
  /\ TypeOK
  /\ KeyFound
  /\ \A r \in Rotators : /\ rot[r].pc \notin {"tx", "rename"}
                         /\ rot[r].pc # "idle" => rot[r].new \in Keys

\* A commit reported as failed, or a failed rename: seal.key.new holds the key
\* of the stored salt.
LEMMA FailureStep == ASSUME IInv, Next, failed = "none", failed' # "none" PROVE Once' /\ failed' = "once"
<1>1. PICK r \in Rotators : \/ Reseal(r) /\ Committed(r) /\ Done(r) /\ Failing
                            \/ Rename(r) /\ UNCHANGED <<keyFile, pending>> /\ Failing
  BY Zenon DEF Next, Rotate, Seal, Write, Derive, Lock, Check, Reseal, Rename, Swap, Reset, Overwriting,
         BuildGateway, PublishGateway, Crash, RecoverPendingKey, Load
<1>2. /\ failed' = "once" /\ UNCHANGED <<keyFile, pending, memory, held, made>>
      /\ rot[r].pc \in {"tx", "rename"}
  BY <1>1, Zenon DEF Failing, Reseal, Rename
<1>3. Writing(r)
  BY <1>2, Zenon DEF Writing
<1>4. /\ \A q \in Rotators : q # r => rot[q].pc \in {"idle", "lock"}
      /\ \A q \in Rotators : rot[q].pc # "idle" => rot[q].new \in Keys
  BY <1>3, Alone, Zenon DEF IInv, Phase
<1>5. TypeOK
  BY Zenon DEF IInv
<1>6. CASE Reseal(r) /\ Committed(r) /\ Done(r)
  <2>1. rot'[r].pc = "idle" /\ rot' \in [Rotators -> Rotation]
        /\ \A q \in Rotators : q # r => rot'[q] = rot[q]
    BY <1>5, <1>6, Returns, Zenon
  <2>2. pending = rot[r].new /\ rot[r].new \in Keys
    BY <1>6, Zenon DEF IInv, Phase, Reseal
  <2>3. salt' = pending' /\ sealed' = Resealed(rot[r].new)
    BY <1>2, <1>6, <2>2, Zenon DEF Committed
  <2>4. TypeOK'
    BY <1>2, <1>5, <2>1, <2>2, <2>3, Zenon DEF TypeOK, Rotation, Resealed, memory
  <2> QED
    BY <1>2, <1>4, <2>1, <2>3, <2>4, Zenon DEF Once, KeyFound
<1>7. CASE Rename(r)
  <2>1. rot'[r].pc = "swap" /\ rot' \in [Rotators -> Rotation] /\ rot'[r].new = rot[r].new
        /\ \A q \in Rotators : q # r => rot'[q] = rot[q]
    BY <1>5, <1>7, Moves, Zenon DEF Rename, RotPCs
  <2>2. pending = salt /\ UNCHANGED <<salt, sealed>>
    BY <1>7, Zenon DEF IInv, Phase, Rename
  <2>3. TypeOK'
    BY <1>2, <1>5, <2>1, <2>2, Zenon DEF TypeOK, Rotation, memory
  <2> QED
    BY <1>2, <1>4, <2>1, <2>2, <2>3, Zenon DEF Once, KeyFound
<1> QED
  BY <1>1, <1>6, <1>7, Zenon

\* Until a rotation writes seal.key.new again, nobody touches the store's salt,
\* and recoverPendingKey finds the right file.
LEMMA OnceStep == ASSUME Once, Next, failed = "once", failed' # "again" PROVE Once' /\ failed' = "once"
<1> USE RotationAssumption DEF Once, KeyFound, disk, memory
<1>1. ASSUME NEW h \in Handlers, Seal(h) \/ Write(h) PROVE Once' /\ failed' = "once"
  BY <1>1, Zenon DEF Seal, Write, TypeOK
<1>2. ASSUME NEW r \in Rotators, Derive(r) PROVE Once' /\ failed' = "once"
  <2>1. PICK d \in {salt, None} :
          rot' = [rot EXCEPT ![r] = [pc |-> "lock", derived |-> d, new |-> made + 1]]
    BY <1>2, Zenon DEF Derive
  <2>2. made' \in Keys /\ made + 1 \in Keys /\ UNCHANGED <<disk, memory, held, failed>>
    BY <1>2 DEF Derive, TypeOK, Keys
  <2>3. [pc |-> "lock", derived |-> d, new |-> made + 1] \in Rotation
    BY <2>2, Zenon DEF Rotation, RotPCs, TypeOK
  <2> QED
    BY <2>1, <2>2, <2>3, Zenon DEF TypeOK, Rotation
<1>3. ASSUME NEW r \in Rotators, Rotate(r) PROVE Once' /\ failed' = "once"
  <2>1. /\ \/ \E c \in {"check", "reset"} : To(r, c)
           \/ Done(r)
        /\ UNCHANGED <<salt, sealed, keyFile, pending, proc, gwBuild, held, made, failed>>
        /\ memKey' \in {memKey, rot[r].new} /\ gw' \in {gw, None}
        /\ rot[r].pc # "swap" => memKey' = memKey
    BY <1>3, Zenon DEF Rotate, Lock, Check, Reseal, Rename, Swap, Reset, Overwriting
  <2>2. /\ rot' \in [Rotators -> Rotation] /\ rot'[r].pc \in {"check", "reset", "idle"}
        /\ rot'[r].pc # "idle" => rot'[r].new = rot[r].new /\ rot[r].pc # "idle"
        /\ \A q \in Rotators : q # r => rot'[q] = rot[q]
    BY <1>3, <2>1, Moves, Returns, Zenon DEF RotPCs, Rotate, Lock, Check, Reseal, Rename, Swap, Reset
  <2>3. memKey' \in Keys
    BY <2>1, Zenon DEF TypeOK
  <2> QED
    BY <2>1, <2>2, <2>3, Zenon DEF TypeOK, Rotation
<1>4. ASSUME BuildGateway \/ PublishGateway PROVE Once' /\ failed' = "once"
  BY <1>4, Zenon DEF BuildGateway, PublishGateway, TypeOK
<1>5. ASSUME Crash \/ RecoverPendingKey \/ Load PROVE Once' /\ failed' = "once"
  <2>1. NoRotation \in Rotation /\ NoRotation.pc = "idle"
    BY Zenon DEF NoRotation, Rotation, RotPCs
  <2> QED
    BY <1>5, <2>1 DEF Crash, RecoverPendingKey, Load, TypeOK, Rotation
<1> QED
  BY <1>1, <1>2, <1>3, <1>4, <1>5, Zenon DEF Next

-----------------------------------------------------------------------------
(* The inductive invariant *)

Whole ==
  /\ failed = "none" => IInv
  /\ failed = "once" => Once
  /\ failed \in {"none", "once", "again"}

\* A failure is never forgotten.
LEMMA FailureStays == ASSUME Next, failed = "again" PROVE failed' = "again"
  BY Zenon DEF Next, Rotate, Seal, Write, Derive, Lock, Check, Reseal, Rename, Swap, Reset, Failing, Overwriting,
         BuildGateway, PublishGateway, Crash, RecoverPendingKey, Load

\* Every behaviour: the full invariant until the first failure, the weak one
\* until a rotation writes a key file after it.
THEOREM Inductive == Spec => []Whole
<1>1. Init => Whole
  BY InitIInv, Zenon DEF Init, Whole
<1>2. Whole /\ [Next]_vars => Whole'
  <2> SUFFICES ASSUME Whole, [Next]_vars PROVE Whole'
    BY Zenon
  <2>1. CASE UNCHANGED vars
    BY <2>1 DEF vars, Whole, IInv, Once, TypeOK, Exclusion, Writing, DownIsEmpty, Phase, StoreOnSalt, Opens,
                KeyFound, StoreAhead, GatewayBehind
  <2>2. CASE Next /\ failed = "none"
    BY <2>2, CleanStep, FailureStep, Zenon DEF Whole
  <2>3. CASE Next /\ failed = "once"
    BY <2>3, OnceStep, Zenon DEF Whole
  <2>4. CASE Next /\ failed = "again"
    BY <2>4, FailureStays, Zenon DEF Whole
  <2> QED
    BY <2>1, <2>2, <2>3, <2>4, Zenon DEF Whole
<1> QED
  BY <1>1, <1>2, PTL DEF Spec

-----------------------------------------------------------------------------
(* What follows *)

\* Whenever no rotation holds sealMu, the key in memory opens every stored
\* secret: handlers wrapped in sealHeld never see a store on another key.
THEOREM StoreStaysReadable == Spec => []StoreReadable
<1>1. Whole => StoreReadable
  BY Zenon DEF Whole, IInv, StoreOnSalt, StoreReadable, StoreAhead, Writer, Writing
<1> QED
  BY <1>1, Inductive, PTL

\* After whatever step RotatePassphrase dies, seal.key or seal.key.new holds the
\* key of the stored salt, for recoverPendingKey to find; also after a rename
\* that failed or a commit that was reported as failed.
THEOREM KeyStaysOnDisk == Spec => []KeyOnDisk
<1>1. Whole => KeyOnDisk
  BY Zenon DEF Whole, IInv, Once, KeyFound, KeyOnDisk
<1> QED
  BY <1>1, Inductive, PTL

\* The store is never sealed under two keys: Reseal and the handlers that seal
\* and write exclude each other.
THEOREM StoreOnOneKey == Spec => []OneKey
<1>1. Whole => OneKey
  BY Zenon DEF Whole, IInv, StoreOnSalt, OneKey
<1> QED
  BY <1>1, Inductive, PTL

\* Outside a rotation the Gateway holds the key in force: gateway() and
\* resetGateway cannot leave one behind that was built with the old key.
THEOREM GatewayStaysCurrent == Spec => []GatewayKeyCurrent
<1>1. Whole => GatewayKeyCurrent
  BY Zenon DEF Whole, IInv, GatewayKeyCurrent, GatewayBehind, Writer, Writing
<1> QED
  BY <1>1, Inductive, PTL

\* Whenever load brings the server up after a crash, at any step of any
\* rotation, and nothing has failed, the key it reads opens every secret.
THEOREM RestartIsConsistent == Spec => ComesBackUnlessFailed
<1>1. Whole /\ [Next]_vars => [failed = "none" /\ proc = "down" /\ proc' = "up" => Opens(memKey')]_vars
  <2> SUFFICES ASSUME IInv, Next, proc = "down", proc' = "up" PROVE Opens(memKey')
    BY Zenon DEF vars, Whole
  <2>1. Load
    BY Zenon DEF IInv, DownIsEmpty, Next, Rotate, Seal, Write, Derive, Lock, Check, Reseal, Rename, Swap, Reset,
           BuildGateway, PublishGateway, Crash, RecoverPendingKey, memory
  <2> QED
    BY <2>1, RotationAssumption, Zenon DEF Load, IInv, TypeOK, Keys, StoreOnSalt, KeyFound, Opens, disk
<1> QED
  BY <1>1, Inductive, PTL DEF Spec, ComesBackUnlessFailed

\* Only a rotation whose "current" passphrase is in force at its commit re-seals
\* the store (RotatePassphrase compares under the lock).
THEOREM RotationsAreAuthorized == Spec => AuthorizedRotation
<1>1. Whole /\ [Next]_vars
        => [failed = "none" /\ salt' # salt
              => \E r \in Rotators : rot[r].pc = "tx" /\ rot[r].derived = salt]_vars
  <2> SUFFICES ASSUME IInv, Next, salt' # salt
               PROVE  \E r \in Rotators : rot[r].pc = "tx" /\ rot[r].derived = salt
    BY Zenon DEF vars, Whole
  <2>1. PICK r \in Rotators : Reseal(r)
    BY Zenon DEF Next, Rotate, Seal, Write, Derive, Lock, Check, Rename, Swap, Reset,
           BuildGateway, PublishGateway, Crash, RecoverPendingKey, Load, disk
  <2>2. rot[r].pc = "tx" /\ Writing(r)
    BY <2>1, Zenon DEF Reseal, Writing
  <2>3. memKey = salt
    BY <2>2, Alone, Zenon DEF IInv, StoreAhead
  <2> QED
    BY <2>2, <2>3, Zenon DEF IInv, Phase
<1> QED
  BY <1>1, Inductive, PTL DEF Spec, AuthorizedRotation
=============================================================================
