---------------------------- MODULE LifecycleLock ----------------------------
(***************************************************************************)
(* The lock every host command takes on a lifecycle record                 *)
(* (core/lifecycleLock.ts, lifecycleLockGuard.ts): a kernel flock that a   *)
(* helper child holds, and an owner record that names the process instance.*)
(*                                                                         *)
(* The flock serialises takeovers; the record keeps the lock when the      *)
(* helper dies under a live owner.  The acquirer does not notice when its  *)
(* helper dies before the record is published, and goes on without the     *)
(* flock.  A process instance is a process and the number of times it was  *)
(* started: process id, boot and start ticks.                              *)
(***************************************************************************)
EXTENDS Naturals, FiniteSets

CONSTANTS KProcesses,   \* processes that lock one name
          KMaxStarts,   \* bound on the instances of a process
          KMaxFaults    \* bound on helper deaths, failed probes and failed writes

ASSUME LockAssumption == IsFiniteSet(KProcesses) /\ KMaxStarts \in Nat \ {0} /\ KMaxFaults \in Nat

VARIABLES
    kStage,    \* [KProcesses -> stage of acquireLifecycleLock or of the release]
    kStarts,   \* [KProcesses -> current instance]
    kOwner,    \* owner record: an instance, or KNobody
    kGuard,    \* instance whose helper holds the flock, or KNobody
    kUnguarded,  \* history: helpers that died before their owner's record was published
    kFaults

kVars == <<kStage, kStarts, kOwner, kGuard, kUnguarded, kFaults>>

KNobody == <<"nobody", 0>>
KMe(p) == <<p, kStarts[p]>>

LockInit ==
    /\ kStage = [p \in KProcesses |-> "idle"]
    /\ kStarts = [p \in KProcesses |-> 1]
    /\ kOwner = KNobody
    /\ kGuard = KNobody
    /\ kUnguarded = 0
    /\ kFaults = 0

KFault == kFaults < KMaxFaults /\ kFaults' = kFaults + 1

(* What probeProcess finds out about the instance a record names.          *)
KLive(owner) == \E p \in KProcesses : owner = KMe(p) /\ kStage[p] # "dead"

KGoes(p, stage) == kStage' = [kStage EXCEPT ![p] = stage]

(* The helper of p gives the flock up, unless it already died.             *)
KDropGuard(p) == kGuard' = IF kGuard = KMe(p) THEN KNobody ELSE kGuard

(* An attempt that failed: release the flock and sleep.  The release of a  *)
(* helper that was killed throws, and so does the acquisition.             *)
KRetries(p) == KDropGuard(p) /\ KGoes(p, IF kGuard = KMe(p) THEN "waiting" ELSE "idle")

(* acquireLifecycleLock is called.                                         *)
KAcquire(p) ==
    /\ kStage[p] = "idle"
    /\ KGoes(p, "waiting")
    /\ UNCHANGED <<kStarts, kOwner, kGuard, kUnguarded, kFaults>>

(* tryAcquireKernelGuard: flock --nonblock succeeds.                       *)
KTryGuard(p) ==
    /\ kStage[p] = "waiting"
    /\ kGuard = KNobody
    /\ kGuard' = KMe(p)
    /\ KGoes(p, "reading")
    /\ UNCHANGED <<kStarts, kOwner, kUnguarded, kFaults>>

(* flock or the helper fails before it says that it holds the lock.        *)
KGuardFails(p) ==
    /\ kStage[p] = "waiting"
    /\ KFault
    /\ KGoes(p, "idle")
    /\ UNCHANGED <<kStarts, kOwner, kGuard, kUnguarded>>

\* Mutants: only a missing record is replaced; a live owner's record is too.
KReplaceableMissing(owner) == owner = KNobody
KReplaceableAlways(owner) == owner = owner

(* A record that may be replaced: none, or one whose process instance is   *)
(* dead or was reused.                                                     *)
KReplaceable(owner) == owner = KNobody \/ ~KLive(owner)

KReadOwner(p) ==
    /\ kStage[p] = "reading"
    /\ KReplaceable(kOwner)
    /\ KGoes(p, "publishing")
    /\ UNCHANGED <<kStarts, kOwner, kGuard, kUnguarded, kFaults>>

(* The owner is live.                                                      *)
KBackOff(p) ==
    /\ kStage[p] = "reading"
    /\ ~KReplaceable(kOwner)
    /\ KRetries(p)
    /\ UNCHANGED <<kStarts, kOwner, kUnguarded, kFaults>>

(* The record or the process cannot be read; an owner that cannot be       *)
(* verified counts as live.                                                *)
KUnverified(p) ==
    /\ kStage[p] = "reading"
    /\ kOwner # KNobody
    /\ KFault
    /\ KRetries(p)
    /\ UNCHANGED <<kStarts, kOwner, kUnguarded>>

(* publishOwner: temporary file, rename, directory sync.                   *)
KPublish(p) ==
    /\ kStage[p] = "publishing"
    /\ kOwner' = KMe(p)
    /\ KGoes(p, "held")
    /\ UNCHANGED <<kStarts, kGuard, kUnguarded, kFaults>>

(* publishOwner throws, before or after the rename: the flock is released  *)
(* and the caller gets the error; a renamed record stays.                  *)
KPublishFails(p) ==
    /\ kStage[p] = "publishing"
    /\ KFault
    /\ kOwner' \in {kOwner, KMe(p)}
    /\ KDropGuard(p)
    /\ KGoes(p, "idle")
    /\ UNCHANGED <<kStarts, kUnguarded>>

(* The wait timeout has passed when an attempt fails, on the flock or on a *)
(* live owner.                                                             *)
KTimeout(p) ==
    /\ \/ kStage[p] = "waiting" /\ kGuard # KNobody
       \/ kStage[p] = "reading" /\ ~KReplaceable(kOwner)
    /\ KDropGuard(p)
    /\ KGoes(p, "idle")
    /\ UNCHANGED <<kStarts, kOwner, kUnguarded, kFaults>>

(* The release function: remove the record, when it is still this owner's. *)
KRelease(p) ==
    /\ kStage[p] = "held"
    /\ kOwner' = IF kOwner = KMe(p) THEN KNobody ELSE kOwner
    /\ KGoes(p, "releasing")
    /\ UNCHANGED <<kStarts, kGuard, kUnguarded, kFaults>>

(* Its finally block ends the helper.                                      *)
KReleased(p) ==
    /\ kStage[p] = "releasing"
    /\ KDropGuard(p)
    /\ KGoes(p, "idle")
    /\ UNCHANGED <<kStarts, kOwner, kUnguarded, kFaults>>

(* The process dies at any point.                                          *)
KDies(p) ==
    /\ kStage[p] # "dead"
    /\ kStarts[p] < KMaxStarts
    /\ KGoes(p, "dead")
    /\ UNCHANGED <<kStarts, kOwner, kGuard, kUnguarded, kFaults>>

(* The helper of a dead process reads the end of its input and exits.      *)
KHelperExits(p) ==
    /\ kStage[p] = "dead"
    /\ kGuard = KMe(p)
    /\ kGuard' = KNobody
    /\ UNCHANGED <<kStage, kStarts, kOwner, kUnguarded, kFaults>>

(* The process, or another with its process id, starts.                    *)
KStarts(p) ==
    /\ kStage[p] = "dead"
    /\ kGuard # KMe(p)
    /\ kStarts' = [kStarts EXCEPT ![p] = @ + 1]
    /\ KGoes(p, "idle")
    /\ UNCHANGED <<kOwner, kGuard, kUnguarded, kFaults>>

(* The helper of a live process is killed, at any point after it took the  *)
(* flock: while its owner reads or publishes the record, or holds the lock.*)
KHelperDies(p) ==
    /\ kStage[p] # "dead"
    /\ kGuard = KMe(p)
    /\ KFault
    /\ kGuard' = KNobody
    /\ kUnguarded' = IF kStage[p] \in {"reading", "publishing"} THEN kUnguarded + 1 ELSE kUnguarded
    /\ UNCHANGED <<kStage, kStarts, kOwner>>

KTakes(p) == KTryGuard(p) \/ KReadOwner(p) \/ KBackOff(p) \/ KPublish(p)
KEnds(p) == KRelease(p) \/ KReleased(p) \/ KHelperExits(p)

LockNext == \E p \in KProcesses :
    \/ KAcquire(p) \/ KTakes(p) \/ KEnds(p) \/ KTimeout(p)
    \/ KGuardFails(p) \/ KUnverified(p) \/ KPublishFails(p) \/ KHelperDies(p) \/ KDies(p) \/ KStarts(p)

LockFairness == \A p \in KProcesses : WF_kVars(KTakes(p)) /\ WF_kVars(KEnds(p))

LockSpec == LockInit /\ [][LockNext]_kVars /\ LockFairness

-----------------------------------------------------------------------------
LockTypeOK ==
    /\ kStage \in [KProcesses -> {"idle", "waiting", "reading", "publishing", "held", "releasing", "dead"}]
    /\ kStarts \in [KProcesses -> 1..KMaxStarts]
    /\ {kOwner, kGuard} \subseteq {KNobody} \cup (KProcesses \X (1..KMaxStarts))
    /\ kUnguarded \in 0..kFaults
    /\ kFaults \in 0..KMaxFaults

(* At most one live process holds the lock, plus one for every helper that *)
(* died before its owner published its record: whatever helpers die later, *)
(* records are left behind, overwritten or removed, publications fail and  *)
(* process ids are reused.                                                 *)
LockExclusive == Cardinality({p \in KProcesses : kStage[p] = "held"}) <= 1 + kUnguarded

(* A lock that no live process owns is taken by somebody who waits for it, *)
(* unless all who wait give up, or a publication that failed after its     *)
(* rename left the record of a process that lives on without the lock.     *)
StaleLockTaken ==
    ((\E p \in KProcesses : kStage[p] = "waiting") /\ ~KLive(kOwner))
        ~> \/ \E p \in KProcesses : kStage[p] = "held"
           \/ \A p \in KProcesses : kStage[p] # "waiting"
           \/ \E p \in KProcesses : kOwner = KMe(p) /\ kStage[p] \in {"idle", "waiting"}
=============================================================================
