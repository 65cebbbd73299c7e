---------------------------- MODULE ManagedProxy ----------------------------
(***************************************************************************)
(* dim-controller-proxy ensure (controller-proxy/managed-proxy.ts and      *)
(* managed-process.ts): any number of callers keep one detached proxy      *)
(* behind a Unix socket.  They share the socket, a state file that names   *)
(* the proxy, and a lock file taken over when its owner is dead.           *)
(*                                                                         *)
(* A process is the number of its start; its PID may be one used before,   *)
(* also between the reads of /proc and the signal.  A process of an        *)
(* earlier boot is gone with its PID namespace.                            *)
(***************************************************************************)
EXTENDS Naturals, FiniteSets

CONSTANTS PCallers,      \* invocations of ensure
          PConfigs,      \* fingerprints of the configurations they ask for
          PPids,         \* process IDs
          PMaxStarts,    \* bound on processes started
          PMaxBoots,     \* bound on PID namespaces
          PMaxFaults,    \* bound on deaths, stalls and failing calls
          PNone

VARIABLES
    pProcs,    \* processes started: proxies and unrelated ones
    pState,    \* the state file, or PNone
    pSocket,   \* process whose socket is at the path, 0: no file
    pLock,     \* the lock file, or PNone
    pCalls,    \* callers; seen: processes started when the caller last read the identity of its target
    pBoot,     \* present PID namespace
    pFaults

pVars == <<pProcs, pState, pSocket, pLock, pCalls, pBoot, pFaults>>

PCall(pc, config) ==
    [pc |-> pc, config |-> config, target |-> 0, signal |-> "SIGTERM", after |-> "release", seen |-> 0]

PInit ==
    /\ pProcs = [s \in {} |-> PNone]
    /\ pState = PNone /\ pSocket = 0 /\ pLock = PNone
    /\ pCalls = [c \in PCallers |-> PCall("idle", PNone)]
    /\ pBoot = 1 /\ pFaults = 0

PFault == pFaults < PMaxFaults /\ pFaults' = pFaults + 1
PAt(c, pc) == pCalls[c].pc = pc
PGoes(c, pc) == pCalls' = [pCalls EXCEPT ![c].pc = pc]
(* terminate is called; it returns to stage after, or throws.              *)
PTerminates(c, target, after) ==
    pCalls' = [pCalls EXCEPT ![c].pc = "stat", ![c].target = target, ![c].signal = "SIGTERM", ![c].after = after]

PStarted == Cardinality(DOMAIN pProcs)
PAlive(s) == pProcs[s].phase \in {"starting", "listening"}
PLivePids == {pProcs[s].pid : s \in {t \in DOMAIN pProcs : PAlive(t)}}

(* spawn of a process that gets the PID.                                   *)
PStartedAs(pid, kind, config) ==
    /\ PStarted < PMaxStarts
    /\ pProcs' = [s \in 1..(PStarted + 1) |->
                    IF s = PStarted + 1 THEN [pid |-> pid, kind |-> kind, phase |-> "starting", config |-> config]
                    ELSE pProcs[s]]

(* processIdentityStatus of the process started as s.                      *)
\* Mutant: a live process with the recorded PID passes for the proxy.
PStatusByPid(s) == IF pProcs[s].pid \in PLivePids THEN "matching" ELSE "dead"
PStatus(s) ==
    IF PAlive(s) THEN "matching" ELSE IF pProcs[s].pid \in PLivePids THEN "mismatched" ELSE "dead"

(* socketReady: somebody answers at the path, and the process holds a      *)
(* socket bound to it.                                                     *)
PSocketReady(s) ==
    /\ pSocket # 0 /\ pProcs[pSocket].phase = "listening"
    /\ PStatus(s) = "matching" /\ pProcs[s].phase = "listening"

-----------------------------------------------------------------------------
(* acquireProcessLock.                                                     *)

PEnsure(c, config) ==
    /\ PAt(c, "idle")
    /\ pCalls' = [pCalls EXCEPT ![c] = PCall("lock", config)]
    /\ UNCHANGED <<pProcs, pState, pSocket, pLock, pBoot, pFaults>>

(* open(lockPath, "wx"), then the owner is written into the file, wherever *)
(* it has been moved by then.                                              *)
PTryLock(c) ==
    /\ PAt(c, "lock") /\ pLock = PNone
    /\ pLock' = [by |-> c, named |-> FALSE]
    /\ PGoes(c, "name")
    /\ UNCHANGED <<pProcs, pState, pSocket, pBoot, pFaults>>

PNameLock(c) ==
    /\ PAt(c, "name")
    /\ pLock' = IF pLock # PNone /\ pLock.by = c THEN [pLock EXCEPT !.named = TRUE] ELSE pLock
    /\ PGoes(c, "read")
    /\ UNCHANGED <<pProcs, pState, pSocket, pBoot, pFaults>>

PNameLockFails(c) ==
    /\ PAt(c, "name") /\ PFault
    /\ pLock' = PNone
    /\ PGoes(c, "done")
    /\ UNCHANGED <<pProcs, pState, pSocket, pBoot>>

(* The owner is dead, or has not been written within the grace period.     *)
(* An owner whose PID is in use again is waited for.                       *)
PAbandoned == PAt(pLock.by, "dead")

PJudge(c) ==
    /\ PAt(c, "lock") /\ pLock # PNone
    /\ \/ PAbandoned /\ UNCHANGED pFaults
       \/ ~pLock.named /\ ~PAbandoned /\ PFault
    /\ PGoes(c, "recover")
    /\ UNCHANGED <<pProcs, pState, pSocket, pLock, pBoot>>

(* recoverLock: the file at the path goes, whose ever it is by now.        *)
PRecover(c) ==
    /\ PAt(c, "recover")
    /\ pLock' = PNone
    /\ PGoes(c, "lock")
    /\ UNCHANGED <<pProcs, pState, pSocket, pBoot, pFaults>>

PGiveUp(c) ==
    /\ PAt(c, "lock") /\ pLock # PNone
    /\ PGoes(c, "done")
    /\ UNCHANGED <<pProcs, pState, pSocket, pLock, pBoot, pFaults>>

PRelease(c) ==
    /\ PAt(c, "release")
    /\ pLock' = PNone
    /\ PGoes(c, "done")
    /\ UNCHANGED <<pProcs, pState, pSocket, pBoot, pFaults>>

-----------------------------------------------------------------------------
(* reconcile.                                                              *)

PElsewhere == pState # PNone /\ pState.boot # pBoot
PHere == pState # PNone /\ pState.boot = pBoot
PReusable(c) == PStatus(pState.proc) = "matching" /\ pState.config = pCalls[c].config /\ PSocketReady(pState.proc)

(* A socket without state is left alone.                                   *)
PReadNothing(c) ==
    /\ PAt(c, "read") /\ pState = PNone
    /\ PGoes(c, IF pSocket # 0 THEN "release" ELSE "spawn")
    /\ UNCHANGED <<pProcs, pState, pSocket, pLock, pBoot, pFaults>>

(* State of another PID namespace: nothing is signalled.                   *)
PReadElsewhere(c) ==
    /\ PAt(c, "read") /\ PElsewhere
    /\ pSocket' = 0
    /\ PGoes(c, "forget")
    /\ UNCHANGED <<pProcs, pState, pLock, pBoot, pFaults>>

(* An unknown process has the PID: refused.  The same proxy is reused.     *)
PReadHere(c) ==
    /\ PAt(c, "read") /\ PHere
    /\ \/ (PStatus(pState.proc) = "mismatched" \/ PReusable(c)) /\ PGoes(c, "release")
       \/ PStatus(pState.proc) = "matching" /\ ~PReusable(c) /\ PTerminates(c, pState.proc, "forget")
       \/ PStatus(pState.proc) = "dead" /\ PGoes(c, "forget")
    /\ UNCHANGED <<pProcs, pState, pSocket, pLock, pBoot, pFaults>>

(* The probe of a healthy proxy times out.                                 *)
PProbeTimesOut(c) ==
    /\ PAt(c, "read") /\ PHere /\ PReusable(c) /\ PFault
    /\ PTerminates(c, pState.proc, "forget")
    /\ UNCHANGED <<pProcs, pState, pSocket, pLock, pBoot>>

(* signalOwnedProcess: /proc/PID/stat and /proc/PID/cmdline are read, then *)
(* the PID is signalled, whose ever it is by then.                         *)
PUses(c) == {s \in DOMAIN pProcs : PAlive(s) /\ pProcs[s].pid = pProcs[pCalls[c].target].pid}

PStat(c) ==
    /\ PAt(c, "stat")
    /\ LET status == PStatus(pCalls[c].target) IN
       pCalls' = [pCalls EXCEPT ![c].seen = PStarted,
                                ![c].pc = IF status = "matching" THEN "cmdline"
                                          ELSE IF status = "dead" THEN pCalls[c].after ELSE "release"]
    /\ UNCHANGED <<pProcs, pState, pSocket, pLock, pBoot, pFaults>>

(* The command line, of whatever process has the PID, holds the marker.    *)
PCmdline(c) ==
    /\ PAt(c, "cmdline")
    /\ PGoes(c, IF PUses(c) = {} THEN pCalls[c].after
                ELSE IF \E s \in PUses(c) : pProcs[s].kind = "proxy" THEN "kill" ELSE "release")
    /\ UNCHANGED <<pProcs, pState, pSocket, pLock, pBoot, pFaults>>

(* SIGTERM lets a proxy remove its socket path, SIGKILL does not.          *)
PKill(c) ==
    /\ PAt(c, "kill") /\ PUses(c) # {}
    /\ pProcs' = [s \in DOMAIN pProcs |-> IF s \in PUses(c) THEN [pProcs[s] EXCEPT !.phase = "killed"] ELSE pProcs[s]]
    /\ \/ UNCHANGED pSocket
       \/ /\ pCalls[c].signal = "SIGTERM"
          /\ \E s \in PUses(c) : pProcs[s].kind = "proxy" /\ pProcs[s].phase = "listening"
          /\ pSocket' = 0
    /\ PGoes(c, "exit")
    /\ UNCHANGED <<pState, pLock, pBoot, pFaults>>

(* Nobody has the PID: kill throws.                                        *)
PKillFails(c) ==
    /\ PAt(c, "kill") /\ PUses(c) = {}
    /\ PGoes(c, "release")
    /\ UNCHANGED <<pProcs, pState, pSocket, pLock, pBoot, pFaults>>

(* The proxy is signalled and stalls.                                      *)
PKillStalls(c) ==
    /\ PAt(c, "kill") /\ PUses(c) = {pCalls[c].target} /\ PFault
    /\ PGoes(c, "exit")
    /\ UNCHANGED <<pProcs, pState, pSocket, pLock, pBoot>>

(* waitForExit.                                                            *)
PExited(c) ==
    /\ PAt(c, "exit") /\ PStatus(pCalls[c].target) # "matching"
    /\ PGoes(c, pCalls[c].after)
    /\ UNCHANGED <<pProcs, pState, pSocket, pLock, pBoot, pFaults>>

(* After the timeout SIGKILL follows, after its timeout an error.          *)
PExitTimesOut(c) ==
    /\ PAt(c, "exit") /\ PStatus(pCalls[c].target) = "matching"
    /\ IF pCalls[c].signal = "SIGTERM"
       THEN pCalls' = [pCalls EXCEPT ![c].pc = "stat", ![c].signal = "SIGKILL"]
       ELSE PGoes(c, "release")
    /\ UNCHANGED <<pProcs, pState, pSocket, pLock, pBoot, pFaults>>

PForget(c) ==
    /\ PAt(c, "forget")
    /\ pState' = PNone
    /\ PGoes(c, "spawn")
    /\ UNCHANGED <<pProcs, pSocket, pLock, pBoot, pFaults>>

PSpawn(c) ==
    /\ PAt(c, "spawn")
    /\ \E pid \in PPids \ PLivePids : PStartedAs(pid, "proxy", pCalls[c].config)
    /\ pCalls' = [pCalls EXCEPT ![c].pc = "await", ![c].target = PStarted + 1]
    /\ UNCHANGED <<pState, pSocket, pLock, pBoot, pFaults>>

PSpawnFails(c) ==
    /\ PAt(c, "spawn") /\ PFault
    /\ PGoes(c, "release")
    /\ UNCHANGED <<pProcs, pState, pSocket, pLock, pBoot>>

(* waitForReadiness.                                                       *)
PReady(c) ==
    /\ PAt(c, "await") /\ PSocketReady(pCalls[c].target)
    /\ PGoes(c, "write")
    /\ UNCHANGED <<pProcs, pState, pSocket, pLock, pBoot, pFaults>>

PNotReady(c) ==
    /\ PAt(c, "await")
    /\ \/ PStatus(pCalls[c].target) # "matching" /\ UNCHANGED pFaults
       \/ PStatus(pCalls[c].target) = "matching" /\ PFault
    /\ PTerminates(c, pCalls[c].target, "release")
    /\ UNCHANGED <<pProcs, pState, pSocket, pLock, pBoot>>

PWriteState(c) ==
    /\ PAt(c, "write")
    /\ pState' = [proc |-> pCalls[c].target, config |-> pCalls[c].config, boot |-> pBoot]
    /\ PGoes(c, "release")
    /\ UNCHANGED <<pProcs, pSocket, pLock, pBoot, pFaults>>

PWriteFails(c) ==
    /\ PAt(c, "write") /\ PFault
    /\ PTerminates(c, pCalls[c].target, "release")
    /\ UNCHANGED <<pProcs, pState, pSocket, pLock, pBoot>>

-----------------------------------------------------------------------------
(* The proxy, other processes and the container.                           *)

(* createControllerProxy.listen removes whatever socket is at the path.    *)
PListen(s) ==
    /\ pProcs[s].kind = "proxy" /\ pProcs[s].phase = "starting"
    /\ pProcs' = [pProcs EXCEPT ![s].phase = "listening"]
    /\ pSocket' = s
    /\ UNCHANGED <<pState, pLock, pCalls, pBoot, pFaults>>

PProxyDies(s) ==
    /\ pProcs[s].kind = "proxy" /\ PAlive(s) /\ PFault
    /\ pProcs' = [pProcs EXCEPT ![s].phase = "dead"]
    /\ UNCHANGED <<pState, pSocket, pLock, pCalls, pBoot>>

(* An unrelated process gets the PID of a former one.                      *)
PPidReused(s) ==
    /\ ~PAlive(s) /\ pProcs[s].pid \notin PLivePids
    /\ PStartedAs(pProcs[s].pid, "foreign", PNone)
    /\ UNCHANGED <<pState, pSocket, pLock, pCalls, pBoot, pFaults>>

PCallerDies(c) ==
    /\ pCalls[c].pc \notin {"idle", "done", "dead", "reused"} /\ PFault
    /\ PGoes(c, "dead")
    /\ UNCHANGED <<pProcs, pState, pSocket, pLock, pBoot>>

POwnerPidReused(c) ==
    /\ PAt(c, "dead") /\ pLock # PNone /\ pLock.by = c
    /\ PGoes(c, "reused")
    /\ UNCHANGED <<pProcs, pState, pSocket, pLock, pBoot, pFaults>>

(* The container restarts: every process is gone, the files stay.          *)
PReboot ==
    /\ pBoot < PMaxBoots
    /\ pBoot' = pBoot + 1
    /\ pProcs' = [s \in DOMAIN pProcs |-> IF PAlive(s) THEN [pProcs[s] EXCEPT !.phase = "dead"] ELSE pProcs[s]]
    /\ pCalls' = [c \in PCallers |-> IF pCalls[c].pc \in {"idle", "done", "reused"} THEN pCalls[c]
                                     ELSE [pCalls[c] EXCEPT !.pc = "dead"]]
    /\ UNCHANGED <<pState, pSocket, pLock, pFaults>>

-----------------------------------------------------------------------------
ProxyNext ==
    \/ \E c \in PCallers, config \in PConfigs : PEnsure(c, config)
    \/ \E c \in PCallers :
         \/ PTryLock(c) \/ PNameLock(c) \/ PNameLockFails(c) \/ PJudge(c) \/ PRecover(c) \/ PGiveUp(c) \/ PRelease(c)
         \/ PReadNothing(c) \/ PReadElsewhere(c) \/ PReadHere(c) \/ PProbeTimesOut(c) \/ PForget(c)
         \/ PStat(c) \/ PCmdline(c) \/ PKill(c) \/ PKillFails(c) \/ PKillStalls(c) \/ PExited(c) \/ PExitTimesOut(c)
         \/ PSpawn(c) \/ PSpawnFails(c) \/ PReady(c) \/ PNotReady(c) \/ PWriteState(c) \/ PWriteFails(c)
         \/ PCallerDies(c) \/ POwnerPidReused(c)
    \/ \E s \in DOMAIN pProcs : PListen(s) \/ PProxyDies(s) \/ PPidReused(s)
    \/ PReboot

ProxySpec == PInit /\ [][ProxyNext]_pVars

-----------------------------------------------------------------------------
ProxyTypeOK ==
    /\ DOMAIN pProcs = 1..PStarted
    /\ \A s \in DOMAIN pProcs : /\ pProcs[s].pid \in PPids /\ pProcs[s].kind \in {"proxy", "foreign"}
                                /\ pProcs[s].phase \in {"starting", "listening", "dead", "killed"}
    /\ pState # PNone => pState.proc \in DOMAIN pProcs /\ pState.config \in PConfigs /\ pState.boot \in 1..pBoot
    /\ pSocket \in {0} \cup DOMAIN pProcs
    /\ pLock # PNone => pLock.by \in PCallers
    /\ pBoot \in 1..PMaxBoots /\ pFaults \in 0..PMaxFaults

(* However PIDs are reused, containers restart, state goes stale and locks *)
(* are taken over, ensure signals the proxy it means and no other process, *)
(* neither a foreign one nor the proxy of another caller, unless the PID   *)
(* passed on after the caller last looked at who has it: a recorded PID    *)
(* alone is no reason to kill (reconcile, terminate, signalOwnedProcess).  *)
PForeignUntouched ==
    [][\A s \in DOMAIN pProcs :
         pProcs[s].phase # "killed" /\ pProcs'[s].phase = "killed"
           => \E c \in PCallers : PAt(c, "kill") /\ (pCalls[c].target = s \/ pCalls[c].seen < s)]_pVars
=============================================================================
