------------------------- MODULE HostServices_proofs -------------------------
(***************************************************************************)
(* Proofs about the services a host runs for its agents: the managed       *)
(* controller proxy, the gateway of the development services, the sessions *)
(* of commands in the controller, the lock of the host's lifecycle         *)
(* records, and the external URLs of a workspace.  Each part has an        *)
(* inductive invariant, the lemma that every step keeps it, and the        *)
(* theorem that states the property a run checks for every value of the    *)
(* constants.                                                              *)
(***************************************************************************)
EXTENDS ManagedProxy, DevelopmentGateway, CommandSessions, LifecycleLock, ExternalUrls,
        FiniteSetTheorems, SequenceTheorems, TLAPS

-----------------------------------------------------------------------------
(***************************************************************************)
(* Managed proxy.  A signal goes to a PID, so the property rests on two    *)
(* facts: live processes have different PIDs, and of the processes there   *)
(* were when a caller last looked, the one that still has the PID is the   *)
(* one it means.                                                           *)
(***************************************************************************)

PProc == [pid : PPids, kind : {"proxy", "foreign"},
          phase : {"starting", "listening", "dead", "killed"}, config : PConfigs \cup {PNone}]

PTargeting == {"stat", "cmdline", "kill", "exit", "await", "write"}

PStages == {"idle", "lock", "name", "read", "recover", "done", "release", "forget", "spawn", "dead", "reused"}
           \cup PTargeting

PCalled == [pc : PStages, config : PConfigs \cup {PNone}, target : Nat, signal : {"SIGTERM", "SIGKILL"},
            after : {"forget", "release"}, seen : Nat]

\* Processes are numbered by their starts, and callers are as the code has them.
PTyped ==
  /\ \E k \in Nat : pProcs \in [1 .. k -> PProc]
  /\ pCalls \in [PCallers -> PCalled]

PPidsDiffer ==
  \A s, t \in DOMAIN pProcs : PAlive(s) /\ PAlive(t) /\ pProcs[s].pid = pProcs[t].pid => s = t

\* What a caller knows of the process it means.
PKnows(call) ==
  /\ call.pc \in PTargeting => call.target \in DOMAIN pProcs
  /\ call.seen <= PStarted
  /\ call.pc \in {"cmdline", "kill"} =>
       \A s \in DOMAIN pProcs :
         PAlive(s) /\ s <= call.seen /\ pProcs[s].pid = pProcs[call.target].pid => s = call.target

PNames == pState # PNone => pState.proc \in DOMAIN pProcs

ProxyInv == PTyped /\ PPidsDiffer /\ (\A c \in PCallers : PKnows(pCalls[c])) /\ PNames

USE DEF pVars, PAt, PStages, PTargeting

\* How many processes were started is how many there are.
LEMMA StartedCount ==
  ASSUME NEW k \in Nat, pProcs \in [1 .. k -> PProc]
  PROVE  PStarted = k /\ DOMAIN pProcs = 1 .. k
<1>1. DOMAIN pProcs = 1 .. k
  OBVIOUS
<1>2. Cardinality(1 .. k) = k
  BY FS_Interval
<1> QED
  BY <1>1, <1>2 DEF PStarted

\* Processes start and end: none comes back, and a new one has a number and a PID of its own.
PMoveOn ==
  /\ \E k \in Nat : pProcs' \in [1 .. k -> PProc]
  /\ PPidsDiffer'
  /\ DOMAIN pProcs \subseteq DOMAIN pProcs' /\ PStarted <= PStarted'
  /\ \A s \in DOMAIN pProcs' :
       \/ s > PStarted
       \/ s \in DOMAIN pProcs /\ pProcs'[s].pid = pProcs[s].pid /\ (PAlive(s)' => PAlive(s))

\* What a caller knows stays true while processes start and end.
LEMMA KnownStays ==
  ASSUME ProxyInv, PMoveOn, NEW call \in PCalled, PKnows(call)
  PROVE  PKnows(call)'
<1>1. PICK k \in Nat : pProcs \in [1 .. k -> PProc]
  BY DEF ProxyInv, PTyped
<1>2. PStarted = k /\ DOMAIN pProcs = 1 .. k
  BY <1>1, StartedCount
<1>3. PICK n \in Nat : pProcs' \in [1 .. n -> PProc]
  BY DEF PMoveOn
<1>4. DOMAIN pProcs' = 1 .. n
  BY <1>3
<1>5. PStarted' = n
  <2>1. Cardinality(1 .. n) = n
    BY FS_Interval
  <2> QED
    BY <1>4, <2>1 DEF PStarted
<1>6. call.seen \in Nat /\ call.seen <= k /\ k <= n
  BY <1>2, <1>5 DEF PCalled, PKnows, PMoveOn
<1>7. call.pc \in PTargeting => call.target \in DOMAIN pProcs'
  BY DEF PKnows, PMoveOn
<1>8. ASSUME call.pc \in {"cmdline", "kill"}, NEW s \in DOMAIN pProcs', PAlive(s)', s <= call.seen,
             pProcs'[s].pid = pProcs'[call.target].pid
      PROVE  s = call.target
  <2>1. s \in Nat /\ s <= k
    BY <1>4, <1>6, <1>8
  <2>2. s \in DOMAIN pProcs /\ pProcs'[s].pid = pProcs[s].pid /\ PAlive(s)
    BY <1>2, <1>8, <2>1 DEF PMoveOn
  <2>3. call.target \in 1 .. k
    BY <1>2, <1>8 DEF PKnows
  <2>4. pProcs'[call.target].pid = pProcs[call.target].pid
    BY <1>2, <2>3 DEF PMoveOn
  <2> QED
    BY <1>8, <2>2, <2>4 DEF PKnows
<1> QED
  BY <1>5, <1>6, <1>7, <1>8 DEF PKnows

\* A caller moves on knowing what it should, and so does everybody else.
LEMMA CallBecomes ==
  ASSUME ProxyInv, PMoveOn, NEW c \in PCallers, NEW call \in PCalled,
         pCalls' = [pCalls EXCEPT ![c] = call], PKnows(call)',
         UNCHANGED pState \/ pState' = PNone \/ pState'.proc \in DOMAIN pProcs
  PROVE  ProxyInv'
<1>1. PTyped'
  BY DEF ProxyInv, PTyped, PMoveOn
<1>2. PNames'
  BY DEF ProxyInv, PNames, PMoveOn
<1>3. ASSUME NEW d \in PCallers PROVE PKnows(pCalls[d])'
  <2>1. CASE d = c
    <3>1. pCalls'[d] = call
      BY <2>1 DEF ProxyInv, PTyped
    <3> QED
      BY <3>1 DEF PKnows
  <2>2. CASE d # c
    <3>1. pCalls'[d] = pCalls[d] /\ pCalls[d] \in PCalled /\ PKnows(pCalls[d])
      BY <2>2 DEF ProxyInv, PTyped
    <3>2. PICK other \in PCalled : other = pCalls[d]
      BY <3>1
    <3>3. PKnows(other)'
      BY <3>1, <3>2, KnownStays
    <3> QED
      BY <3>1, <3>2, <3>3 DEF PKnows
  <2> QED
    BY <2>1, <2>2
<1> QED
  BY <1>1, <1>2, <1>3 DEF ProxyInv, PMoveOn

\* Nobody moves but the processes.
LEMMA OnlyProcesses ==
  ASSUME ProxyInv, PMoveOn, UNCHANGED <<pCalls, pState>>
  PROVE  ProxyInv'
<1>1. PTyped' /\ PNames'
  BY DEF ProxyInv, PTyped, PNames, PMoveOn
<1>2. ASSUME NEW d \in PCallers PROVE PKnows(pCalls[d])'
  <2>1. pCalls'[d] = pCalls[d] /\ pCalls[d] \in PCalled /\ PKnows(pCalls[d])
    BY DEF ProxyInv, PTyped
  <2>2. PICK other \in PCalled : other = pCalls[d]
    BY <2>1
  <2>3. PKnows(other)'
    BY <2>1, <2>2, KnownStays
  <2> QED
    BY <2>1, <2>2, <2>3 DEF PKnows
<1> QED
  BY <1>1, <1>2 DEF ProxyInv, PMoveOn

LEMMA ProcessesStay ==
  ASSUME ProxyInv, UNCHANGED pProcs
  PROVE  PMoveOn
<1>1. PICK k \in Nat : pProcs \in [1 .. k -> PProc]
  BY DEF ProxyInv, PTyped
<1>2. PStarted = k /\ PStarted' = PStarted
  BY <1>1, StartedCount DEF PStarted
<1> QED
  BY <1>1, <1>2 DEF ProxyInv, PMoveOn, PPidsDiffer, PAlive

\* A process gets a PID that no live process has.
LEMMA StartEffect ==
  ASSUME ProxyInv, NEW pid \in PPids, pid \notin PLivePids, NEW kind \in {"proxy", "foreign"},
         NEW config \in PConfigs \cup {PNone}, PStartedAs(pid, kind, config)
  PROVE  PMoveOn /\ PStarted \in Nat /\ PStarted + 1 \in DOMAIN pProcs'
<1>1. PICK k \in Nat : pProcs \in [1 .. k -> PProc]
  BY DEF ProxyInv, PTyped
<1>2. PStarted = k /\ DOMAIN pProcs = 1 .. k
  BY <1>1, StartedCount
<1> DEFINE new == [pid |-> pid, kind |-> kind, phase |-> "starting", config |-> config]
<1>3. new \in PProc
  BY DEF PProc
<1>4. pProcs' = [s \in 1 .. (k + 1) |-> IF s = k + 1 THEN new ELSE pProcs[s]]
  BY <1>2 DEF PStartedAs
<1>n. new.pid = pid
  OBVIOUS
<1> HIDE DEF new
<1>5. pProcs' \in [1 .. (k + 1) -> PProc] /\ DOMAIN pProcs' = 1 .. (k + 1)
  BY <1>1, <1>3, <1>4
<1>6. /\ \A s \in 1 .. k : s \in 1 .. (k + 1) /\ pProcs'[s] = pProcs[s]
      /\ k + 1 \in 1 .. (k + 1) /\ pProcs'[k + 1] = new
  BY <1>4
<1>7. PStarted' = k + 1
  <2>1. Cardinality(1 .. (k + 1)) = k + 1
    BY FS_Interval
  <2> QED
    BY <1>5, <2>1 DEF PStarted
<1>8. PPidsDiffer'
  <2> SUFFICES ASSUME NEW s \in 1 .. (k + 1), NEW t \in 1 .. (k + 1), PAlive(s)', PAlive(t)',
                      pProcs'[s].pid = pProcs'[t].pid
               PROVE  s = t
    BY <1>5 DEF PPidsDiffer
  <2>1. \A u \in 1 .. k : PAlive(u)' => PAlive(u) /\ pProcs'[u].pid # pid
    BY <1>2, <1>6 DEF PAlive, PLivePids
  <2>2. s \in 1 .. k \/ s = k + 1
    OBVIOUS
  <2>3. t \in 1 .. k \/ t = k + 1
    OBVIOUS
  <2> QED
    BY <1>2, <1>6, <1>n, <2>1, <2>2, <2>3 DEF ProxyInv, PPidsDiffer
<1>9. ASSUME NEW s \in DOMAIN pProcs'
      PROVE  \/ s > PStarted
             \/ s \in DOMAIN pProcs /\ pProcs'[s].pid = pProcs[s].pid /\ (PAlive(s)' => PAlive(s))
  <2>1. s \in 1 .. k \/ s = k + 1
    BY <1>5, <1>9
  <2> QED
    BY <1>2, <1>6, <2>1 DEF PAlive
<1> QED
  BY <1>2, <1>5, <1>7, <1>8, <1>9 DEF PMoveOn

\* Processes change their phases and none comes back to life.
LEMMA PhaseMoves ==
  ASSUME ProxyInv, DOMAIN pProcs' = DOMAIN pProcs, pProcs' = [s \in DOMAIN pProcs |-> pProcs'[s]],
         \A s \in DOMAIN pProcs :
           \/ pProcs'[s] = pProcs[s]
           \/ \E phase \in {"listening", "dead", "killed"} :
                PAlive(s) /\ pProcs'[s] = [pProcs[s] EXCEPT !.phase = phase]
  PROVE  PMoveOn
<1>1. PICK k \in Nat : pProcs \in [1 .. k -> PProc]
  BY DEF ProxyInv, PTyped
<1>2. PStarted = k /\ PStarted' = PStarted
  BY <1>1, StartedCount DEF PStarted
<1>3. ASSUME NEW s \in DOMAIN pProcs PROVE pProcs'[s] \in PProc /\ pProcs'[s].pid = pProcs[s].pid
  <2>1. pProcs[s] \in PProc
    BY <1>1
  <2>2. ASSUME NEW phase \in {"listening", "dead", "killed"}
        PROVE  [pProcs[s] EXCEPT !.phase = phase] \in PProc /\ [pProcs[s] EXCEPT !.phase = phase].pid = pProcs[s].pid
    BY <2>1 DEF PProc
  <2> QED
    BY <2>1, <2>2
<1>4. pProcs' \in [1 .. k -> PProc]
  BY <1>1, <1>3
<1>5. \A s \in DOMAIN pProcs : PAlive(s)' => PAlive(s)
  BY DEF PAlive
<1>6. PPidsDiffer'
  BY <1>3, <1>5 DEF ProxyInv, PPidsDiffer
<1> QED
  BY <1>1, <1>2, <1>3, <1>4, <1>5, <1>6 DEF PMoveOn

\* Every step of the callers and processes keeps the invariant.
LEMMA ProxyStep ==
  ASSUME ProxyInv, [ProxyNext]_pVars
  PROVE  ProxyInv'
<1>0. PICK k \in Nat : pProcs \in [1 .. k -> PProc]
  BY DEF ProxyInv, PTyped
<1>k. PStarted = k /\ DOMAIN pProcs = 1 .. k
  BY <1>0, StartedCount
<1>c. \A c \in PCallers : pCalls[c] \in PCalled /\ PKnows(pCalls[c])
  BY DEF ProxyInv, PTyped
\* The processes are those there were.
<1>1. ASSUME UNCHANGED pProcs, NEW c \in PCallers, NEW call \in PCalled, pCalls' = [pCalls EXCEPT ![c] = call],
             PKnows(call), UNCHANGED pState \/ pState' = PNone \/ pState'.proc \in DOMAIN pProcs
      PROVE  ProxyInv'
  <2>1. PMoveOn
    BY <1>1, ProcessesStay
  <2>2. PKnows(call)'
    BY <1>1, <2>1, KnownStays
  <2> QED
    BY <1>1, <2>1, <2>2, CallBecomes
\* A caller goes to a stage of which it knows enough.
<1>2. ASSUME UNCHANGED pProcs, NEW c \in PCallers, NEW pc \in PStages, PGoes(c, pc),
             pc \in PTargeting => pCalls[c].pc \in PTargeting,
             pc \in {"cmdline", "kill"} => pCalls[c].pc \in {"cmdline", "kill"},
             UNCHANGED pState \/ pState' = PNone \/ pState'.proc \in DOMAIN pProcs
      PROVE  ProxyInv'
  <2>1. PICK call \in PCalled : call = [pCalls[c] EXCEPT !.pc = pc]
    BY <1>c, <1>2 DEF PCalled
  <2>2. pCalls' = [pCalls EXCEPT ![c] = call]
    BY <1>2, <2>1 DEF PGoes
  <2>3. call.pc = pc /\ call.target = pCalls[c].target /\ call.seen = pCalls[c].seen
    BY <1>c, <2>1 DEF PCalled
  <2>4. PKnows(call)
    BY <1>c, <1>2, <2>3 DEF PKnows
  <2> QED
    BY <1>1, <1>2, <2>2, <2>4
\* A caller goes to terminate a process there is.
<1>3. ASSUME UNCHANGED <<pProcs, pState>>, NEW c \in PCallers, NEW target \in DOMAIN pProcs,
             NEW after \in {"forget", "release"}, PTerminates(c, target, after)
      PROVE  ProxyInv'
  <2>1. target \in Nat
    BY <1>k, <1>3
  <2>2. PICK call \in PCalled :
          call = [pCalls[c] EXCEPT !.pc = "stat", !.target = target, !.signal = "SIGTERM", !.after = after]
    BY <1>c, <1>3, <2>1 DEF PCalled
  <2>3. pCalls' = [pCalls EXCEPT ![c] = call]
    BY <1>c, <1>3, <2>2 DEF PTerminates, ProxyInv, PTyped
  <2>4. call.pc = "stat" /\ call.target = target /\ call.seen = pCalls[c].seen
    BY <1>c, <2>2 DEF PCalled
  <2>5. PKnows(call)
    BY <1>c, <1>3, <2>4 DEF PKnows
  <2> QED
    BY <1>1, <1>3, <2>3, <2>5
<1>4. CASE UNCHANGED pVars
  BY <1>4, ProcessesStay, OnlyProcesses
<1>5. ASSUME NEW c \in PCallers, NEW config \in PConfigs, PEnsure(c, config) PROVE ProxyInv'
  <2>1. PICK call \in PCalled : call = PCall("lock", config)
    BY DEF PCalled, PCall
  <2>2. PKnows(call)
    BY <1>k, <2>1 DEF PKnows, PCall
  <2> QED
    BY <1>1, <1>5, <2>1, <2>2 DEF PEnsure
<1>6. ASSUME NEW c \in PCallers,
             \/ PTryLock(c) \/ PNameLock(c) \/ PNameLockFails(c) \/ PJudge(c) \/ PRecover(c)
             \/ PGiveUp(c) \/ PRelease(c) \/ PReadNothing(c) \/ PReadElsewhere(c) \/ PForget(c)
             \/ PSpawnFails(c) \/ PCallerDies(c) \/ POwnerPidReused(c) \/ PKillFails(c)
      PROVE  ProxyInv'
  <2>1. UNCHANGED pProcs /\ (UNCHANGED pState \/ pState' = PNone)
    BY <1>6 DEF PTryLock, PNameLock, PNameLockFails, PJudge, PRecover, PGiveUp, PRelease, PReadNothing,
       PReadElsewhere, PForget, PSpawnFails, PCallerDies, POwnerPidReused, PKillFails
  <2>2. \E pc \in {"name", "read", "done", "recover", "lock", "forget", "spawn", "release", "dead", "reused"} :
           PGoes(c, pc)
    BY <1>6 DEF PTryLock, PNameLock, PNameLockFails, PJudge, PRecover, PGiveUp, PRelease, PReadNothing,
       PReadElsewhere, PForget, PSpawnFails, PCallerDies, POwnerPidReused, PKillFails
  <2> QED
    BY <1>2, <2>1, <2>2
<1>7. ASSUME NEW c \in PCallers, PReadHere(c) \/ PProbeTimesOut(c) PROVE ProxyInv'
  <2>1. UNCHANGED <<pProcs, pState>> /\ pState.proc \in DOMAIN pProcs
    BY <1>7 DEF PReadHere, PProbeTimesOut, PHere, ProxyInv, PNames
  <2>2. PTerminates(c, pState.proc, "forget") \/ \E pc \in {"release", "forget"} : PGoes(c, pc)
    BY <1>7 DEF PReadHere, PProbeTimesOut
  <2> QED
    BY <1>2, <1>3, <2>1, <2>2
<1>8. ASSUME NEW c \in PCallers, PStat(c) PROVE ProxyInv'
  <2>1. PICK pc \in {"cmdline", "forget", "release"} :
          /\ pCalls' = [pCalls EXCEPT ![c].seen = PStarted, ![c].pc = pc]
          /\ pc = "cmdline" => PStatus(pCalls[c].target) = "matching"
    BY <1>c, <1>8 DEF PStat, PCalled
  <2>2. PICK call \in PCalled : call = [pCalls[c] EXCEPT !.seen = k, !.pc = pc]
    BY <1>c DEF PCalled
  <2>3. pCalls' = [pCalls EXCEPT ![c] = call]
    BY <1>c, <1>k, <2>1, <2>2 DEF ProxyInv, PTyped
  <2>4. call.pc = pc /\ call.target = pCalls[c].target /\ call.seen = k
    BY <1>c, <2>2 DEF PCalled
  <2>5. pCalls[c].target \in DOMAIN pProcs
    BY <1>c, <1>8 DEF PStat, PKnows
  <2>6. pc = "cmdline" => PAlive(pCalls[c].target)
    BY <2>1 DEF PStatus
  <2>7. PKnows(call)
    BY <1>k, <2>4, <2>5, <2>6 DEF PKnows, ProxyInv, PPidsDiffer
  <2> QED
    BY <1>1, <1>8, <2>3, <2>7 DEF PStat
<1>9. ASSUME NEW c \in PCallers,
             \/ PCmdline(c) \/ PKillStalls(c) \/ PExited(c)
             \/ PReady(c) \/ PWriteState(c)
      PROVE  ProxyInv'
  <2>1. UNCHANGED pProcs /\ pCalls[c].pc \in PTargeting /\ pCalls[c].target \in DOMAIN pProcs
    BY <1>c, <1>9 DEF PCmdline, PKillStalls, PExited, PReady, PWriteState, PKnows
  <2>2. UNCHANGED pState \/ pState'.proc = pCalls[c].target
    BY <1>9 DEF PCmdline, PKillStalls, PExited, PReady, PWriteState
  <2>3. PICK pc \in {"forget", "release", "kill", "exit", "write"} :
          PGoes(c, pc) /\ (pc = "kill" => pCalls[c].pc = "cmdline")
    BY <1>c, <1>9 DEF PCmdline, PKillStalls, PExited, PReady, PWriteState, PCalled
  <2> QED
    BY <1>2, <2>1, <2>2, <2>3
<1>10. ASSUME NEW c \in PCallers, PNotReady(c) \/ PWriteFails(c) PROVE ProxyInv'
  <2>1. UNCHANGED <<pProcs, pState>> /\ pCalls[c].target \in DOMAIN pProcs
    BY <1>c, <1>10 DEF PNotReady, PWriteFails, PKnows
  <2> QED
    BY <1>3, <1>10, <2>1 DEF PNotReady, PWriteFails
<1>11. ASSUME NEW c \in PCallers, PKill(c) PROVE ProxyInv'
  <2>1. PMoveOn
    <3>1. \A s \in DOMAIN pProcs :
            pProcs'[s] = pProcs[s] \/ (PAlive(s) /\ pProcs'[s] = [pProcs[s] EXCEPT !.phase = "killed"])
      BY <1>11 DEF PKill, PUses
    <3>2. DOMAIN pProcs' = DOMAIN pProcs /\ pProcs' = [s \in DOMAIN pProcs |-> pProcs'[s]]
      BY <1>11 DEF PKill
    <3> QED
      BY <3>1, <3>2, PhaseMoves
  <2>2. PICK call \in PCalled : call = [pCalls[c] EXCEPT !.pc = "exit"]
    BY <1>c DEF PCalled
  <2>3. pCalls' = [pCalls EXCEPT ![c] = call] /\ UNCHANGED pState
    BY <1>11, <2>2 DEF PKill, PGoes
  <2>4. call.pc = "exit" /\ call.target = pCalls[c].target /\ call.seen = pCalls[c].seen
    BY <1>c, <2>2 DEF PCalled
  <2>5. PKnows(call)
    BY <1>c, <1>11, <2>4 DEF PKnows, PKill
  <2>6. PKnows(call)'
    BY <2>1, <2>5, KnownStays
  <2> QED
    BY <2>1, <2>3, <2>6, CallBecomes
<1>12. ASSUME NEW c \in PCallers, PExitTimesOut(c) PROVE ProxyInv'
  <2>1. CASE pCalls[c].signal = "SIGTERM"
    <3>1. PICK call \in PCalled : call = [pCalls[c] EXCEPT !.pc = "stat", !.signal = "SIGKILL"]
      BY <1>c DEF PCalled
    <3>2. pCalls' = [pCalls EXCEPT ![c] = call]
      BY <1>c, <1>12, <2>1, <3>1 DEF PExitTimesOut, ProxyInv, PTyped
    <3>3. call.pc = "stat" /\ call.target = pCalls[c].target /\ call.seen = pCalls[c].seen
      BY <1>c, <3>1 DEF PCalled
    <3>4. PKnows(call)
      BY <1>c, <1>12, <3>3 DEF PKnows, PExitTimesOut
    <3> QED
      BY <1>1, <1>12, <3>2, <3>4 DEF PExitTimesOut
  <2>2. CASE pCalls[c].signal # "SIGTERM"
    BY <1>2, <1>12, <2>2 DEF PExitTimesOut
  <2> QED
    BY <2>1, <2>2
<1>13. ASSUME NEW c \in PCallers, PSpawn(c) PROVE ProxyInv'
  <2>1. PICK pid \in PPids \ PLivePids : PStartedAs(pid, "proxy", pCalls[c].config)
    BY <1>13 DEF PSpawn
  <2>2. pCalls[c].config \in PConfigs \cup {PNone}
    BY <1>c DEF PCalled
  <2>3. PMoveOn /\ k + 1 \in DOMAIN pProcs'
    BY <1>k, <2>1, <2>2, StartEffect
  <2>4. PICK call \in PCalled : call = [pCalls[c] EXCEPT !.pc = "await", !.target = k + 1]
    <3>1. k + 1 \in Nat
      OBVIOUS
    <3> QED
      BY <1>c, <3>1 DEF PCalled
  <2>5. pCalls' = [pCalls EXCEPT ![c] = call] /\ UNCHANGED pState
    BY <1>c, <1>k, <1>13, <2>4 DEF PSpawn, ProxyInv, PTyped
  <2>6. call.pc = "await" /\ call.target = k + 1 /\ call.seen = pCalls[c].seen
    BY <1>c, <2>4 DEF PCalled
  <2>7. call.seen \in Nat /\ call.seen <= k /\ k <= PStarted' /\ PStarted' \in Nat
    <3>1. PICK n \in Nat : pProcs' \in [1 .. n -> PProc]
      BY <2>3 DEF PMoveOn
    <3>2. Cardinality(1 .. n) = n /\ DOMAIN pProcs' = 1 .. n
      BY <3>1, FS_Interval
    <3> QED
      BY <1>c, <1>k, <2>3, <2>6, <3>2 DEF PCalled, PKnows, PMoveOn, PStarted
  <2>8. PKnows(call)'
    BY <2>3, <2>6, <2>7 DEF PKnows
  <2> QED
    BY <2>3, <2>5, <2>8, CallBecomes
<1>14. ASSUME NEW s \in DOMAIN pProcs, PListen(s) \/ PProxyDies(s) PROVE ProxyInv'
  <2>1. PAlive(s) /\ UNCHANGED <<pState, pCalls>>
        /\ \E phase \in {"listening", "dead"} : pProcs' = [pProcs EXCEPT ![s].phase = phase]
    BY <1>14 DEF PListen, PProxyDies, PAlive
  <2>2. DOMAIN pProcs' = DOMAIN pProcs /\ pProcs' = [t \in DOMAIN pProcs |-> pProcs'[t]]
    BY <1>0, <2>1
  <2>3. \A t \in DOMAIN pProcs :
           \/ pProcs'[t] = pProcs[t]
           \/ \E phase \in {"listening", "dead", "killed"} :
                PAlive(t) /\ pProcs'[t] = [pProcs[t] EXCEPT !.phase = phase]
    BY <1>0, <2>1
  <2> QED
    BY <2>1, <2>2, <2>3, PhaseMoves, OnlyProcesses
<1>15. ASSUME NEW s \in DOMAIN pProcs, PPidReused(s) PROVE ProxyInv'
  <2>1. pProcs[s].pid \in PPids /\ pProcs[s].pid \notin PLivePids /\ UNCHANGED <<pState, pCalls>>
    BY <1>0, <1>15 DEF PPidReused, PProc
  <2>2. PStartedAs(pProcs[s].pid, "foreign", PNone)
    BY <1>15 DEF PPidReused
  <2> QED
    BY <2>1, <2>2, StartEffect, OnlyProcesses
<1>16. CASE PReboot
  <2>1. pProcs' = [s \in DOMAIN pProcs |-> IF PAlive(s) THEN [pProcs[s] EXCEPT !.phase = "dead"] ELSE pProcs[s]]
        /\ UNCHANGED pState
    BY <1>16 DEF PReboot
  <2>2. PMoveOn
    <3>1. DOMAIN pProcs' = DOMAIN pProcs /\ pProcs' = [s \in DOMAIN pProcs |-> pProcs'[s]]
      BY <2>1
    <3>2. \A s \in DOMAIN pProcs :
            pProcs'[s] = pProcs[s] \/ (PAlive(s) /\ pProcs'[s] = [pProcs[s] EXCEPT !.phase = "dead"])
      BY <2>1
    <3> QED
      BY <3>1, <3>2, PhaseMoves
  <2>3. ASSUME NEW c \in PCallers PROVE pCalls'[c] \in PCalled /\ PKnows(pCalls[c])'
    <3>1. PICK call \in PCalled : call = pCalls'[c]
      BY <1>c, <1>16 DEF PReboot, PCalled
    <3>2. call.seen = pCalls[c].seen /\ (call = pCalls[c] \/ call.pc = "dead")
      BY <1>c, <1>16, <3>1 DEF PReboot, PCalled
    <3>3. PKnows(call)
      BY <1>c, <3>2 DEF PKnows
    <3>4. PKnows(call)'
      BY <2>2, <3>3, KnownStays
    <3> QED
      BY <3>1, <3>4 DEF PKnows
  <2>4. PTyped' /\ PNames' /\ PPidsDiffer'
    BY <1>16, <2>1, <2>2, <2>3 DEF PTyped, PNames, PMoveOn, ProxyInv, PReboot
  <2> QED
    BY <2>3, <2>4 DEF ProxyInv
<1> QED
  BY <1>4, <1>5, <1>6, <1>7, <1>8, <1>9, <1>10, <1>11, <1>12, <1>13, <1>14, <1>15, <1>16 DEF ProxyNext

\* Whoever gets a signal is meant, or started after the caller last looked.
LEMMA SignalReachesTarget ==
  ASSUME ProxyInv, [ProxyNext]_pVars, NEW s \in DOMAIN pProcs,
         pProcs[s].phase # "killed", pProcs'[s].phase = "killed"
  PROVE  \E c \in PCallers : PAt(c, "kill") /\ (pCalls[c].target = s \/ pCalls[c].seen < s)
<1>1. PICK k \in Nat : pProcs \in [1 .. k -> PProc]
  BY DEF ProxyInv, PTyped
<1>2. PStarted = k /\ DOMAIN pProcs = 1 .. k
  BY <1>1, StartedCount
<1>3. pProcs' # pProcs
  OBVIOUS
<1>4. ASSUME NEW pid \in PPids, NEW kind, NEW config, PStartedAs(pid, kind, config) PROVE FALSE
  <2>1. s \in 1 .. (k + 1) /\ s # k + 1
    BY <1>2
  <2>2. pProcs'[s] = pProcs[s]
    BY <1>2, <1>4, <2>1 DEF PStartedAs
  <2> QED
    BY <2>2
<1>5. ~(\E c \in PCallers : PSpawn(c)) /\ ~(\E t \in DOMAIN pProcs : PPidReused(t))
  BY <1>1, <1>4 DEF PSpawn, PPidReused, PProc
<1>6. ~(\E t \in DOMAIN pProcs : PListen(t) \/ PProxyDies(t)) /\ ~PReboot
  <2>1. ASSUME NEW t \in DOMAIN pProcs, PListen(t) \/ PProxyDies(t) PROVE FALSE
    <3>1. \E phase \in {"listening", "dead"} : pProcs' = [pProcs EXCEPT ![t].phase = phase]
      BY <2>1 DEF PListen, PProxyDies
    <3>2. pProcs'[s].phase \in {"listening", "dead"} \/ pProcs'[s] = pProcs[s]
      BY <1>1, <3>1 DEF PProc
    <3> QED
      BY <3>2
  <2>2. ~PReboot
    <3>1. ASSUME PReboot PROVE pProcs'[s] = pProcs[s] \/ pProcs'[s].phase = "dead"
      BY <1>1, <3>1 DEF PReboot, PProc
    <3> QED
      BY <3>1
  <2> QED
    BY <2>1, <2>2
<1>7. PICK c \in PCallers : PKill(c)
  BY <1>3, <1>5, <1>6 DEF ProxyNext, PEnsure, PTryLock, PNameLock, PNameLockFails, PJudge, PRecover, PGiveUp,
     PRelease, PReadNothing, PReadElsewhere, PReadHere, PProbeTimesOut, PForget, PStat, PCmdline, PKillFails,
     PKillStalls, PExited, PExitTimesOut, PSpawnFails, PReady, PNotReady, PWriteState, PWriteFails,
     PCallerDies, POwnerPidReused
<1>8. PAt(c, "kill") /\ PAlive(s) /\ pProcs[s].pid = pProcs[pCalls[c].target].pid
  BY <1>7 DEF PKill, PUses
<1>9. s \in Nat /\ pCalls[c].seen \in Nat
  BY <1>2 DEF ProxyInv, PTyped, PCalled
<1>10. s <= pCalls[c].seen => s = pCalls[c].target
  BY <1>8 DEF ProxyInv, PKnows
<1> QED
  BY <1>8, <1>9, <1>10

(***************************************************************************)
(* PForeignUntouched holds of every behaviour: however PIDs are reused,    *)
(* containers restart and locks are taken over, ensure signals the proxy   *)
(* it means, or a process that got the PID after it last looked at who has *)
(* it (reconcile, terminate, signalOwnedProcess).                          *)
(***************************************************************************)
THEOREM ForeignIsUntouched == ProxySpec => PForeignUntouched
<1>1. PInit => ProxyInv
  <2> SUFFICES ASSUME PInit PROVE ProxyInv
    OBVIOUS
  <2>1. pProcs \in [1 .. 0 -> PProc] /\ DOMAIN pProcs = {}
    BY DEF PInit
  <2>2. pCalls \in [PCallers -> PCalled]
    BY DEF PInit, PCall, PCalled
  <2>3. PStarted = 0
    BY <2>1, StartedCount
  <2>4. \A c \in PCallers : PKnows(pCalls[c])
    BY <2>3 DEF PInit, PCall, PKnows
  <2> QED
    BY <2>1, <2>2, <2>4 DEF PInit, ProxyInv, PTyped, PPidsDiffer, PNames
<1>2. ProxyInv /\ [ProxyNext]_pVars => ProxyInv'
  BY ProxyStep
<1>3. ProxyInv /\ [ProxyNext]_pVars =>
        [\A s \in DOMAIN pProcs :
           pProcs[s].phase # "killed" /\ pProcs'[s].phase = "killed"
             => \E c \in PCallers : PAt(c, "kill") /\ (pCalls[c].target = s \/ pCalls[c].seen < s)]_pVars
  BY SignalReachesTarget
<1> QED
  BY <1>1, <1>2, <1>3, PTL DEF ProxySpec, PForeignUntouched
-----------------------------------------------------------------------------
(***************************************************************************)
(* Command sessions.  A chunk the user typed is in the queue, on its way,  *)
(* or written.  The count is exact as long as nothing failed and nobody    *)
(* cancelled, because a running session then still takes input.            *)
(***************************************************************************)

NTyped ==
  /\ nSession \in [phase : {"none", "running", "complete", "deleted"}, ended : BOOLEAN, written : Nat,
                   emitted : Nat, last : {"none", "output", "result", "error"}]
  /\ nPost \in {"none", "wire", "accepted", "refused"} /\ nStray \in BOOLEAN
  /\ nCancel \in {"none", "wire", "accepted", "refused", "settled"}
  /\ nClient \in [at : {"idle", "streaming", "draining", "failing", "throwing", "returning", "threw", "returned"},
                  accepting : BOOLEAN, failed : BOOLEAN, queue : Nat, typed : Nat]

\* A request is for the head of the queue; one that was given up failed the client.
NPostSound ==
  /\ nPost # "none" => nClient.queue > 0
  /\ nStray => nClient.failed

\* Input is taken from the start of the stream to its end.
NInputSound ==
  /\ nClient.accepting => nClient.at = "streaming"
  /\ nClient.at \in {"throwing", "returning", "threw", "returned"} => nClient.queue = 0
  /\ nClient.at \in {"returning", "returned"} /\ nCancel = "none" => ~nClient.failed

\* The stdin of a command nobody cancelled is open while the command runs.
NStdinOpen ==
  /\ nCancel \in {"none", "wire"} /\ nSession.phase \in {"none", "running"} => ~nSession.ended
  /\ nClient.at = "idle" => nSession.phase = "none"

NChunksCounted ==
  ~nClient.failed /\ nCancel = "none" =>
    nClient.typed + (IF nPost = "accepted" THEN 1 ELSE 0) = nSession.written + nClient.queue

SessionInv ==
  NTyped /\ NPostSound /\ NInputSound /\ NStdinOpen /\ NChunksCounted

USE DEF nVars, NRunning, NWaiting

NClients == [at : {"idle", "streaming", "draining", "failing", "throwing", "returning", "threw", "returned"},
             accepting : BOOLEAN, failed : BOOLEAN, queue : Nat, typed : Nat]

\* recordFailure
LEMMA FailedFields ==
  ASSUME NTyped
  PROVE  /\ NFailed \in NClients /\ NFailed.failed /\ ~NFailed.accepting
         /\ NFailed.queue = nClient.queue /\ NFailed.typed = nClient.typed
         /\ NFailed.at = IF nClient.at = "streaming" THEN "failing" ELSE nClient.at
BY DEF NTyped, NClients, NFailed

\* Every step of client, broker and command keeps the invariant.
LEMMA SessionStep ==
  ASSUME SessionInv, [SessionNext]_nVars
  PROVE  SessionInv'
<1>0. NTyped /\ NPostSound /\ NInputSound /\ NStdinOpen /\ NChunksCounted
  BY DEF SessionInv
<1>f. UNCHANGED nVars => SessionInv'
  BY <1>0 DEF SessionInv, NTyped, NPostSound, NInputSound, NStdinOpen, NChunksCounted
<1>a. /\ nSession.emitted + 1 \in Nat /\ nSession.written + 1 \in Nat /\ nSession.written + 0 \in Nat
      /\ nClient.queue + 1 \in Nat /\ nClient.typed + 1 \in Nat
      /\ nClient.queue > 0 => nClient.queue - 1 \in Nat
  BY <1>0 DEF NTyped
<1>1. CASE NStart
  <2>1. NTyped'
    BY <1>0, <1>1 DEF NStart, NTyped
  <2>2. NPostSound' /\ NInputSound' /\ NStdinOpen'
    <3>1. nClient'.queue = nClient.queue /\ nClient'.accepting /\ nClient'.at = "streaming"
          /\ nClient'.failed = nClient.failed /\ nSession'.phase = "running"
          /\ nSession'.ended = nSession.ended /\ nClient.at = "idle"
          /\ UNCHANGED <<nPost, nStray, nCancel>>
      BY <1>0, <1>1 DEF NStart, NTyped
    <3> QED
      BY <1>0, <1>a, <3>1 DEF NPostSound, NInputSound, NStdinOpen
  <2>3. NChunksCounted'
    BY <1>0, <1>1 DEF NStart, NTyped, NPostSound, NInputSound, NStdinOpen, NChunksCounted
  <2> QED
    BY <2>1, <2>2, <2>3 DEF SessionInv
<1>2. CASE NOutput
  <2>1. NTyped'
    BY <1>0, <1>a, <1>2 DEF NOutput, NEmitted, NTyped
  <2>2. NPostSound' /\ NInputSound' /\ NStdinOpen'
    BY <1>0, <1>2 DEF NOutput, NEmitted, NTyped, NPostSound, NInputSound, NStdinOpen
  <2>3. NChunksCounted'
    BY <1>0, <1>2 DEF NOutput, NEmitted, NTyped, NPostSound, NInputSound, NStdinOpen, NChunksCounted
  <2> QED
    BY <2>1, <2>2, <2>3 DEF SessionInv
<1>3. CASE NSettle
  <2>1. NTyped'
    <3>1. PICK kind \in {"result", "error"} :
            nSession' = [NEmitted(kind) EXCEPT !.phase = "complete", !.ended = TRUE]
      BY <1>3 DEF NSettle
    <3> QED
      BY <1>0, <1>a, <1>3, <3>1 DEF NSettle, NEmitted, NTyped
  <2>2. NPostSound' /\ NInputSound' /\ NStdinOpen'
    BY <1>0, <1>3 DEF NSettle, NEmitted, NTyped, NPostSound, NInputSound, NStdinOpen
  <2>3. NChunksCounted'
    BY <1>0, <1>3 DEF NSettle, NEmitted, NTyped, NPostSound, NInputSound, NStdinOpen, NChunksCounted
  <2> QED
    BY <2>1, <2>2, <2>3 DEF SessionInv
<1>4. CASE NDelete
  <2>1. NTyped'
    BY <1>0, <1>4 DEF NDelete, NTyped
  <2>2. NPostSound' /\ NInputSound' /\ NStdinOpen'
    BY <1>0, <1>4 DEF NDelete, NTyped, NPostSound, NInputSound, NStdinOpen
  <2>3. NChunksCounted'
    BY <1>0, <1>4 DEF NDelete, NTyped, NPostSound, NInputSound, NStdinOpen, NChunksCounted
  <2> QED
    BY <2>1, <2>2, <2>3 DEF SessionInv
<1>5. CASE NRead
  <2>1. NTyped'
    BY <1>0, <1>5 DEF NRead, NTyped
  <2>2. NPostSound' /\ NInputSound' /\ NStdinOpen'
    BY <1>0, <1>5 DEF NRead, NTyped, NPostSound, NInputSound, NStdinOpen
  <2>3. NChunksCounted'
    BY <1>0, <1>5 DEF NRead, NTyped, NPostSound, NInputSound, NStdinOpen, NChunksCounted
  <2> QED
    BY <2>1, <2>2, <2>3 DEF SessionInv
<1>6. CASE NReadFinal
  <2>1. NTyped'
    BY <1>0, <1>6, FailedFields DEF NReadFinal, NFails, NReading, NTyped, NClients
  <2>2. NPostSound' /\ NInputSound' /\ NStdinOpen'
    BY <1>0, <1>6, FailedFields DEF NReadFinal, NFails, NReading, NTyped, NPostSound, NInputSound, NStdinOpen
  <2>3. NChunksCounted'
    BY <1>0, <1>6, FailedFields DEF NReadFinal, NFails, NReading, NTyped, NPostSound, NInputSound, NStdinOpen, NChunksCounted
  <2> QED
    BY <2>1, <2>2, <2>3 DEF SessionInv
<1>7. CASE NType
  <2>1. NTyped'
    BY <1>0, <1>a, <1>7 DEF NType, NTyped
  <2>2. NPostSound' /\ NInputSound' /\ NStdinOpen'
    BY <1>0, <1>7 DEF NType, NTyped, NPostSound, NInputSound, NStdinOpen
  <2>3. NChunksCounted'
    BY <1>0, <1>7 DEF NType, NTyped, NPostSound, NInputSound, NStdinOpen, NChunksCounted
  <2> QED
    BY <2>1, <2>2, <2>3 DEF SessionInv
<1>8. CASE NInputThrows
  <2>1. NTyped'
    BY <1>0, <1>8 DEF NInputThrows, NTyped
  <2>2. NPostSound' /\ NInputSound' /\ NStdinOpen'
    BY <1>0, <1>8 DEF NInputThrows, NTyped, NPostSound, NInputSound, NStdinOpen
  <2>3. NChunksCounted'
    BY <1>0, <1>8 DEF NInputThrows, NTyped, NPostSound, NInputSound, NStdinOpen, NChunksCounted
  <2> QED
    BY <2>1, <2>2, <2>3 DEF SessionInv
<1>9. CASE NStrayInput
  <2>1. NTyped'
    BY <1>0, <1>a, <1>9 DEF NStrayInput, NWritten, NTyped
  <2>2. NPostSound' /\ NInputSound' /\ NStdinOpen'
    BY <1>0, <1>9 DEF NStrayInput, NWritten, NTyped, NPostSound, NInputSound, NStdinOpen
  <2>3. NChunksCounted'
    BY <1>0, <1>9 DEF NStrayInput, NWritten, NTyped, NPostSound, NInputSound, NStdinOpen, NChunksCounted
  <2> QED
    BY <2>1, <2>2, <2>3 DEF SessionInv
<1>10. CASE NInterrupt
  <2>1. NTyped'
    BY <1>0, <1>10 DEF NInterrupt, NTyped
  <2>2. NPostSound' /\ NInputSound' /\ NStdinOpen'
    BY <1>0, <1>10 DEF NInterrupt, NTyped, NPostSound, NInputSound, NStdinOpen
  <2>3. NChunksCounted'
    BY <1>0, <1>10 DEF NInterrupt, NTyped, NPostSound, NInputSound, NStdinOpen, NChunksCounted
  <2> QED
    BY <2>1, <2>2, <2>3 DEF SessionInv
<1>11. CASE NStop
  <2>1. NTyped'
    BY <1>0, <1>11 DEF NStop, NTyped
  <2>2. NPostSound' /\ NInputSound' /\ NStdinOpen'
    BY <1>0, <1>11 DEF NStop, NTyped, NPostSound, NInputSound, NStdinOpen
  <2>3. NChunksCounted'
    BY <1>0, <1>11 DEF NStop, NTyped, NPostSound, NInputSound, NStdinOpen, NChunksCounted
  <2> QED
    BY <2>1, <2>2, <2>3 DEF SessionInv
<1>12. CASE NDone
  <2>1. NTyped'
    BY <1>0, <1>12 DEF NDone, NTyped
  <2>2. NPostSound' /\ NInputSound' /\ NStdinOpen'
    BY <1>0, <1>12 DEF NDone, NTyped, NPostSound, NInputSound, NStdinOpen
  <2>3. NChunksCounted'
    BY <1>0, <1>12 DEF NDone, NTyped, NPostSound, NInputSound, NStdinOpen, NChunksCounted
  <2> QED
    BY <2>1, <2>2, <2>3 DEF SessionInv
<1>13. CASE NConnect
  <2>1. NTyped'
    BY <1>0, <1>13 DEF NConnect, NConnects, NTyped
  <2>2. NPostSound' /\ NInputSound' /\ NStdinOpen'
    BY <1>0, <1>13 DEF NConnect, NConnects, NTyped, NPostSound, NInputSound, NStdinOpen
  <2>3. NChunksCounted'
    BY <1>0, <1>13 DEF NConnect, NConnects, NTyped, NPostSound, NInputSound, NStdinOpen, NChunksCounted
  <2> QED
    BY <2>1, <2>2, <2>3 DEF SessionInv
<1>14. CASE NConnectFails
  <2>1. NTyped'
    BY <1>0, <1>14, FailedFields DEF NConnectFails, NFails, NTyped, NClients
  <2>2. NPostSound' /\ NInputSound' /\ NStdinOpen'
    BY <1>0, <1>14, FailedFields DEF NConnectFails, NFails, NTyped, NPostSound, NInputSound, NStdinOpen
  <2>3. NChunksCounted'
    BY <1>0, <1>14, FailedFields DEF NConnectFails, NFails, NTyped, NPostSound, NInputSound, NStdinOpen, NChunksCounted
  <2> QED
    BY <2>1, <2>2, <2>3 DEF SessionInv
<1>15. CASE NDisconnect
  <2>1. NTyped'
    BY <1>0, <1>15, FailedFields DEF NDisconnect, NFails, NReading, NTyped, NClients
  <2>2. NPostSound' /\ NInputSound' /\ NStdinOpen'
    BY <1>0, <1>15, FailedFields DEF NDisconnect, NFails, NReading, NTyped, NPostSound, NInputSound, NStdinOpen
  <2>3. NChunksCounted'
    BY <1>0, <1>15, FailedFields DEF NDisconnect, NFails, NReading, NTyped, NPostSound, NInputSound, NStdinOpen, NChunksCounted
  <2> QED
    BY <2>1, <2>2, <2>3 DEF SessionInv
<1>16. CASE NPostInput
  <2>1. NTyped'
    BY <1>0, <1>16 DEF NPostInput, NTyped
  <2>2. NPostSound' /\ NInputSound' /\ NStdinOpen'
    BY <1>0, <1>16 DEF NPostInput, NTyped, NPostSound, NInputSound, NStdinOpen
  <2>3. NChunksCounted'
    BY <1>0, <1>16 DEF NPostInput, NTyped, NPostSound, NInputSound, NStdinOpen, NChunksCounted
  <2> QED
    BY <2>1, <2>2, <2>3 DEF SessionInv
<1>17. CASE NInput
  <2>1. NTyped'
    BY <1>0, <1>17 DEF NInput, NWritten, NTyped
  <2>2. NPostSound' /\ NInputSound' /\ NStdinOpen'
    BY <1>0, <1>17 DEF NInput, NWritten, NTyped, NPostSound, NInputSound, NStdinOpen
  <2>3. NChunksCounted'
    BY <1>0, <1>17 DEF NInput, NWritten, NTyped, NPostSound, NInputSound, NStdinOpen, NChunksCounted
  <2> QED
    BY <2>1, <2>2, <2>3 DEF SessionInv
<1>18. CASE NInputAccepted
  <2>1. NTyped'
    BY <1>0, <1>a, <1>18 DEF NPostSound, NInputAccepted, NTyped
  <2>2. NPostSound' /\ NInputSound' /\ NStdinOpen'
    BY <1>0, <1>18 DEF NInputAccepted, NTyped, NPostSound, NInputSound, NStdinOpen
  <2>3. NChunksCounted'
    BY <1>0, <1>18 DEF NInputAccepted, NTyped, NPostSound, NInputSound, NStdinOpen, NChunksCounted
  <2> QED
    BY <2>1, <2>2, <2>3 DEF SessionInv
<1>19. CASE NInputRefused
  <2>1. NTyped'
    BY <1>0, <1>a, <1>19, FailedFields DEF NPostSound, NInputRefused, NAsked, NFails, NTyped, NClients
  <2>2. NPostSound' /\ NInputSound' /\ NStdinOpen'
    BY <1>0, <1>19, FailedFields DEF NInputRefused, NAsked, NFails, NTyped, NPostSound, NInputSound, NStdinOpen
  <2>3. NChunksCounted'
    BY <1>0, <1>19, FailedFields DEF NInputRefused, NAsked, NFails, NTyped, NPostSound, NInputSound, NStdinOpen, NChunksCounted
  <2> QED
    BY <2>1, <2>2, <2>3 DEF SessionInv
<1>20. CASE NCancelled
  <2>1. NTyped'
    BY <1>0, <1>20 DEF NCancelled, NTyped
  <2>2. NPostSound' /\ NInputSound' /\ NStdinOpen'
    BY <1>0, <1>20 DEF NCancelled, NTyped, NPostSound, NInputSound, NStdinOpen
  <2>3. NChunksCounted'
    BY <1>0, <1>20 DEF NCancelled, NTyped, NPostSound, NInputSound, NStdinOpen, NChunksCounted
  <2> QED
    BY <2>1, <2>2, <2>3 DEF SessionInv
<1>21. CASE NCancelAnswered
  <2>1. NTyped'
    BY <1>0, <1>21, FailedFields DEF NCancelAnswered, NFails, NTyped, NClients
  <2>2. NPostSound' /\ NInputSound' /\ NStdinOpen'
    BY <1>0, <1>21, FailedFields DEF NCancelAnswered, NFails, NTyped, NPostSound, NInputSound, NStdinOpen
  <2>3. NChunksCounted'
    BY <1>0, <1>21, FailedFields DEF NCancelAnswered, NFails, NTyped, NPostSound, NInputSound, NStdinOpen, NChunksCounted
  <2> QED
    BY <2>1, <2>2, <2>3 DEF SessionInv
<1>22. CASE NReturn
  <2>1. NTyped'
    BY <1>0, <1>22 DEF NReturn, NDrained, NTyped
  <2>2. NPostSound' /\ NInputSound' /\ NStdinOpen'
    BY <1>0, <1>22 DEF NReturn, NDrained, NTyped, NPostSound, NInputSound, NStdinOpen
  <2>3. NChunksCounted'
    BY <1>0, <1>22 DEF NReturn, NDrained, NTyped, NPostSound, NInputSound, NStdinOpen, NChunksCounted
  <2> QED
    BY <2>1, <2>2, <2>3 DEF SessionInv
<1>23. CASE NEnd
  <2>1. NTyped'
    BY <1>0, <1>23 DEF NEnd, NTyped
  <2>2. NPostSound' /\ NInputSound' /\ NStdinOpen'
    BY <1>0, <1>23 DEF NEnd, NTyped, NPostSound, NInputSound, NStdinOpen
  <2>3. NChunksCounted'
    BY <1>0, <1>23 DEF NEnd, NTyped, NPostSound, NInputSound, NStdinOpen, NChunksCounted
  <2> QED
    BY <2>1, <2>2, <2>3 DEF SessionInv
<1> QED
  BY <1>f, <1>1, <1>2, <1>3, <1>4, <1>5, <1>6, <1>7, <1>8, <1>9, <1>10, <1>11, <1>12, <1>13, <1>14, <1>15, <1>16, <1>17, <1>18, <1>19, <1>20, <1>21, <1>22, <1>23 DEF SessionNext, NRequests

(***************************************************************************)
(* NSuccessMeansDelivered holds of every behaviour: a client that returns  *)
(* the result of an uninterrupted command had all its input written        *)
(* (cli/controller-session.ts, core/commandSessions.ts).                   *)
(***************************************************************************)
THEOREM SuccessIsDelivered == SessionSpec => []NSuccessMeansDelivered
<1>1. SessionInit => SessionInv
  <2> SUFFICES ASSUME SessionInit PROVE SessionInv
    OBVIOUS
  <2>1. NTyped
    BY DEF SessionInit, NTyped
  <2> QED
    BY <2>1 DEF SessionInit, SessionInv, NPostSound, NInputSound, NStdinOpen, NChunksCounted
<1>2. SessionInv /\ [SessionNext]_nVars => SessionInv'
  BY SessionStep
<1>3. SessionInv => NSuccessMeansDelivered
  <2> SUFFICES ASSUME SessionInv, nClient.at = "returned", nCancel = "none"
               PROVE  nSession.written = nClient.typed
    BY DEF NSuccessMeansDelivered
  <2>1. nClient.queue = 0 /\ ~nClient.failed /\ nPost # "accepted"
    BY DEF SessionInv, NInputSound, NPostSound
  <2>2. nSession.written \in Nat /\ nClient.typed \in Nat
    BY DEF SessionInv, NTyped
  <2> QED
    BY <2>1, <2>2 DEF SessionInv, NChunksCounted
<1> QED
  BY <1>1, <1>2, <1>3, PTL DEF SessionSpec
-----------------------------------------------------------------------------
(***************************************************************************)
(* Development gateway.  services.json is written whole by whichever       *)
(* gateway saves, so what has to be exclusive is the table of every        *)
(* gateway, and the update that it is saving must fit into that table      *)
(* until it is served.                                                     *)
(***************************************************************************)

GKnownRoute == [url : Nat, authority : GAuthorities, port : GPorts \cup {GNone}] \cup {GNone}
GTable == [GServices -> GKnownRoute]
GRequest == [caller : GCallers, service : GServices \cup {GNone}, route : GKnownRoute]
GGate == [phase : {"spawned", "loaded", "bound", "ready", "closing", "closed", "gone"}, routes : GTable,
          queue : Seq(GRequest), saving : BOOLEAN]
GCall == [pc : {"idle", "ensure", "start", "waiting", "lock", "get", "list", "create", "put", "answer",
                "release", "exposed", "done", "failed"},
          service : GServices \cup {GNone}, port : GPorts \cup {GNone}, route : GKnownRoute, gate : Nat]

GTyped ==
  /\ gDisk \in GTable
  /\ gGates \in Seq(GGate)
  /\ gControl \in 0 .. Len(gGates)
  /\ gUrls \in Seq([authority : GAuthorities, live : BOOLEAN])
  /\ gCalls \in [GCallers -> GCall]
  /\ \A c \in GCallers : /\ gCalls[c].pc = "list" => gCalls[c].route # GNone
                         /\ gCalls[c].pc # "idle" => gCalls[c].service \in GServices

\* No URL and no authority is in a table twice.
GExclusive(routes) ==
  \A s, t \in GServices : s # t /\ routes[s] # GNone /\ routes[t] # GNone
     => routes[s].url # routes[t].url /\ routes[s].authority # routes[t].authority

GGateSound(gate) ==
  /\ GExclusive(gate.routes)
  /\ gate.saving => /\ gate.phase \in {"ready", "closing", "closed"} /\ gate.queue # <<>>
                    /\ GAvailable(gate.routes, Head(gate.queue).service, Head(gate.queue).route)

GatewayInv ==
  /\ GTyped
  /\ GRoutesExclusive
  /\ \A g \in 1 .. Len(gGates) : GGateSound(gGates[g])

USE DEF gVars, gFileVars, gNetVars, GAt

\* An available route keeps a table exclusive.
LEMMA TableSet ==
  ASSUME NEW table \in GTable, GExclusive(table), NEW s, NEW r \in GKnownRoute, GAvailable(table, s, r)
  PROVE  [table EXCEPT ![s] = r] \in GTable /\ GExclusive([table EXCEPT ![s] = r])
<1> DEFINE new == [table EXCEPT ![s] = r]
<1>1. new \in GTable
  BY DEF GTable
<1>2. \A t \in GServices : new[t] = IF t = s THEN r ELSE table[t]
  BY DEF GTable
<1> HIDE DEF new
<1>3. GExclusive(new)
  BY <1>2 DEF GExclusive, GAvailable
<1> QED
  BY <1>1, <1>3 DEF new

\* One gateway changes.
LEMMA GateSet ==
  ASSUME GatewayInv, NEW g \in 1 .. Len(gGates), NEW v \in GGate, GGateSound(v),
         gGates' = [gGates EXCEPT ![g] = v]
  PROVE  /\ gGates' \in Seq(GGate) /\ Len(gGates') = Len(gGates)
         /\ \A h \in 1 .. Len(gGates') : GGateSound(gGates'[h])
<1>1. gGates \in Seq(GGate)
  BY DEF GatewayInv, GTyped
<1>2. /\ gGates' \in Seq(GGate) /\ Len(gGates') = Len(gGates)
      /\ \A h \in 1 .. Len(gGates) : gGates'[h] = IF h = g THEN v ELSE gGates[h]
  BY <1>1, ExceptSeq
<1>3. ASSUME NEW h \in 1 .. Len(gGates) PROVE GGateSound(gGates'[h])
  BY <1>2 DEF GatewayInv
<1> QED
  BY <1>2, <1>3

\* What one gateway is, its queue and its routes.
LEMMA GateIs ==
  ASSUME GTyped, NEW g \in 1 .. Len(gGates)
  PROVE  /\ gGates[g] \in GGate /\ gGates[g].routes \in GTable /\ gGates[g].queue \in Seq(GRequest)
         /\ gGates[g].saving \in BOOLEAN
         /\ gGates[g].queue # <<>> => /\ Head(gGates[g].queue) \in GRequest
                                      /\ Tail(gGates[g].queue) \in Seq(GRequest)
<1>1. gGates[g] \in GGate
  BY ElementOfSeq DEF GTyped
<1>2. gGates[g].routes \in GTable /\ gGates[g].queue \in Seq(GRequest) /\ gGates[g].saving \in BOOLEAN
  BY <1>1 DEF GGate
<1> QED
  BY <1>1, <1>2, HeadTailProperties

\* The callers are as they are typed.
GCallsTyped ==
  /\ gCalls' \in [GCallers -> GCall]
  /\ \A c \in GCallers : /\ gCalls'[c].pc = "list" => gCalls'[c].route # GNone
                         /\ gCalls'[c].pc # "idle" => gCalls'[c].service \in GServices

\* A caller moves on in its own stage.
LEMMA CallerGoes ==
  ASSUME GTyped, NEW c, gCalls[c].pc # "idle",
         NEW pc \in {"ensure", "start", "waiting", "lock", "get", "create", "put", "answer",
                     "release", "exposed", "done", "failed"},
         gCalls' = [gCalls EXCEPT ![c].pc = pc]
  PROVE  GCallsTyped
<1>1. CASE c \in GCallers
  <2>1. gCalls' = [gCalls EXCEPT ![c] = [gCalls[c] EXCEPT !.pc = pc]] /\ gCalls[c] \in GCall
    BY <1>1 DEF GTyped
  <2>2. [gCalls[c] EXCEPT !.pc = pc] \in GCall /\ [gCalls[c] EXCEPT !.pc = pc].pc = pc
        /\ [gCalls[c] EXCEPT !.pc = pc].service = gCalls[c].service
    BY <2>1 DEF GCall
  <2> QED
    BY <1>1, <2>1, <2>2 DEF GTyped, GCallsTyped
<1>2. CASE c \notin GCallers
  BY <1>2 DEF GTyped, GCallsTyped
<1> QED
  BY <1>1, <1>2

\* A caller takes a route.
LEMMA CallerRouted ==
  ASSUME GTyped, NEW c \in GCallers, NEW v \in GCall, v.pc = "list" => v.route # GNone,
         v.service \in GServices,
         gCalls' = [gCalls EXCEPT ![c] = v]
  PROVE  GCallsTyped
BY DEF GTyped, GCallsTyped

\* What a step of a gateway that saves nothing leaves.
LEMMA GatesMove ==
  ASSUME GatewayInv, UNCHANGED <<gDisk, gUrls>>, GCallsTyped, gControl' \in 0 .. Len(gGates'),
         gGates' \in Seq(GGate), \A h \in 1 .. Len(gGates') : GGateSound(gGates'[h])
  PROVE  GatewayInv'
BY DEF GatewayInv, GTyped, GCallsTyped, GRoutesExclusive

\* The steps a gateway takes by itself keep the invariant.
LEMMA GatewaySide ==
  ASSUME GatewayInv, NEW g \in 1 .. Len(gGates),
         \/ GLoad(g) \/ GBind(g) \/ GListen(g) \/ GStop(g) \/ GClosed(g) \/ GKilled(g)
  PROVE  GatewayInv'
<1>0. GTyped /\ GRoutesExclusive /\ GGateSound(gGates[g]) /\ gGates \in Seq(GGate) /\ Len(gGates) \in Nat
  BY LenProperties DEF GatewayInv, GTyped
<1>1. gGates[g] \in GGate /\ gGates[g].routes \in GTable /\ gGates[g].queue \in Seq(GRequest)
  BY <1>0, GateIs
<1>c. UNCHANGED gCalls => GCallsTyped
  BY <1>0 DEF GTyped, GCallsTyped
<1>2. CASE GLoad(g)
  <2>1. PICK phase \in {"loaded", "gone"} :
          gGates' = [gGates EXCEPT ![g].phase = phase, ![g].routes = gDisk]
    BY <1>2 DEF GLoad
  <2> DEFINE v == [gGates[g] EXCEPT !.phase = phase, !.routes = gDisk]
  <2>2. gGates' = [gGates EXCEPT ![g] = v]
    BY <1>0, <2>1
  <2>3. v \in GGate /\ v.routes = gDisk /\ v.saving = gGates[g].saving
    BY <1>0, <1>1 DEF GGate, GTyped
  <2>4. ~gGates[g].saving
    BY <1>0, <1>2 DEF GLoad, GGateSound
  <2> HIDE DEF v
  <2>5. GGateSound(v)
    BY <1>0, <2>3, <2>4 DEF GGateSound, GExclusive, GRoutesExclusive
  <2> QED
    BY <1>0, <1>c, <1>2, <2>2, <2>3, <2>5, GateSet, GatesMove DEF GLoad, GTyped
<1>3. ASSUME NEW phase \in {"gone", "bound", "ready", "closing", "closed"},
             gGates' = [gGates EXCEPT ![g].phase = phase],
             gGates[g].phase = "ready" => phase = "closing",
             gGates[g].phase \in {"closing", "closed"} => phase = "closed"
      PROVE  gGates' \in Seq(GGate) /\ Len(gGates') = Len(gGates)
             /\ \A h \in 1 .. Len(gGates') : GGateSound(gGates'[h])
  <2> DEFINE v == [gGates[g] EXCEPT !.phase = phase]
  <2>1. gGates' = [gGates EXCEPT ![g] = v]
    BY <1>0, <1>3
  <2>2. /\ v \in GGate /\ v.routes = gGates[g].routes /\ v.saving = gGates[g].saving
        /\ v.queue = gGates[g].queue /\ v.phase = phase
    BY <1>1, <1>3 DEF GGate
  <2> HIDE DEF v
  <2>3. GGateSound(v)
    BY <1>0, <1>3, <2>2 DEF GGateSound
  <2> QED
    BY <2>1, <2>2, <2>3, GateSet
<1>4. CASE GBind(g) \/ GListen(g) \/ GStop(g) \/ GClosed(g)
  <2>1. \E phase \in {"gone", "bound", "ready", "closing", "closed"} :
             /\ gGates' = [gGates EXCEPT ![g].phase = phase]
             /\ gGates[g].phase = "ready" => phase = "closing"
             /\ gGates[g].phase \in {"closing", "closed"} => phase = "closed"
    BY <1>4 DEF GBind, GListen, GStop, GClosed
  <2>2. gGates' \in Seq(GGate) /\ Len(gGates') = Len(gGates)
             /\ \A h \in 1 .. Len(gGates') : GGateSound(gGates'[h])
    BY <1>3, <2>1
  <2>3. UNCHANGED <<gDisk, gUrls, gCalls>> /\ gControl' \in {gControl, 0, g}
    BY <1>4 DEF GBind, GListen, GStop, GClosed
  <2>4. gControl' \in 0 .. Len(gGates')
    BY <1>0, <2>2, <2>3 DEF GTyped
  <2> QED
    BY <1>c, <2>2, <2>3, <2>4, GatesMove
<1>5. CASE GKilled(g)
  <2> DEFINE v == [gGates[g] EXCEPT !.phase = "gone", !.queue = <<>>, !.saving = FALSE]
  <2>1. gGates' = [gGates EXCEPT ![g] = v]
    BY <1>0, <1>5 DEF GKilled
  <2>2. <<>> \in Seq(GRequest)
    BY EmptySeq
  <2>3. v \in GGate /\ v.routes = gGates[g].routes /\ ~v.saving
    BY <1>1, <2>2 DEF GGate
  <2> HIDE DEF v
  <2>4. GGateSound(v)
    BY <1>0, <2>3 DEF GGateSound
  <2>5. GCallsTyped
    <3>1. gCalls' = [c \in GCallers |-> IF GAt(c, "answer") /\ gCalls[c].gate = g
                                     THEN [gCalls[c] EXCEPT !.pc = "release"] ELSE gCalls[c]]
      BY <1>5 DEF GKilled
    <3>2. ASSUME NEW c \in GCallers
          PROVE  gCalls'[c] \in GCall /\ (gCalls'[c].pc = "list" => gCalls'[c].route # GNone)
                 /\ (gCalls'[c].pc # "idle" => gCalls'[c].service \in GServices)
      <4>1. gCalls[c] \in GCall
        BY <1>0 DEF GTyped
      <4>2. [gCalls[c] EXCEPT !.pc = "release"] \in GCall /\ [gCalls[c] EXCEPT !.pc = "release"].pc = "release"
            /\ [gCalls[c] EXCEPT !.pc = "release"].service = gCalls[c].service
        BY <4>1 DEF GCall
      <4> QED
        BY <1>0, <3>1, <4>1, <4>2 DEF GTyped
    <3> QED
      BY <3>1, <3>2 DEF GCallsTyped
  <2> QED
    BY <1>0, <1>5, <2>1, <2>3, <2>4, <2>5, GateSet, GatesMove DEF GKilled, GTyped
<1> QED
  BY <1>2, <1>4, <1>5

\* setRoute: the update fits into the table that is saved, and then served.
LEMMA GatewayUpdates ==
  ASSUME GatewayInv, NEW g \in 1 .. Len(gGates), GApply(g) \/ GServe(g) \/ GSaveFails(g)
  PROVE  GatewayInv'
<1>0. GTyped /\ GRoutesExclusive /\ GGateSound(gGates[g]) /\ gGates \in Seq(GGate)
  BY DEF GatewayInv, GTyped
<1>q. gGates[g].queue # <<>>
  BY <1>0 DEF GApply, GServe, GSaveFails, GUpdates
<1>1. gGates[g] \in GGate /\ gGates[g].routes \in GTable /\ gGates[g].queue \in Seq(GRequest)
      /\ Tail(gGates[g].queue) \in Seq(GRequest) /\ GHead(g).route \in GKnownRoute
  BY <1>0, <1>q, GateIs DEF GHead, GRequest
<1>c. UNCHANGED gCalls => GCallsTyped
  BY <1>0 DEF GTyped, GCallsTyped
<1>d. ASSUME NEW pc \in {"release", "exposed"},
             gCalls' = [gCalls EXCEPT ![GHead(g).caller].pc = IF @ = "answer" THEN pc ELSE @]
      PROVE  GCallsTyped
  <2> DEFINE c == GHead(g).caller
  <2>1. CASE gCalls[c].pc = "answer"
    <3>1. gCalls' = [gCalls EXCEPT ![c].pc = pc]
      BY <1>d, <2>1
    <3> QED
      BY <1>0, <2>1, <3>1, CallerGoes
  <2>2. CASE gCalls[c].pc # "answer"
    <3>0. c \in GCallers
      BY <1>0, <1>q, GateIs DEF GHead, GRequest
    <3>1. gCalls' = gCalls
      BY <1>0, <1>d, <2>2, <3>0 DEF GTyped, GCall
    <3> QED
      BY <1>c, <3>1
  <2> QED
    BY <2>1, <2>2
<1>2. CASE GApply(g) /\ GAvailable(gGates[g].routes, GHead(g).service, GHead(g).route)
  <2> DEFINE v == [gGates[g] EXCEPT !.saving = TRUE]
  <2>1. gGates' = [gGates EXCEPT ![g] = v] /\ UNCHANGED <<gCalls, gUrls, gControl>> /\ gDisk' = GSaved(g)
        /\ gGates[g].phase \in {"ready", "closing", "closed"}
    BY <1>0, <1>2 DEF GApply, GUpdates
  <2>2. v \in GGate /\ v.routes = gGates[g].routes /\ v.queue = gGates[g].queue /\ v.phase = gGates[g].phase
    BY <1>1 DEF GGate
  <2> HIDE DEF v
  <2>3. GGateSound(v)
    BY <1>0, <1>2, <1>q, <2>1, <2>2 DEF GGateSound, GHead
  <2>4. gDisk' \in GTable /\ GExclusive(gDisk')
    BY <1>0, <1>1, <1>2, <2>1, TableSet DEF GSaved, GGateSound
  <2>5. gGates' \in Seq(GGate) /\ Len(gGates') = Len(gGates)
             /\ \A h \in 1 .. Len(gGates') : GGateSound(gGates'[h])
    BY <2>1, <2>2, <2>3, GateSet
  <2>6. GTyped'
    BY <1>0, <2>1, <2>4, <2>5 DEF GTyped
  <2> QED
    BY <2>4, <2>5, <2>6 DEF GatewayInv, GExclusive, GRoutesExclusive
<1>3. CASE GApply(g) /\ ~GAvailable(gGates[g].routes, GHead(g).service, GHead(g).route)
  <2> DEFINE v == [gGates[g] EXCEPT !.queue = Tail(gGates[g].queue)]
  <2>1. gGates' = [gGates EXCEPT ![g] = v] /\ UNCHANGED <<gDisk, gUrls, gControl>> /\ ~gGates[g].saving
    BY <1>0, <1>3 DEF GApply
  <2>2. v \in GGate /\ v.routes = gGates[g].routes /\ v.saving = gGates[g].saving
    BY <1>1 DEF GGate
  <2> HIDE DEF v
  <2>3. GGateSound(v)
    BY <1>0, <2>1, <2>2 DEF GGateSound
  <2>4. GCallsTyped
    BY <1>d, <1>3 DEF GApply
  <2> QED
    BY <1>0, <2>1, <2>2, <2>3, <2>4, GateSet, GatesMove DEF GTyped
<1>4. CASE GServe(g)
  <2> DEFINE new == [gGates[g].routes EXCEPT ![GHead(g).service] = GHead(g).route]
             v == [gGates[g] EXCEPT !.routes = new, !.saving = FALSE, !.queue = Tail(gGates[g].queue)]
  <2>1. gGates' = [gGates EXCEPT ![g] = v] /\ UNCHANGED <<gDisk, gUrls, gControl>> /\ gGates[g].saving
    <3>1. gGates' = [gGates EXCEPT ![g].routes[GHead(g).service] = GHead(g).route,
                                ![g].saving = FALSE, ![g].queue = Tail(@)]
          /\ UNCHANGED <<gDisk, gUrls, gControl>> /\ gGates[g].saving
      BY <1>4 DEF GServe
    <3> QED
      BY <1>0, <3>1
  <2>2. new \in GTable /\ GExclusive(new)
    BY <1>0, <1>1, <2>1, TableSet DEF GGateSound, GHead
  <2> HIDE DEF new
  <2>3. v \in GGate /\ v.routes = new /\ ~v.saving
    BY <1>1, <2>2 DEF GGate
  <2> HIDE DEF v
  <2>4. GGateSound(v)
    BY <2>2, <2>3 DEF GGateSound
  <2>5. GCallsTyped
    BY <1>d, <1>4 DEF GServe
  <2> QED
    BY <1>0, <2>1, <2>3, <2>4, <2>5, GateSet, GatesMove DEF GTyped
<1>5. CASE GSaveFails(g)
  <2> DEFINE v == [gGates[g] EXCEPT !.saving = FALSE, !.queue = Tail(gGates[g].queue)]
  <2>1. gGates' = [gGates EXCEPT ![g] = v] /\ UNCHANGED <<gDisk, gUrls, gControl>>
    BY <1>0, <1>5 DEF GSaveFails
  <2>2. v \in GGate /\ v.routes = gGates[g].routes /\ ~v.saving
    BY <1>1 DEF GGate
  <2> HIDE DEF v
  <2>3. GGateSound(v)
    BY <1>0, <2>2 DEF GGateSound
  <2>4. GCallsTyped
    BY <1>d, <1>5 DEF GSaveFails
  <2> QED
    BY <1>0, <2>1, <2>2, <2>3, <2>4, GateSet, GatesMove DEF GTyped
<1> QED
  BY <1>2, <1>3, <1>4, <1>5

\* exposeDevelopmentService: callers start gateways and send them updates.
LEMMA GatewayCallers ==
  ASSUME GatewayInv, NEW c \in GCallers,
         \/ GFound(c) \/ GTakeStart(c) \/ GSpawn(c) \/ GStartTimesOut(c) \/ GLock(c) \/ GUnlock(c) \/ GGet(c)
         \/ GAdopt(c) \/ GCreate(c) \/ GCreateFails(c) \/ GPut(c) \/ GPutTimesOut(c) \/ GCallerDies(c)
         \/ \E s \in GServices, port \in GPorts : GExpose(c, s, port)
  PROVE  GatewayInv'
<1>0. GTyped /\ GRoutesExclusive /\ gGates \in Seq(GGate) /\ Len(gGates) \in Nat /\ gCalls[c] \in GCall
  BY LenProperties DEF GatewayInv, GTyped
<1>1. gCalls[c].route \in GKnownRoute /\ gCalls[c].port \in GPorts \cup {GNone}
      /\ gCalls[c].service \in GServices \cup {GNone} /\ gCalls[c].gate \in Nat
  BY <1>0 DEF GCall
<1>g. ASSUME UNCHANGED <<gDisk, gUrls, gGates, gControl>>, GCallsTyped PROVE GatewayInv'
  <2>1. \A h \in 1 .. Len(gGates) : GGateSound(gGates[h])
    BY DEF GatewayInv
  <2> QED
    BY <1>0, <1>g, <2>1, GatesMove DEF GTyped
<1>2. CASE \/ GFound(c) \/ GTakeStart(c) \/ GStartTimesOut(c) \/ GLock(c) \/ GUnlock(c)
           \/ GCreateFails(c) \/ GPutTimesOut(c) \/ GCallerDies(c)
  <2>1. UNCHANGED <<gDisk, gUrls, gGates, gControl>>
    BY <1>2 DEF GFound, GTakeStart, GStartTimesOut, GLock, GUnlock, GCreateFails, GPutTimesOut, GCallerDies
  <2>2. \E pc \in {"lock", "waiting", "start", "failed", "get", "done", "release"} :
          gCalls[c].pc # "idle" /\ gCalls' = [gCalls EXCEPT ![c].pc = pc]
    BY <1>2 DEF GFound, GTakeStart, GStartTimesOut, GLock, GUnlock, GCreateFails, GPutTimesOut, GCallerDies,
       GGoes, GLive, GEnded
  <2>3. GCallsTyped
    BY <1>0, <2>2, CallerGoes
  <2> QED
    BY <1>g, <2>1, <2>3
<1>3. CASE \E s \in GServices, port \in GPorts : GExpose(c, s, port)
  <2>1. PICK s \in GServices, port \in GPorts : GExpose(c, s, port)
    BY <1>3
  <2> DEFINE v == [pc |-> "ensure", service |-> s, port |-> port, route |-> GNone, gate |-> 0]
  <2>2. gCalls' = [gCalls EXCEPT ![c] = v] /\ UNCHANGED <<gDisk, gUrls, gGates, gControl>>
    BY <2>1 DEF GExpose
  <2>3. v \in GCall /\ v.pc = "ensure" /\ v.service \in GServices
    BY DEF GCall, GKnownRoute
  <2> HIDE DEF v
  <2> QED
    BY <1>0, <1>g, <2>2, <2>3, CallerRouted
<1>r. ASSUME NEW route \in GKnownRoute, gCalls[c].pc # "idle",
             NEW pc \in {"release", "create", "list", "put"}, pc = "list" => route # GNone,
             gCalls' = [gCalls EXCEPT ![c].pc = pc, ![c].route = route]
      PROVE  GCallsTyped
  <2> DEFINE v == [gCalls[c] EXCEPT !.pc = pc, !.route = route]
  <2>1. gCalls' = [gCalls EXCEPT ![c] = v]
    BY <1>0, <1>r DEF GTyped
  <2>2. v \in GCall /\ v.pc = pc /\ v.route = route /\ v.service = gCalls[c].service
    BY <1>0, <1>r DEF GCall
  <2> HIDE DEF v
  <2>3. v.service \in GServices
    BY <1>0, <1>r, <2>2 DEF GTyped
  <2> QED
    BY <1>0, <1>r, <2>1, <2>2, <2>3, CallerRouted
<1>4. CASE GGet(c)
  <2>0. gCalls[c].pc # "idle" /\ gCalls[c].service \in GServices
        /\ UNCHANGED <<gDisk, gUrls, gGates, gControl>>
    BY <1>0, <1>4 DEF GGet, GTyped
  <2>1. CASE ~GReady
    <3>1. gCalls' = [gCalls EXCEPT ![c].pc = "release", ![c].route = GNone]
      BY <1>4, <2>1 DEF GGet
    <3>2. GNone \in GKnownRoute
      BY DEF GKnownRoute
    <3> QED
      BY <1>g, <1>r, <2>0, <3>1, <3>2
  <2>2. CASE GReady
    <3> DEFINE route == gGates[gControl].routes[gCalls[c].service]
    <3>1. gControl \in 1 .. Len(gGates)
      BY <1>0, <2>2 DEF GReady, GTyped
    <3>2. gCalls' = [gCalls EXCEPT ![c].pc = IF route = GNone THEN "create" ELSE "list", ![c].route = route]
      BY <1>4, <2>2 DEF GGet
    <3>3. route \in GKnownRoute
      BY <1>0, <2>0, <3>1, GateIs DEF GTable
    <3> HIDE DEF route
    <3>4. CASE route = GNone
      BY <1>g, <1>r, <2>0, <3>2, <3>3, <3>4
    <3>5. CASE route # GNone
      <4>1. gCalls' = [gCalls EXCEPT ![c].pc = "list", ![c].route = route]
        BY <3>2, <3>5
      <4>2. GCallsTyped
        BY <1>r, <2>0, <3>3, <3>5, <4>1
      <4> QED
        BY <1>g, <2>0, <4>2
    <3> QED
      BY <3>4, <3>5
  <2> QED
    BY <2>1, <2>2
<1>5. CASE GAdopt(c)
  <2>0. gCalls[c].pc # "idle" /\ gCalls[c].route # GNone
        /\ UNCHANGED <<gDisk, gUrls, gGates, gControl>>
    BY <1>0, <1>5 DEF GAdopt, GTyped
  <2>1. CASE gCalls' = [gCalls EXCEPT ![c].pc = "create"]
    BY <1>0, <1>g, <2>0, <2>1, CallerGoes
  <2>2. CASE gCalls' = [gCalls EXCEPT ![c].pc = "put", ![c].route.port = gCalls[c].port]
    <3> DEFINE route == [gCalls[c].route EXCEPT !.port = gCalls[c].port]
    <3>1. gCalls' = [gCalls EXCEPT ![c].pc = "put", ![c].route = route]
      BY <1>0, <2>2 DEF GTyped, GCall
    <3>2. route \in GKnownRoute
      BY <1>1, <2>0 DEF GKnownRoute
    <3> HIDE DEF route
    <3> QED
      BY <1>g, <1>r, <2>0, <3>1, <3>2
  <2> QED
    BY <1>5, <2>1, <2>2 DEF GAdopt
<1>6. CASE GCreate(c)
  <2>1. PICK a \in GAuthorities :
          /\ gUrls' = Append(gUrls, [authority |-> a, live |-> TRUE])
          /\ gCalls' = [gCalls EXCEPT ![c].pc = "put", ![c].route = GRouteOf(c, Len(gUrls) + 1, a)]
    BY <1>6 DEF GCreate
  <2>2. Len(gUrls) + 1 \in Nat
    BY <1>0, LenProperties DEF GTyped
  <2>3. GRouteOf(c, Len(gUrls) + 1, a) \in GKnownRoute
    BY <1>1, <2>2 DEF GRouteOf, GKnownRoute
  <2>4. GCallsTyped
    BY <1>6, <1>r, <2>1, <2>3 DEF GCreate
  <2>5. gUrls' \in Seq([authority : GAuthorities, live : BOOLEAN])
    BY <1>0, <2>1, AppendProperties DEF GTyped
  <2>6. UNCHANGED <<gDisk, gGates, gControl>>
    BY <1>6 DEF GCreate
  <2> QED
    BY <1>0, <2>4, <2>5, <2>6 DEF GatewayInv, GTyped, GCallsTyped, GRoutesExclusive
<1>7. CASE GPut(c) /\ ~GReady
  <2>1. gCalls' = [gCalls EXCEPT ![c].pc = "release"] /\ gCalls[c].pc # "idle"
        /\ UNCHANGED <<gDisk, gUrls, gGates, gControl>>
    BY <1>7 DEF GPut, GGoes
  <2> QED
    BY <1>0, <1>g, <2>1, CallerGoes
<1>8. CASE GPut(c) /\ GReady
  <2>1. gControl \in 1 .. Len(gGates) /\ gControl \in Nat
    BY <1>0, <1>8 DEF GReady, GTyped
  <2> DEFINE request == [caller |-> c, service |-> gCalls[c].service, route |-> gCalls[c].route]
             v == [gGates[gControl] EXCEPT !.queue = Append(gGates[gControl].queue, request)]
  <2>2. /\ gGates' = [gGates EXCEPT ![gControl] = v]
        /\ gCalls' = [gCalls EXCEPT ![c].pc = "answer", ![c].gate = gControl]
        /\ gCalls[c].pc # "idle" /\ UNCHANGED <<gDisk, gUrls, gControl>>
    BY <1>0, <1>8 DEF GPut
  <2>3. request \in GRequest
    BY <1>1 DEF GRequest
  <2> HIDE DEF request
  <2>4. gGates[gControl] \in GGate /\ gGates[gControl].queue \in Seq(GRequest)
    BY <1>0, <2>1, GateIs
  <2>5. Append(gGates[gControl].queue, request) \in Seq(GRequest)
        /\ Append(gGates[gControl].queue, request) # <<>>
        /\ (gGates[gControl].queue # <<>> =>
              Head(Append(gGates[gControl].queue, request)) = Head(gGates[gControl].queue))
    <3>1. /\ Append(gGates[gControl].queue, request) \in Seq(GRequest)
          /\ Append(gGates[gControl].queue, request) # <<>>
          /\ \A i \in 1 .. Len(gGates[gControl].queue) :
                Append(gGates[gControl].queue, request)[i] = gGates[gControl].queue[i]
      BY <2>3, <2>4, AppendProperties
    <3>2. gGates[gControl].queue # <<>> => 1 \in 1 .. Len(gGates[gControl].queue)
      BY <2>4, EmptySeq
    <3> QED
      BY <2>4, <3>1, <3>2
  <2>6. /\ v \in GGate /\ v.routes = gGates[gControl].routes /\ v.saving = gGates[gControl].saving
        /\ v.phase = gGates[gControl].phase /\ v.queue = Append(gGates[gControl].queue, request)
    BY <2>4, <2>5 DEF GGate
  <2> HIDE DEF v
  <2>7. GGateSound(v)
    <3>1. GGateSound(gGates[gControl])
      BY <2>1 DEF GatewayInv
    <3> QED
      BY <2>5, <2>6, <3>1 DEF GGateSound
  <2>8. GCallsTyped
    <3> DEFINE w == [gCalls[c] EXCEPT !.pc = "answer", !.gate = gControl]
    <3>1. gCalls' = [gCalls EXCEPT ![c] = w]
      BY <1>0, <2>2 DEF GTyped
    <3>2. w \in GCall /\ w.pc = "answer" /\ w.service = gCalls[c].service
      BY <1>0, <2>1 DEF GCall
    <3> HIDE DEF w
    <3>3. w.service \in GServices
      BY <1>0, <2>2, <3>2 DEF GTyped
    <3> QED
      BY <1>0, <3>1, <3>2, <3>3, CallerRouted
  <2> QED
    BY <1>0, <2>1, <2>2, <2>6, <2>7, <2>8, GateSet, GatesMove DEF GTyped
<1>9. CASE GSpawn(c)
  <2> DEFINE v == [phase |-> "spawned", routes |-> gDisk, queue |-> <<>>, saving |-> FALSE]
  <2>1. gGates' = Append(gGates, v) /\ gCalls' = [gCalls EXCEPT ![c].pc = "waiting"] /\ gCalls[c].pc # "idle"
        /\ UNCHANGED <<gDisk, gUrls, gControl>>
    BY <1>9 DEF GSpawn, GGoes
  <2>2. <<>> \in Seq(GRequest)
    BY EmptySeq
  <2>3. v \in GGate /\ v.routes = gDisk /\ ~v.saving
    BY <1>0, <2>2 DEF GGate, GTyped
  <2> HIDE DEF v
  <2>4. GGateSound(v)
    BY <1>0, <2>3 DEF GGateSound, GExclusive, GRoutesExclusive
  <2>5. /\ gGates' \in Seq(GGate) /\ Len(gGates') = Len(gGates) + 1
        /\ \A h \in 1 .. Len(gGates) : gGates'[h] = gGates[h]
        /\ gGates'[Len(gGates) + 1] = v
    BY <1>0, <2>1, <2>3, AppendProperties
  <2>6. ASSUME NEW h \in 1 .. Len(gGates') PROVE GGateSound(gGates'[h])
    <3>1. h \in 1 .. Len(gGates) \/ h = Len(gGates) + 1
      BY <1>0, <2>5
    <3> QED
      BY <2>4, <2>5, <3>1 DEF GatewayInv
  <2>7. gControl' \in 0 .. Len(gGates')
    BY <1>0, <2>1, <2>5 DEF GTyped
  <2>8. GCallsTyped
    BY <1>0, <2>1, CallerGoes
  <2> QED
    BY <2>1, <2>5, <2>6, <2>7, <2>8, GatesMove
<1> QED
  BY <1>2, <1>3, <1>4, <1>5, <1>6, <1>7, <1>8, <1>9

(***************************************************************************)
(* GRoutesExclusive holds of every behaviour: whichever gateway saves, and *)
(* whatever the controller revokes and issues again, services.json gives   *)
(* no URL and no authority to two services (setRoute,                      *)
(* assertRouteAvailable, loadRoutes).                                      *)
(***************************************************************************)
THEOREM RoutesAreExclusive == GatewaySpec => []GRoutesExclusive
<1>1. GInit => GatewayInv
  <2> SUFFICES ASSUME GInit PROVE GatewayInv
    OBVIOUS
  <2>1. gGates \in Seq(GGate) /\ Len(gGates) = 0
    BY EmptySeq DEF GInit
  <2>2. gUrls \in Seq([authority : GAuthorities, live : BOOLEAN])
    BY EmptySeq DEF GInit
  <2>3. gDisk \in GTable
    BY DEF GInit, GTable, GKnownRoute
  <2>4. gCalls \in [GCallers -> GCall]
    BY DEF GInit, GCall, GKnownRoute
  <2>5. \A c \in GCallers : gCalls[c].pc = "idle"
    BY DEF GInit
  <2> QED
    BY <2>1, <2>2, <2>3, <2>4, <2>5 DEF GInit, GatewayInv, GTyped, GRoutesExclusive
<1>2. ASSUME GatewayInv, [GatewayNext]_gVars PROVE GatewayInv'
  <2>1. CASE UNCHANGED gVars
    BY <1>2, <2>1 DEF GatewayInv, GTyped, GRoutesExclusive
  <2>2. ASSUME NEW s \in GServices, GLockLost(s) PROVE GatewayInv'
    BY <1>2, <2>2 DEF GLockLost, GatewayInv, GTyped, GRoutesExclusive
  <2>3. ASSUME NEW u \in 1 .. Len(gUrls), GRevoked(u) PROVE GatewayInv'
    <3> DEFINE U == [authority : GAuthorities, live : BOOLEAN]
               v == [gUrls[u] EXCEPT !.live = FALSE]
    <3>1. gUrls \in Seq(U) /\ gUrls[u] \in U
      BY <1>2, ElementOfSeq DEF GatewayInv, GTyped
    <3>2. gUrls' = [gUrls EXCEPT ![u] = v] /\ UNCHANGED <<gDisk, gGates, gControl, gCalls>>
      BY <2>3, <3>1 DEF GRevoked
    <3>3. v \in U
      BY <3>1
    <3> HIDE DEF v
    <3>4. gUrls' \in Seq(U)
      BY <3>1, <3>2, <3>3, ExceptSeq
    <3> QED
      BY <1>2, <3>2, <3>4 DEF GatewayInv, GTyped, GRoutesExclusive
  <2> QED
    BY <1>2, <2>1, <2>2, <2>3, GatewaySide, GatewayUpdates, GatewayCallers DEF GatewayNext
<1>3. GatewayInv => GRoutesExclusive
  BY DEF GatewayInv
<1> QED
  BY <1>1, <1>2, <1>3, PTL DEF GatewaySpec

-----------------------------------------------------------------------------
(***************************************************************************)
(* Lifecycle lock.  LockExclusive is not inductive alone.  The invariant   *)
(* counts the processes beyond the one owner the record names: holders     *)
(* whose record was overwritten, takers whose helper died, and the one     *)
(* taker with the flock that is about to overwrite a holder's record.      *)
(* Only the death of a helper adds to them.                                *)
(***************************************************************************)

\* Only a process that may be followed by another instance is dead.
RestartsLeft == \A p \in KProcesses : kStage[p] = "dead" => kStarts[p] < KMaxStarts

\* A process that holds the lock although the record names another.
Displaced(p) == kStage[p] = "held" /\ kOwner # KMe(p)

\* A process that goes on towards the record without the flock.
Unguarded(p) == kStage[p] \in {"reading", "publishing"} /\ kGuard # KMe(p)

\* A process with the flock that will overwrite the record of a holder.
Displacing(p) ==
  /\ kStage[p] = "publishing" /\ kGuard = KMe(p)
  /\ \E q \in KProcesses : kStage[q] = "held" /\ kOwner = KMe(q)

Surplus == {p \in KProcesses : Displaced(p) \/ Unguarded(p) \/ Displacing(p)}

LockInv == LockTypeOK /\ RestartsLeft /\ Cardinality(Surplus) <= kUnguarded

USE DEF kVars, KGoes, KDropGuard, KRetries, KFault

-----------------------------------------------------------------------------
\* No instance is the missing owner, and two processes never share one.
LEMMA InstancesDiffer ==
  ASSUME LockTypeOK, NEW p \in KProcesses
  PROVE  /\ KMe(p) # KNobody
         /\ KMe(p) \in KProcesses \X (1..KMaxStarts)
         /\ \A q \in KProcesses : KMe(p) = KMe(q) => p = q
BY DEF LockTypeOK, KMe, KNobody

\* Every step keeps every variable in its type.
LEMMA LockTypeStep ==
  ASSUME LockTypeOK, RestartsLeft, [LockNext]_kVars
  PROVE  LockTypeOK' /\ RestartsLeft'
<1> USE LockAssumption, InstancesDiffer
<1>1. ASSUME NEW p \in KProcesses,
             KAcquire(p) \/ KTakes(p) \/ KEnds(p) \/ KTimeout(p) \/ KGuardFails(p) \/ KUnverified(p)
               \/ KPublishFails(p)
      PROVE  LockTypeOK' /\ RestartsLeft'
  BY <1>1 DEF LockTypeOK, RestartsLeft, KAcquire, KTakes, KTryGuard, KReadOwner,
     KBackOff, KPublish, KEnds, KRelease, KReleased, KHelperExits, KTimeout,
     KGuardFails, KUnverified, KPublishFails
<1>2. ASSUME NEW p \in KProcesses, KDies(p) \/ KStarts(p)
      PROVE  LockTypeOK' /\ RestartsLeft'
  BY <1>2 DEF LockTypeOK, RestartsLeft, KDies, KStarts
<1>3. ASSUME NEW p \in KProcesses, KHelperDies(p)
      PROVE  LockTypeOK' /\ RestartsLeft'
  <2>1. kUnguarded \in 0..kFaults /\ kFaults \in 0..KMaxFaults /\ kFaults' = kFaults + 1 /\ kFaults < KMaxFaults
        /\ (kUnguarded' = kUnguarded + 1 \/ kUnguarded' = kUnguarded)
    BY <1>3 DEF LockTypeOK, KHelperDies
  <2>2. kUnguarded' \in 0..kFaults' /\ kFaults' \in 0..KMaxFaults
    BY <2>1
  <2> QED
    BY <1>3, <2>2 DEF LockTypeOK, RestartsLeft, KHelperDies
<1>4. CASE UNCHANGED kVars
  BY <1>4 DEF LockTypeOK, RestartsLeft
<1> QED
  BY <1>1, <1>2, <1>3, <1>4 DEF LockNext

\* The surplus can be counted, and who is gone from it makes room for one.
LEMMA SurplusCounts ==
  ASSUME LockTypeOK, LockTypeOK'
  PROVE  /\ Cardinality(Surplus) \in Nat /\ Cardinality(Surplus') \in Nat
         /\ Surplus' \subseteq Surplus => Cardinality(Surplus') <= Cardinality(Surplus)
         /\ \A p \in Surplus, q \in KProcesses : Surplus' \subseteq (Surplus \ {p}) \cup {q}
              => Cardinality(Surplus') <= Cardinality(Surplus)
         /\ \A p \in KProcesses : Surplus' \subseteq Surplus \cup {p}
              => Cardinality(Surplus') <= Cardinality(Surplus) + 1
<1>1. IsFiniteSet(Surplus) /\ IsFiniteSet(Surplus')
  BY LockAssumption, FS_Subset DEF Surplus
<1>2. Cardinality(Surplus) \in Nat /\ Cardinality(Surplus') \in Nat
  BY <1>1, FS_CardinalityType
<1>3. Surplus' \subseteq Surplus => Cardinality(Surplus') <= Cardinality(Surplus)
  BY <1>1, FS_Subset
<1>4. ASSUME NEW p \in KProcesses, Surplus' \subseteq Surplus \cup {p}
      PROVE  Cardinality(Surplus') <= Cardinality(Surplus) + 1
  <2>0. /\ IsFiniteSet(Surplus \cup {p})
        /\ Cardinality(Surplus \cup {p}) = IF p \in Surplus THEN Cardinality(Surplus) ELSE Cardinality(Surplus) + 1
    BY <1>1, FS_AddElement
  <2>1. IsFiniteSet(Surplus \cup {p}) /\ Cardinality(Surplus \cup {p}) <= Cardinality(Surplus) + 1
    BY <1>2, <2>0
  <2>2. Cardinality(Surplus') <= Cardinality(Surplus \cup {p}) /\ Cardinality(Surplus \cup {p}) \in Nat
    BY <1>4, <2>1, FS_Subset, FS_CardinalityType
  <2> QED
    BY <1>2, <2>1, <2>2
<1>5. ASSUME NEW p \in Surplus, NEW q \in KProcesses, Surplus' \subseteq (Surplus \ {p}) \cup {q}
      PROVE  Cardinality(Surplus') <= Cardinality(Surplus)
  <2>1. IsFiniteSet(Surplus \ {p}) /\ Cardinality(Surplus \ {p}) = Cardinality(Surplus) - 1
    BY <1>1, FS_RemoveElement
  <2>2. IsFiniteSet((Surplus \ {p}) \cup {q})
        /\ Cardinality((Surplus \ {p}) \cup {q}) <= Cardinality(Surplus)
    BY <1>2, <2>1, FS_AddElement
  <2>3. Cardinality(Surplus') <= Cardinality((Surplus \ {p}) \cup {q})
        /\ Cardinality((Surplus \ {p}) \cup {q}) \in Nat
    BY <1>5, <2>2, FS_Subset, FS_CardinalityType
  <2> QED
    BY <1>2, <2>2, <2>3
<1> QED
  BY <1>2, <1>3, <1>4, <1>5

\* Publishing replaces the publisher in the surplus by the holder whose
\* record it overwrote, or by the next publisher.
LEMMA PublishSwaps ==
  ASSUME LockInv, NEW p \in KProcesses, KPublish(p) \/ KPublishFails(p), LockTypeOK'
  PROVE  Cardinality(Surplus') <= Cardinality(Surplus)
<1>0. LockTypeOK /\ kStage[p] = "publishing" /\ kStarts' = kStarts
  BY DEF LockInv, KPublish, KPublishFails
<1>1. /\ \A q \in KProcesses : q # p => kStage'[q] = kStage[q] /\ KMe(q)' = KMe(q)
      /\ kStage'[p] # "publishing" /\ kStage'[p] # "reading" /\ KMe(p)' = KMe(p)
      /\ kStage'[p] = "held" => kOwner' = KMe(p)
  BY <1>0 DEF LockTypeOK, KPublish, KPublishFails, KMe
<1>2. p \notin Surplus'
  BY <1>1 DEF Surplus, Displaced, Unguarded, Displacing
<1>3. \A q \in KProcesses : Unguarded(q)' => Unguarded(q)
  BY <1>0, <1>1, InstancesDiffer DEF Unguarded, KPublish, KPublishFails
<1>4. CASE kOwner' = kOwner
  <2>1. \A q \in KProcesses : Displaced(q)' => Displaced(q)
    BY <1>1, <1>2, <1>4 DEF Displaced, Surplus
  <2>2. CASE KPublishFails(p)
    <3>1. \A q \in KProcesses : Displacing(q)' => Displacing(q)
      BY <1>0, <1>1, <1>4, <2>2, InstancesDiffer DEF Displacing, KPublishFails, KNobody, LockTypeOK
    <3> QED
      BY <1>0, <1>3, <2>1, <3>1, SurplusCounts DEF Surplus
  <2>3. CASE KPublish(p)
    <3>1. \A q \in KProcesses : Displacing(q)' => kGuard = KMe(q) /\ kStage[q] = "publishing" /\ q # p
      BY <1>0, <1>1, <2>3 DEF Displacing, KPublish
    <3>2. CASE Unguarded(p)
      <4>1. p \in Surplus
        BY <3>2 DEF Surplus
      <4>2. CASE \E q \in KProcesses : Displacing(q)'
        <5>1. PICK q \in KProcesses : Displacing(q)'
          BY <4>2
        <5>2. \A x \in KProcesses : Displacing(x)' => x = q
          BY <1>0, <3>1, <5>1, InstancesDiffer
        <5>3. Surplus' \subseteq (Surplus \ {p}) \cup {q}
          BY <1>2, <1>3, <2>1, <5>2 DEF Surplus
        <5> QED
          BY <1>0, <4>1, <5>3, SurplusCounts
      <4>3. CASE ~\E q \in KProcesses : Displacing(q)'
        BY <1>0, <1>3, <2>1, <4>3, SurplusCounts DEF Surplus
      <4> QED
        BY <4>2, <4>3
    <3>3. CASE ~Unguarded(p)
      <4>1. \A q \in KProcesses : ~Displacing(q)'
        BY <1>0, <3>1, <3>3, InstancesDiffer DEF Unguarded
      <4> QED
        BY <1>0, <1>3, <2>1, <4>1, SurplusCounts DEF Surplus
    <3> QED
      BY <3>2, <3>3
  <2> QED
    BY <2>2, <2>3
<1>5. CASE kOwner' # kOwner
  <2>0. kOwner' = KMe(p)
    BY <1>5 DEF KPublish, KPublishFails
  <2>1. \A q \in KProcesses : Displacing(q)' =>
          kGuard = KMe(q) /\ kStage[q] = "publishing" /\ q # p /\ Unguarded(p)
    <3>1. ASSUME NEW q \in KProcesses, Displacing(q)'
          PROVE  kGuard' = KMe(q) /\ kStage[q] = "publishing" /\ q # p /\ kOwner' = KMe(p) /\ kStage'[p] = "held"
      BY <1>0, <1>1, <2>0, <3>1, InstancesDiffer DEF Displacing
    <3>2. \A q \in KProcesses : kGuard' = KMe(q) /\ q # p => kGuard = KMe(q)
      BY <1>0, InstancesDiffer DEF KPublish, KPublishFails
    <3> QED
      BY <1>0, <3>1, <3>2, InstancesDiffer DEF Unguarded
  <2>2. CASE \E q \in KProcesses : kStage[q] = "held" /\ kOwner = KMe(q)
    <3>1. PICK q \in KProcesses : kStage[q] = "held" /\ kOwner = KMe(q)
      BY <2>2
    <3>2. p \in Surplus
      BY <1>0, <3>1 DEF Surplus, Unguarded, Displacing
    <3>3. \A x \in KProcesses : Displaced(x)' => Displaced(x) \/ x = q
      BY <1>0, <1>1, <1>2, <3>1, InstancesDiffer DEF Displaced, Surplus
    <3>4. \A x \in KProcesses : Displacing(x)' => Displacing(x)
      BY <2>1, <3>1 DEF Displacing
    <3>5. Surplus' \subseteq (Surplus \ {p}) \cup {q}
      BY <1>2, <1>3, <3>3, <3>4 DEF Surplus
    <3> QED
      BY <1>0, <3>2, <3>5, SurplusCounts
  <2>3. CASE ~\E q \in KProcesses : kStage[q] = "held" /\ kOwner = KMe(q)
    <3>1. \A x \in KProcesses : Displaced(x)' => Displaced(x)
      BY <1>1, <1>2, <2>3 DEF Displaced, Surplus
    <3>2. CASE \E q \in KProcesses : Displacing(q)'
      <4>1. PICK q \in KProcesses : Displacing(q)'
        BY <3>2
      <4>2. \A x \in KProcesses : Displacing(x)' => x = q
        BY <1>0, <2>1, <4>1, InstancesDiffer
      <4>3. p \in Surplus /\ Surplus' \subseteq (Surplus \ {p}) \cup {q}
        BY <1>2, <1>3, <2>1, <3>1, <4>1, <4>2 DEF Surplus
      <4> QED
        BY <1>0, <4>3, SurplusCounts
    <3>3. CASE ~\E q \in KProcesses : Displacing(q)'
      BY <1>0, <1>3, <3>1, <3>3, SurplusCounts DEF Surplus
    <3> QED
      BY <3>2, <3>3
  <2> QED
    BY <2>2, <2>3
<1> QED
  BY <1>4, <1>5

\* Every other step of a process leaves the surplus as it is or smaller,
\* except that the death of a helper may add its owner.
LEMMA SurplusStep ==
  ASSUME LockInv, [LockNext]_kVars, LockTypeOK'
  PROVE  Cardinality(Surplus') <= kUnguarded'
<1> DEFINE Kept == Surplus' \subseteq Surplus /\ kUnguarded' = kUnguarded
<1>0. LockTypeOK /\ Cardinality(Surplus) <= kUnguarded /\ kUnguarded \in Nat
  BY LockAssumption DEF LockInv, LockTypeOK
<1> USE DEF Surplus, Displaced, Unguarded, Displacing
<1>1. ASSUME NEW p \in KProcesses, KAcquire(p) PROVE Kept
  BY <1>0, <1>1 DEF KAcquire, KMe, LockTypeOK
<1>2. ASSUME NEW p \in KProcesses, KTryGuard(p) PROVE Kept
  BY <1>0, <1>2, InstancesDiffer DEF KTryGuard, KMe, LockTypeOK
<1>3. ASSUME NEW p \in KProcesses, KReadOwner(p) PROVE Kept
  BY <1>0, <1>3 DEF KReadOwner, KReplaceable, KLive, KMe, LockTypeOK, KNobody
<1>4. ASSUME NEW p \in KProcesses,
             KBackOff(p) \/ KTimeout(p) \/ KUnverified(p) \/ KGuardFails(p) \/ KReleased(p)
      PROVE  Kept
  <2>1. kStarts' = kStarts /\ kOwner' = kOwner /\ kUnguarded' = kUnguarded
        /\ kStage'[p] \in {"waiting", "idle"} /\ kStage[p] \in {"waiting", "reading", "releasing"}
    BY <1>0, <1>4 DEF KBackOff, KTimeout, KUnverified, KGuardFails, KReleased, LockTypeOK
  <2>2. \A q \in KProcesses : q # p => kStage'[q] = kStage[q] /\ (kGuard' = KMe(q) <=> kGuard = KMe(q))
    BY <1>0, <1>4, InstancesDiffer DEF KBackOff, KTimeout, KUnverified, KGuardFails, KReleased, LockTypeOK
  <2> QED
    BY <1>0, <2>1, <2>2 DEF KMe
<1>5. ASSUME NEW p \in KProcesses, KRelease(p) PROVE Kept
  BY <1>0, <1>5, InstancesDiffer DEF KRelease, KMe, LockTypeOK
<1>6. ASSUME NEW p \in KProcesses, KHelperExits(p) PROVE Kept
  BY <1>0, <1>6, InstancesDiffer DEF KHelperExits, KMe, LockTypeOK
<1>7. ASSUME NEW p \in KProcesses, KDies(p) PROVE Kept
  BY <1>0, <1>7 DEF KDies, KMe, LockTypeOK
<1>8. ASSUME NEW p \in KProcesses, KStarts(p) PROVE Kept
  BY <1>0, <1>8 DEF KStarts, KMe, LockTypeOK
<1>9. ASSUME NEW p \in KProcesses, KPublish(p) \/ KPublishFails(p) PROVE Cardinality(Surplus') <= kUnguarded'
  <2>1. kUnguarded' = kUnguarded /\ Cardinality(Surplus') <= Cardinality(Surplus)
    BY <1>9, PublishSwaps DEF KPublish, KPublishFails
  <2> QED
    BY <1>0, <2>1, SurplusCounts
<1>10. ASSUME NEW p \in KProcesses, KHelperDies(p) PROVE Cardinality(Surplus') <= kUnguarded'
  <2>1. Surplus' \subseteq Surplus \cup {p}
    BY <1>0, <1>10, InstancesDiffer DEF KHelperDies, KMe, LockTypeOK
  <2>2. CASE kStage[p] \in {"reading", "publishing"}
    <3>1. kUnguarded' = kUnguarded + 1
      BY <1>10, <2>2 DEF KHelperDies
    <3>2. Cardinality(Surplus') <= Cardinality(Surplus) + 1
      BY <1>0, <2>1, SurplusCounts
    <3> QED
      BY <1>0, <3>1, <3>2, SurplusCounts
  <2>3. CASE kStage[p] \notin {"reading", "publishing"}
    <3>1. Surplus' \subseteq Surplus /\ kUnguarded' = kUnguarded
      BY <1>0, <1>10, <2>3, InstancesDiffer DEF KHelperDies, KMe, LockTypeOK
    <3> QED
      BY <1>0, <3>1, SurplusCounts
  <2> QED
    BY <2>2, <2>3
<1>11. CASE UNCHANGED kVars
  <2>1. Kept
    BY <1>11 DEF KMe
  <2> QED
    BY <1>0, <2>1, SurplusCounts
<1>12. Kept => Cardinality(Surplus') <= kUnguarded'
  BY <1>0, SurplusCounts
<1> QED
  BY <1>1, <1>2, <1>3, <1>4, <1>5, <1>6, <1>7, <1>8, <1>9, <1>10, <1>11, <1>12
     DEF LockNext, KTakes, KEnds

\* A holder is the one the record names, or it is in the surplus.
LEMMA HoldersCounted ==
  ASSUME LockInv
  PROVE  LockExclusive
<1> DEFINE H == {p \in KProcesses : kStage[p] = "held"}
<1>0. LockTypeOK /\ Cardinality(Surplus) <= kUnguarded /\ kUnguarded \in Nat
  BY LockAssumption DEF LockInv, LockTypeOK
<1>1. IsFiniteSet(Surplus) /\ Cardinality(Surplus) \in Nat
  BY LockAssumption, FS_Subset, FS_CardinalityType DEF Surplus
<1>2. \E x : H \subseteq Surplus \cup {x}
  <2>1. CASE \E p \in KProcesses : kOwner = KMe(p)
    BY <1>0, <2>1, InstancesDiffer DEF Surplus, Displaced
  <2>2. CASE ~\E p \in KProcesses : kOwner = KMe(p)
    BY <2>2 DEF Surplus, Displaced
  <2> QED
    BY <2>1, <2>2
<1>3. PICK x : H \subseteq Surplus \cup {x}
  BY <1>2
<1>4. IsFiniteSet(Surplus \cup {x}) /\ Cardinality(Surplus \cup {x}) <= Cardinality(Surplus) + 1
  BY <1>1, FS_AddElement
<1>5. Cardinality(H) <= Cardinality(Surplus \cup {x}) /\ Cardinality(H) \in Nat
      /\ Cardinality(Surplus \cup {x}) \in Nat
  BY <1>3, <1>4, FS_Subset, FS_CardinalityType
<1> QED
  BY <1>0, <1>1, <1>4, <1>5 DEF LockExclusive

\* The inductive invariant holds of every behaviour of the lock.
THEOREM LockInductive == LockSpec => []LockInv
<1>1. LockInit => LockInv
  <2>1. ASSUME LockInit PROVE LockTypeOK /\ RestartsLeft /\ Surplus = {} /\ kUnguarded = 0
    BY <2>1, LockAssumption DEF LockInit, LockTypeOK, RestartsLeft, Surplus, Displaced, Unguarded, Displacing
  <2> QED
    BY <2>1, FS_EmptySet DEF LockInv
<1>2. LockInv /\ [LockNext]_kVars => LockInv'
  BY LockTypeStep, SurplusStep DEF LockInv
<1> QED
  BY <1>1, <1>2, PTL DEF LockSpec

\* At most one live process holds the lock of one lifecycle record, plus one
\* for every helper that died before its owner's record was published,
\* whatever records were left behind and process ids were reused
\* (acquireLifecycleLock and the release function it returns).
THEOREM LockIsExclusive == LockSpec => []LockExclusive
<1>1. LockInv => LockExclusive
  BY HoldersCounted
<1> QED
  BY <1>1, LockInductive, PTL
-----------------------------------------------------------------------------
(***************************************************************************)
(* External URLs.  Between operations a row of a listener answers for a    *)
(* stored URL that is not revoked, and an enabled row for one that is let  *)
(* through.  An operation that changes the registry before the store, or   *)
(* the store before the registry, leaves exactly its own rows behind that  *)
(* rule, and each way it may end closes them or makes the rule true again. *)
(***************************************************************************)

UClaims == {URouteClaim(r) : r \in URequests} \cup {UOwnClaim(k) : k \in Nat}
UEntryRow == [request : URequests, claim : UClaims, approval : UApprovals, policy : UPolicies]

UOnEntry == {"reconcile", "rebind", "renew", "mark", "close", "remove", "approve", "switch"}
UStages == UOnEntry \cup {"none", "provision", "store", "stop-caddy", "close-listener", "forget", "unconfigure",
                          "stale-caddy", "dns", "caddy", "routes"}

UTyped ==
  /\ uStored \in [DOMAIN uStored -> UEntryRow] /\ DOMAIN uStored \subseteq 1 .. uCount.ids
  /\ uConfig \in [UIngresses -> UPolicies \cup {0}] /\ uLive \in [UIngresses -> UPolicies \cup {0}]
  /\ uRegistry = [a \in DOMAIN uRegistry |->
                    [claim |-> uRegistry[a].claim, upstream |-> uRegistry[a].upstream, enabled |-> uRegistry[a].enabled]]
  /\ uOp = [kind |-> uOp.kind, stage |-> uOp.stage, id |-> uOp.id, request |-> uOp.request,
            acquired |-> uOp.acquired, todo |-> uOp.todo]
  /\ uOp.stage \in UStages
  /\ uCount \in [ids : Nat, starts : Nat, edits : Nat, moves : Nat, faults : Nat]

\* A URL is claimed by its id or by its route, was approved if it had to be, and is
\* the only one of its request that is not revoked.
UEntriesOK ==
  /\ \A x \in DOMAIN uStored :
       /\ uStored[x].claim \in {UOwnClaim(x), URouteClaim(uStored[x].request)}
       /\ uStored[x].policy \in UGuarded => uStored[x].approval # "not-required"
  /\ \A x, y \in DOMAIN uStored :
       uStored[x].approval # "revoked" /\ uStored[y].approval # "revoked"
       /\ uStored[x].request = uStored[y].request => x = y

\* What the operation at the head of the queue knows of the URL it works on.
UOpOK ==
  /\ uOp.stage \in UOnEntry =>
       uOp.todo \subseteq DOMAIN uStored /\ uOp.id \in DOMAIN uStored /\ uOp.id \notin uOp.todo
  /\ uOp.stage \in {"rebind", "renew", "approve", "switch"} =>
       UEntry.approval # "revoked" /\ UPolicyOf(UEntry.request) # 0
  /\ uOp.stage \in {"rebind", "renew"} /\ UDrifted /\ UPolicyOf(UEntry.request) \in UGuarded =>
       UEntry.approval = "pending"
  /\ uOp.stage = "renew" => UDrifted /\ uOp.acquired
  /\ uOp.stage \in {"approve", "switch"} =>
       UActiveRoute(uOp.id) /\ UEntry.policy = UPolicyOf(UEntry.request)
  /\ uOp.stage = "switch" => UEntry.approval = "approved"
  /\ uOp.stage \in {"close", "remove"} => UEntry.approval = "revoked"
  /\ uOp.stage \in {"provision", "store"} =>
       /\ uOp.id \in (1 .. uCount.ids) \ DOMAIN uStored
       /\ uOp.request \in URequests /\ UPolicyOf(uOp.request) # 0 /\ UExisting(uOp.request) = {}
  /\ uOp.stage = "store" => uOp.acquired
  /\ uOp.stage \in {"stop-caddy", "close-listener", "forget", "unconfigure"} => uOp.request.ingress \in UIngresses
  /\ uOp.stage = "forget" => uLive[uOp.request.ingress] = 0

UDarkOK ==
  uPhase = "down" => UAt("none") /\ DOMAIN uRegistry = {} /\ uFlows = {}

\* A stored URL that is not revoked holds the authority under the policy now served.
UOwned(a, claim) ==
  \E x \in DOMAIN uStored :
    /\ uStored[x].approval # "revoked" /\ uStored[x].claim = claim /\ a \in UAuthoritiesOf(x)
    /\ UPolicyOf(uStored[x].request) = uStored[x].policy

\* What the operation has taken and not yet stored, or marked and not yet closed.
UTakenNew(a, claim) == uOp.stage = "store" /\ a \in UNewAuthorities /\ claim = UNewClaim
UTakenAnew(a, claim) == uOp.stage = "renew" /\ a \in UWanted /\ claim = UEntry.claim
UMarked(a, claim) == uOp.stage = "close" /\ a \in UAuthoritiesOf(uOp.id) /\ claim = UEntry.claim

UHeld(a, claim) == UOwned(a, claim) \/ UTakenNew(a, claim) \/ UTakenAnew(a, claim) \/ UMarked(a, claim)
ULet(a, claim) ==
  \/ UBacked(a, claim)
  \/ UTakenNew(a, claim) /\ UPolicyOf(uOp.request) \notin UGuarded
  \/ UTakenAnew(a, claim) /\ UEnabled(UEntry.approval)
  \/ UMarked(a, claim)

ULiveRow(a) == a \in DOMAIN uRegistry /\ \E i \in UIngresses : UDocked(i, a) /\ uLive[i] # 0
URowsOK ==
  \A a \in DOMAIN uRegistry : ULiveRow(a) =>
    UHeld(a, uRegistry[a].claim) /\ (uRegistry[a].enabled => ULet(a, uRegistry[a].claim))
UFlowsOK ==
  \A f \in uFlows :
    f.ingress \in UIngresses /\ UDocked(f.ingress, f.authority) /\ uLive[f.ingress] # 0 /\ ULet(f.authority, f.claim)

UrlInv == UTyped /\ UEntriesOK /\ UOpOK /\ UDarkOK /\ URowsOK /\ UFlowsOK /\ UFlowsFollowTarget

\* An authority tells the listener, and the permalink its URL.
LEMMA AuthorityFacts ==
  ASSUME NEW r \in URequests, NEW id, NEW policy, NEW a \in UAuthorities(r, id, policy)
  PROVE  /\ \A i \in UIngresses : UDocked(i, a) <=> i = r.ingress
         /\ a.kind = "permalink" => a.name = id
         /\ a.kind = "tcp" <=> r.ingress = UTcp
<1>1. r.ingress \in UIngresses /\ UHttp # UTcp
  BY UrlAssumption DEF UIngresses
<1>2. CASE r.ingress = UTcp
  <2>1. a.kind = "tcp"
    BY <1>2 DEF UAuthorities
  <2> QED
    BY <1>1, <1>2, <2>1 DEF UDocked, UIngresses
<1>3. CASE r.ingress # UTcp
  <2>1. a.kind \in {"slug", "permalink"} /\ (a.kind = "permalink" => a.name = id)
    BY <1>3 DEF UAuthorities
  <2>2. r.ingress = UHttp
    BY <1>1, <1>3 DEF UIngresses
  <2> QED
    BY <1>1, <1>3, <2>1, <2>2 DEF UDocked, UIngresses
<1> QED
  BY <1>2, <1>3

\* An entry whose policy is the one served has an ingress that is served.
LEMMA ServedPolicy ==
  ASSUME UTyped, NEW x \in DOMAIN uStored
  PROVE  /\ uStored[x] \in UEntryRow /\ uStored[x].policy # 0
         /\ uStored[x].request \in URequests /\ uStored[x].request.ingress \in UIngresses
<1>1. uStored[x] \in UEntryRow
  BY DEF UTyped
<1> QED
  BY <1>1, UrlAssumption DEF UEntryRow, UIngresses

\* What is let through is owned.
LEMMA BackedIsOwned ==
  ASSUME NEW a, NEW claim, UBacked(a, claim)
  PROVE  UOwned(a, claim)
BY DEF UBacked, UOwned, UEnabled

\* Claims of URLs and of routes are told apart by their fields.
LEMMA ClaimFields ==
  /\ \A x, y : UOwnClaim(x) = UOwnClaim(y) => x = y
  /\ \A r, s : URouteClaim(r) = URouteClaim(s) => r.target = s.target
  /\ \A x, r : UOwnClaim(x) # URouteClaim(r)
<1>1. \A x : UOwnClaim(x).id = x /\ UOwnClaim(x).of = "url"
  BY DEF UOwnClaim
<1>2. \A r : URouteClaim(r).target = r.target /\ URouteClaim(r).of = "route"
  BY DEF URouteClaim
<1> QED
  BY <1>1, <1>2

\* Two URLs that are not revoked never share the claim of a TCP route.
LEMMA TcpClaimsDiffer ==
  ASSUME UTyped, UEntriesOK, NEW x \in DOMAIN uStored, NEW y \in DOMAIN uStored,
         uStored[x].approval # "revoked", uStored[y].approval # "revoked",
         uStored[x].request.ingress = UTcp, uStored[y].request.ingress = UTcp,
         uStored[x].claim = uStored[y].claim
  PROVE  x = y
<1>1. uStored[x].request \in URequests /\ uStored[y].request \in URequests
  BY ServedPolicy
<1>2. /\ uStored[x].claim \in {UOwnClaim(x), URouteClaim(uStored[x].request)}
      /\ uStored[y].claim \in {UOwnClaim(y), URouteClaim(uStored[y].request)}
  BY DEF UEntriesOK
<1>3. CASE uStored[x].claim = UOwnClaim(x)
  <2>1. uStored[y].claim = UOwnClaim(y)
    BY <1>2, <1>3, ClaimFields
  <2> QED
    BY <1>3, <2>1, ClaimFields
<1>4. CASE uStored[x].claim = URouteClaim(uStored[x].request)
  <2>1. uStored[y].claim = URouteClaim(uStored[y].request)
    BY <1>2, <1>4, ClaimFields
  <2>2. uStored[x].request.target = uStored[y].request.target
    BY <1>4, <2>1, ClaimFields
  <2>3. uStored[x].request = uStored[y].request
    BY <1>1, <2>2, UrlAssumption
  <2> QED
    BY <2>3 DEF UEntriesOK
<1> QED
  BY <1>2, <1>3, <1>4

\* provision keeps every connection on its row: a row is taken only for the claim
\* that has it, and a changed upstream closes the claim's connections.
LEMMA ProvisionedEffect ==
  ASSUME UTyped, UFlowsFollowTarget, NEW authorities, NEW claim, NEW upstream, NEW enabled,
         UUnclaimed(authorities, claim), UProvisioned(authorities, claim, upstream, enabled)
  PROVE  /\ DOMAIN uRegistry' = DOMAIN uRegistry \cup authorities
         /\ \A a \in authorities :
              uRegistry'[a] = [claim |-> claim, upstream |-> upstream, enabled |-> enabled]
         /\ \A a \in DOMAIN uRegistry : a \notin authorities => uRegistry'[a] = uRegistry[a]
         /\ uRegistry' = [a \in DOMAIN uRegistry' |->
              [claim |-> uRegistry'[a].claim, upstream |-> uRegistry'[a].upstream, enabled |-> uRegistry'[a].enabled]]
         /\ uFlows' \subseteq uFlows
         /\ UFlowsFollowTarget'
<1> DEFINE row == [claim |-> claim, upstream |-> upstream, enabled |-> enabled]
<1>1. uRegistry' = [a \in DOMAIN uRegistry \cup authorities |-> IF a \in authorities THEN row ELSE uRegistry[a]]
  BY DEF UProvisioned
<1>2. row.claim = claim /\ row.upstream = upstream /\ row.enabled = enabled
  OBVIOUS
<1>3. uFlows' \subseteq uFlows
  BY DEF UProvisioned, UDestroyClaim
<1>4. UFlowsFollowTarget'
  <2> SUFFICES ASSUME NEW f \in uFlows'
               PROVE  f.authority \in DOMAIN uRegistry' /\ uRegistry'[f.authority].claim = f.claim
                      /\ uRegistry'[f.authority].upstream = f.upstream
    BY DEF UFlowsFollowTarget
  <2>1. f.authority \in DOMAIN uRegistry /\ uRegistry[f.authority].claim = f.claim
        /\ uRegistry[f.authority].upstream = f.upstream
    BY <1>3 DEF UFlowsFollowTarget
  <2>2. CASE f.authority \notin authorities
    BY <1>1, <2>1, <2>2
  <2>3. CASE f.authority \in authorities
    <3>1. f.claim = claim
      BY <2>1, <2>3 DEF UUnclaimed
    <3>2. ~URebinds(authorities, upstream)
      BY <3>1 DEF UProvisioned, UDestroyClaim
    <3>3. uRegistry[f.authority].upstream = upstream
      BY <2>1, <2>3, <3>2 DEF URebinds
    <3> HIDE DEF row
    <3> QED
      BY <1>1, <1>2, <2>1, <2>3, <3>1, <3>3
  <2> QED
    BY <2>2, <2>3
<1>5. \A a \in DOMAIN uRegistry :
        uRegistry[a] = [claim |-> uRegistry[a].claim, upstream |-> uRegistry[a].upstream, enabled |-> uRegistry[a].enabled]
  BY DEF UTyped
<1>6. \A a \in DOMAIN uRegistry' :
        uRegistry'[a] = [claim |-> uRegistry'[a].claim, upstream |-> uRegistry'[a].upstream, enabled |-> uRegistry'[a].enabled]
  <2> SUFFICES ASSUME NEW a \in DOMAIN uRegistry'
               PROVE  uRegistry'[a] = [claim |-> uRegistry'[a].claim, upstream |-> uRegistry'[a].upstream,
                                       enabled |-> uRegistry'[a].enabled]
    OBVIOUS
  <2>1. CASE a \in authorities
    BY <1>1, <2>1
  <2>2. CASE a \notin authorities
    <3>1. a \in DOMAIN uRegistry /\ uRegistry'[a] = uRegistry[a]
      BY <1>1, <2>2
    <3> QED
      BY <1>5, <3>1
  <2> QED
    BY <2>1, <2>2
<1>7. uRegistry' = [a \in DOMAIN uRegistry' |-> uRegistry'[a]]
  BY <1>1
<1> HIDE DEF row
<1> QED
  BY <1>1, <1>3, <1>4, <1>6, <1>7 DEF row

\* revoke takes the rows of the claim and every connection of it.
LEMMA RevokeEffect ==
  ASSUME UTyped, UFlowsFollowTarget, NEW authorities, NEW claim, URevokeRoute(authorities, claim)
  PROVE  /\ \A a \in DOMAIN uRegistry' : a \in DOMAIN uRegistry /\ uRegistry'[a] = uRegistry[a]
                                         /\ ~(a \in authorities /\ uRegistry[a].claim = claim)
         /\ uRegistry' = [a \in DOMAIN uRegistry' |->
              [claim |-> uRegistry'[a].claim, upstream |-> uRegistry'[a].upstream, enabled |-> uRegistry'[a].enabled]]
         /\ \A f \in uFlows' : f \in uFlows /\ f.claim # claim
         /\ UFlowsFollowTarget'
<1>1. uRegistry' = [a \in DOMAIN uRegistry \ URows(authorities, claim) |-> uRegistry[a]]
  BY DEF URevokeRoute
<1>2. \A f \in uFlows' : f \in uFlows /\ f.claim # claim
  BY DEF URevokeRoute, UDestroyClaim
<1>3. \A a \in DOMAIN uRegistry' : a \in DOMAIN uRegistry /\ uRegistry'[a] = uRegistry[a]
                                   /\ ~(a \in authorities /\ uRegistry[a].claim = claim)
  BY <1>1 DEF URows
<1>4. UFlowsFollowTarget'
  BY <1>1, <1>2 DEF UFlowsFollowTarget, URows
<1>5. \A a \in DOMAIN uRegistry :
        uRegistry[a] = [claim |-> uRegistry[a].claim, upstream |-> uRegistry[a].upstream, enabled |-> uRegistry[a].enabled]
  BY DEF UTyped
<1>6. uRegistry' = [a \in DOMAIN uRegistry' |-> uRegistry'[a]]
  BY <1>1
<1> QED
  BY <1>2, <1>3, <1>4, <1>5, <1>6

\* An entry that is served and not revoked stays, with its request, claim and policy:
\* what it owns and what it lets through stay.
UStays(x) ==
  /\ x \in DOMAIN uStored'
  /\ uStored'[x].request = uStored[x].request /\ uStored'[x].claim = uStored[x].claim
  /\ uStored'[x].policy = uStored[x].policy
  /\ uStored'[x].approval = uStored[x].approval \/ uStored'[x].approval = "approved"

\* Rows stay owned when the current entries stay.
LEMMA OwnersStay ==
  ASSUME NEW a, NEW claim, UNCHANGED uLive,
         \A x \in DOMAIN uStored :
           uStored[x].approval # "revoked" /\ UPolicyOf(uStored[x].request) = uStored[x].policy => UStays(x)
  PROVE  (UOwned(a, claim) => UOwned(a, claim)') /\ (UBacked(a, claim) => UBacked(a, claim)')
<1>1. ASSUME NEW x \in DOMAIN uStored, UStays(x)
      PROVE  UAuthoritiesOf(x)' = UAuthoritiesOf(x) /\ UPolicyOf(uStored[x].request)' = UPolicyOf(uStored[x].request)
  BY <1>1 DEF UStays, UAuthoritiesOf, UPolicyOf
<1>2. UOwned(a, claim) => UOwned(a, claim)'
  BY <1>1 DEF UOwned, UStays, UPolicyOf
<1>3. UBacked(a, claim) => UBacked(a, claim)'
  BY <1>1 DEF UBacked, UStays, UEnabled, UPolicyOf
<1> QED
  BY <1>2, <1>3

-----------------------------------------------------------------------------
\* Steps that change neither the store, the registry, the connections nor what is
\* served, by an operation that has taken nothing.

UHolding == {"store", "renew", "close"}

\* An operation that has taken nothing has nothing excepted.
LEMMA NothingTaken ==
  ASSUME uOp.stage \notin UHolding, NEW a, NEW claim
  PROVE  (UHeld(a, claim) => UOwned(a, claim)) /\ (ULet(a, claim) => UBacked(a, claim))
BY DEF UHolding, UHeld, ULet, UTakenNew, UTakenAnew, UMarked

\* An owned row is held and a backed one let through.
LEMMA OwnedIsHeld ==
  ASSUME NEW a, NEW claim
  PROVE  (UOwned(a, claim)' => UHeld(a, claim)') /\ (UBacked(a, claim)' => ULet(a, claim)')
BY DEF UHeld, ULet

\* The store changes at most by entries that are not current.
LEMMA RulesStay ==
  ASSUME UTyped, URowsOK, UFlowsOK, UFlowsFollowTarget, uOp.stage \notin UHolding,
         UNCHANGED <<uRegistry, uLive>>, uFlows' \subseteq uFlows,
         \A x \in DOMAIN uStored :
           uStored[x].approval # "revoked" /\ UPolicyOf(uStored[x].request) = uStored[x].policy => UStays(x)
  PROVE  URowsOK' /\ UFlowsOK' /\ UFlowsFollowTarget'
<1>1. ASSUME NEW a, NEW claim
      PROVE  (UHeld(a, claim) => UHeld(a, claim)') /\ (ULet(a, claim) => ULet(a, claim)')
  BY NothingTaken, OwnersStay, OwnedIsHeld
<1>2. \A a : ULiveRow(a)' <=> ULiveRow(a)
  BY DEF ULiveRow
<1>3. URowsOK'
  BY <1>1, <1>2 DEF URowsOK
<1>4. UFlowsOK'
  BY <1>1 DEF UFlowsOK
<1>5. UFlowsFollowTarget'
  BY DEF UFlowsFollowTarget
<1> QED
  BY <1>3, <1>4, <1>5

\* With the store unchanged every entry stays.
LEMMA StoreUnchanged ==
  ASSUME UTyped, UNCHANGED uStored, NEW x \in DOMAIN uStored
  PROVE  UStays(x)
BY DEF UStays

\* The operation is one that knows nothing of its URL but that it is there.
UOpPlain ==
  /\ uOp = [kind |-> uOp.kind, stage |-> uOp.stage, id |-> uOp.id, request |-> uOp.request,
            acquired |-> uOp.acquired, todo |-> uOp.todo]
  /\ uOp.stage \in {"none", "reconcile", "mark", "stop-caddy", "close-listener", "unconfigure",
                    "stale-caddy", "dns", "caddy", "routes"}
  /\ uOp.stage \in {"reconcile", "mark"} =>
       uOp.todo \subseteq DOMAIN uStored /\ uOp.id \in DOMAIN uStored /\ uOp.id \notin uOp.todo
  /\ uOp.stage \in {"stop-caddy", "close-listener", "unconfigure"} => uOp.request.ingress \in UIngresses

\* An operation that knows nothing of its URL satisfies UOpOK.
LEMMA PlainOp ==
  ASSUME UOpPlain'
  PROVE  UOpOK' /\ uOp'.stage \in UStages
BY DEF UOpPlain, UOpOK, UOnEntry, UStages

\* The idle operation is plain.
LEMMA IdleOp ==
  ASSUME uOp' = UIdle
  PROVE  UOpPlain' /\ uOp'.stage = "none"
BY DEF UIdle, UOpPlain

\* Taking the next URL of some of those stored.
LEMMA TakesPlain ==
  ASSUME NEW op, op = [kind |-> op.kind, stage |-> op.stage, id |-> op.id, request |-> op.request,
                       acquired |-> op.acquired, todo |-> op.todo],
         NEW stage \in {"reconcile", "mark"}, NEW ids, ids \subseteq DOMAIN uStored', UTakes(op, stage, ids)
  PROVE  UOpPlain'
<1>1. CASE ids = {}
  BY <1>1, IdleOp DEF UTakes
<1>2. CASE ids # {}
  <2>1. PICK x \in ids : uOp' = [op EXCEPT !.stage = stage, !.id = x, !.todo = ids \ {x}, !.acquired = FALSE]
    BY <1>2 DEF UTakes
  <2>2. uOp' = [kind |-> op.kind, stage |-> stage, id |-> x, request |-> op.request, acquired |-> FALSE,
                todo |-> ids \ {x}]
    BY <2>1
  <2> QED
    BY <2>2 DEF UOpPlain
<1> QED
  BY <1>1, <1>2

\* A step that leaves the operation idle, or goes on to the next URL.
LEMMA AdvancesPlain ==
  ASSUME UTyped, uOp.todo \subseteq DOMAIN uStored', UAdvances
  PROVE  UOpPlain' /\ (uPhase' = "down" => uPhase = "down")
<1>1. UOpPlain'
  BY TakesPlain DEF UAdvances, UTyped
<1> QED
  BY <1>1 DEF UAdvances

\* A failure ends a request; a start goes on to its next URL.
LEMMA FailsPlain ==
  ASSUME UTyped, uOp.todo \subseteq DOMAIN uStored', UFails
  PROVE  UOpPlain' /\ (uPhase' = "down" => uPhase = "down")
<1>1. CASE uOp.kind = "start"
  BY <1>1, AdvancesPlain DEF UFails
<1>2. CASE uOp.kind # "start"
  BY <1>2, IdleOp DEF UFails
<1> QED
  BY <1>1, <1>2

\* What counts and is served keeps its type.
LEMMA CountsStay ==
  ASSUME UTyped, NEW what \in {"ids", "starts", "edits", "moves", "faults"}, NEW most, UCounts(what, most)
  PROVE  /\ uCount' \in [ids : Nat, starts : Nat, edits : Nat, moves : Nat, faults : Nat]
         /\ uCount'.ids = IF what = "ids" THEN uCount.ids + 1 ELSE uCount.ids
BY DEF UTyped, UCounts

\* A fault is counted, and no id taken.
LEMMA FaultCounts ==
  ASSUME UTyped, UFault
  PROVE  /\ uCount' \in [ids : Nat, starts : Nat, edits : Nat, moves : Nat, faults : Nat]
         /\ uCount'.ids = uCount.ids
BY CountsStay DEF UFault

UCountKept ==
  /\ uCount' \in [ids : Nat, starts : Nat, edits : Nat, moves : Nat, faults : Nat]
  /\ uCount'.ids = uCount.ids \/ uCount'.ids = uCount.ids + 1

\* A step of the queue or of the host that changes only the operation, the counts,
\* the phase and what lies outside.
LEMMA QuietStep ==
  ASSUME UrlInv, uOp.stage \notin UHolding, UNCHANGED <<uStored, uRegistry, uFlows, uLive>>,
         uConfig' \in [UIngresses -> UPolicies \cup {0}], UOpOK', UCountKept,
         uOp' = [kind |-> uOp'.kind, stage |-> uOp'.stage, id |-> uOp'.id, request |-> uOp'.request,
                 acquired |-> uOp'.acquired, todo |-> uOp'.todo],
         uOp'.stage \in UStages, uPhase' # "down"
  PROVE  UrlInv'
<1>0. UTyped /\ UEntriesOK /\ UOpOK /\ UDarkOK /\ URowsOK /\ UFlowsOK /\ UFlowsFollowTarget
  BY DEF UrlInv
<1>1. UTyped'
  <2>1. DOMAIN uStored' \subseteq 1 .. uCount'.ids
    BY <1>0 DEF UTyped, UCountKept
  <2>2. uStored' \in [DOMAIN uStored' -> UEntryRow]
    BY <1>0 DEF UTyped
  <2> QED
    BY <1>0, <2>1, <2>2 DEF UTyped, UCountKept
<1>2. UEntriesOK'
  BY <1>0 DEF UEntriesOK
<1>3. UDarkOK'
  BY DEF UDarkOK
<1>4. URowsOK' /\ UFlowsOK' /\ UFlowsFollowTarget'
  BY <1>0, RulesStay, StoreUnchanged
<1> QED
  BY <1>1, <1>2, <1>3, <1>4 DEF UrlInv

\* A quiet step to an operation that knows only that its URL is there.
LEMMA PlainStep ==
  ASSUME UrlInv, uOp.stage \notin UHolding, UNCHANGED <<uStored, uRegistry, uFlows, uLive, uConfig>>,
         UOpPlain', UFault \/ UNCHANGED uCount, uPhase' # "down"
  PROVE  UrlInv'
<1>1. UTyped
  BY DEF UrlInv
<1>2. UCountKept
  BY <1>1, FaultCounts DEF UCountKept, UTyped
<1>3. uConfig' \in [UIngresses -> UPolicies \cup {0}]
  BY <1>1 DEF UTyped
<1>4. UOpOK' /\ uOp'.stage \in UStages
  BY PlainOp
<1> QED
  BY <1>2, <1>3, <1>4, QuietStep DEF UOpPlain

\* An operation that begins has no URL in hand and nothing acquired.
LEMMA BeginsPlain ==
  ASSUME NEW kind, NEW stage \in {"reconcile", "stale-caddy", "approve", "provision"}, NEW id, NEW r,
         UBegins(kind, stage, id, r)
  PROVE  uOp' = [kind |-> kind, stage |-> stage, id |-> id, request |-> r, acquired |-> FALSE, todo |-> {}]
BY DEF UBegins, UIdle

\* The record of an idle operation, field by field.
LEMMA IdleKind ==
  ASSUME NEW kind, NEW op, op = [UIdle EXCEPT !.kind = kind]
  PROVE  op = [kind |-> kind, stage |-> "none", id |-> 0, request |-> 0, acquired |-> FALSE, todo |-> {}]
BY DEF UIdle

\* create is queued.
LEMMA CreateKeeps ==
  ASSUME UrlInv, NEW r \in URequests, UCreate(r)
  PROVE  UrlInv'
<1>1. UTyped /\ uOp.stage = "none" /\ uPhase = "up" /\ UNCHANGED <<uStored, uRegistry, uFlows, uLive, uConfig, uPhase>>
  BY DEF UrlInv, UCreate, UServes, UAt, uRouteVars, uHostVars
<1>2. CASE UExisting(r) # {}
  <2>1. PICK x \in UExisting(r) : UBegins("create", "reconcile", x, r) /\ UNCHANGED uCount
    BY <1>2 DEF UCreate
  <2>2. uOp' = [kind |-> "create", stage |-> "reconcile", id |-> x, request |-> r, acquired |-> FALSE, todo |-> {}]
    BY <2>1, BeginsPlain
  <2>3. x \in DOMAIN uStored'
    BY <1>1 DEF UExisting
  <2>4. UOpPlain'
    BY <2>2, <2>3 DEF UOpPlain
  <2> QED
    BY <1>1, <2>1, <2>4, PlainStep DEF UHolding
<1>3. CASE UExisting(r) = {}
  <2>1. UCounts("ids", UMaxIds) /\ UBegins("create", "provision", uCount.ids + 1, r)
    BY <1>3 DEF UCreate
  <2>2. uOp' = [kind |-> "create", stage |-> "provision", id |-> uCount.ids + 1, request |-> r,
                acquired |-> FALSE, todo |-> {}]
    BY <2>1, BeginsPlain
  <2>3. uCount'.ids = uCount.ids + 1 /\ UCountKept
    BY <1>1, <2>1, CountsStay DEF UCountKept
  <2>4. uCount.ids + 1 \in (1 .. (uCount.ids + 1)) \ DOMAIN uStored'
    BY <1>1 DEF UTyped
  <2>5. UExisting(r)' = {} /\ UPolicyOf(r)' # 0
    BY <1>1, <1>3 DEF UExisting, UCreate, UValid, UPolicyOf
  <2>7. UOpOK' /\ uOp'.stage \in UStages
    BY <2>2, <2>3, <2>4, <2>5 DEF UOpOK, UOnEntry, UStages
  <2>8. uConfig' \in [UIngresses -> UPolicies \cup {0}]
    BY <1>1 DEF UTyped
  <2> QED
    BY <1>1, <2>2, <2>3, <2>7, <2>8, QuietStep DEF UHolding
<1> QED
  BY <1>2, <1>3

\* Listing, the start's restoration and the removals take up the URLs they are given.
LEMMA TakesKeep ==
  ASSUME UrlInv, NEW ids, UList(ids) \/ UInitialize(ids) \/ \E kind \in {"revoke", "delete", "delete-all"} : URevoke(kind, ids)
  PROVE  UrlInv'
<1>1. UTyped /\ UDarkOK
  BY DEF UrlInv
<1>2. /\ UNCHANGED <<uStored, uRegistry, uFlows, uLive, uConfig, uCount>> /\ ids \subseteq DOMAIN uStored'
      /\ uOp.stage \in {"none", "routes"} /\ uPhase' # "down"
  BY <1>1 DEF UList, UInitialize, URevoke, UDeduplicated, UServes, UAt, uRouteVars, uHostVars, UDarkOK
<1>3. PICK op : /\ op = [kind |-> op.kind, stage |-> op.stage, id |-> op.id, request |-> op.request,
                        acquired |-> op.acquired, todo |-> op.todo]
                /\ \E stage \in {"reconcile", "mark"} : UTakes(op, stage, ids)
  <2>1. ASSUME NEW kind, NEW op, op = [UIdle EXCEPT !.kind = kind],
               UTakes(op, "reconcile", ids) \/ UTakes(op, "mark", ids)
        PROVE  \E o : /\ o = [kind |-> o.kind, stage |-> o.stage, id |-> o.id, request |-> o.request,
                               acquired |-> o.acquired, todo |-> o.todo]
                       /\ \E stage \in {"reconcile", "mark"} : UTakes(o, stage, ids)
    <3>0. op = [kind |-> kind, stage |-> "none", id |-> 0, request |-> 0, acquired |-> FALSE, todo |-> {}]
      BY <2>1, IdleKind
    <3>1. op = [kind |-> op.kind, stage |-> op.stage, id |-> op.id, request |-> op.request,
                acquired |-> op.acquired, todo |-> op.todo]
      BY <3>0
    <3> QED
      BY <2>1, <3>1
  <2>2. CASE UList(ids)
    BY <2>1, <2>2 DEF UList
  <2>3. CASE UInitialize(ids)
    BY <1>1, <2>3 DEF UInitialize, UTyped
  <2>4. CASE \E kind \in {"revoke", "delete", "delete-all"} : URevoke(kind, ids)
    BY <2>1, <2>4 DEF URevoke
  <2> QED
    BY <2>2, <2>3, <2>4
<1>4. UOpPlain'
  BY <1>2, <1>3, TakesPlain
<1> QED
  BY <1>2, <1>4, PlainStep DEF UHolding

\* A stage that does not start or end work on the registry or the store.
LEMMA QuietKeep ==
  ASSUME UrlInv, UReconcileSkips \/ UReconcileFails \/ URebindFails \/ UProvisionFails \/ UMarkFails \/ UApproveFails
  PROVE  UrlInv'
<1>1. UTyped /\ UDarkOK /\ UOpOK
  BY DEF UrlInv
<1>2. /\ UNCHANGED <<uStored, uRegistry, uFlows, uLive, uConfig>> /\ (UFault \/ UNCHANGED uCount)
      /\ uOp.stage \in {"reconcile", "rebind", "provision", "mark", "remove", "approve"}
      /\ \/ uOp.stage \in {"reconcile", "rebind"} /\ (UAdvances \/ UFails)
         \/ uOp' = UIdle /\ UNCHANGED uPhase
  <2>1. CASE UReconcileSkips
    BY <2>1 DEF UReconcileSkips, UAt, uRouteVars
  <2>2. CASE UReconcileFails
    BY <2>2 DEF UReconcileFails, UAt, uRouteVars
  <2>3. CASE URebindFails
    BY <2>3 DEF URebindFails, UAt, uRouteVars
  <2>4. CASE UProvisionFails
    BY <2>4 DEF UProvisionFails, UAt, uRouteVars, uHostVars
  <2>5. CASE UMarkFails
    BY <2>5 DEF UMarkFails, UAt, uRouteVars, uHostVars
  <2>6. CASE UApproveFails
    BY <2>6 DEF UApproveFails, UAt, uRouteVars, uHostVars
  <2> QED
    BY <2>1, <2>2, <2>3, <2>4, <2>5, <2>6
<1>3. uPhase # "down"
  BY <1>1, <1>2 DEF UDarkOK, UAt
<1>4. UOpPlain' /\ uPhase' # "down"
  <2>1. CASE uOp' = UIdle /\ UNCHANGED uPhase
    BY <1>3, <2>1, IdleOp
  <2>2. CASE ~(uOp' = UIdle /\ UNCHANGED uPhase)
    <3>1. uOp.todo \subseteq DOMAIN uStored' /\ (UAdvances \/ UFails)
      BY <1>1, <1>2, <2>2 DEF UOpOK, UOnEntry
    <3> QED
      BY <1>1, <1>3, <3>1, AdvancesPlain, FailsPlain
  <2> QED
    BY <2>1, <2>2
<1> QED
  BY <1>2, <1>4, PlainStep DEF UHolding

-----------------------------------------------------------------------------
\* Writing to the store.

\* putEntry changes one entry, and not what makes entries consistent.
LEMMA PutEffect ==
  ASSUME UTyped, UEntriesOK, NEW x \in DOMAIN uStored, NEW entry \in UEntryRow, UPut(x, entry),
         entry.request = uStored[x].request, entry.claim = uStored[x].claim,
         entry.approval # "revoked" => uStored[x].approval # "revoked",
         entry.policy \in UGuarded => entry.approval # "not-required",
         uCount'.ids = uCount.ids
  PROVE  /\ DOMAIN uStored' = DOMAIN uStored /\ uStored' \in [DOMAIN uStored' -> UEntryRow]
         /\ uStored'[x] = entry /\ \A y \in DOMAIN uStored : y # x => uStored'[y] = uStored[y]
         /\ UEntriesOK' /\ DOMAIN uStored' \subseteq 1 .. uCount'.ids
<1>1. uStored' = [y \in DOMAIN uStored \cup {x} |-> IF y = x THEN entry ELSE uStored[y]]
  BY DEF UPut
<1>2. DOMAIN uStored' = DOMAIN uStored /\ uStored'[x] = entry
      /\ \A y \in DOMAIN uStored : y # x => uStored'[y] = uStored[y]
  BY <1>1
<1>3. uStored' \in [DOMAIN uStored' -> UEntryRow]
  BY <1>1, <1>2 DEF UTyped
<1>4. ASSUME NEW y \in DOMAIN uStored
      PROVE  /\ uStored'[y].request = uStored[y].request /\ uStored'[y].claim = uStored[y].claim
             /\ uStored'[y].approval # "revoked" => uStored[y].approval # "revoked"
             /\ uStored'[y].policy \in UGuarded => uStored'[y].approval # "not-required"
  BY <1>2 DEF UEntriesOK
<1>5. UEntriesOK'
  BY <1>2, <1>4 DEF UEntriesOK
<1> QED
  BY <1>2, <1>3, <1>5 DEF UTyped

\* The fields of an entry that is rewritten.
LEMMA EntryRewritten ==
  ASSUME UTyped, NEW x \in DOMAIN uStored, NEW approval \in UApprovals, NEW policy \in UPolicies
  PROVE  /\ [uStored[x] EXCEPT !.approval = approval] =
              [request |-> uStored[x].request, claim |-> uStored[x].claim, approval |-> approval, policy |-> uStored[x].policy]
         /\ [uStored[x] EXCEPT !.policy = policy] =
              [request |-> uStored[x].request, claim |-> uStored[x].claim, approval |-> uStored[x].approval, policy |-> policy]
         /\ [uStored[x] EXCEPT !.approval = approval] \in UEntryRow
         /\ [uStored[x] EXCEPT !.policy = policy] \in UEntryRow
<1>1. uStored[x] \in UEntryRow
  BY DEF UTyped
<1> QED
  BY <1>1 DEF UEntryRow

\* What is left to show once the parts that a step touches are shown.
LEMMA InvariantFrom ==
  ASSUME UrlInv, uStored' \in [DOMAIN uStored' -> UEntryRow], DOMAIN uStored' \subseteq 1 .. uCount'.ids,
         UEntriesOK', UNCHANGED <<uLive, uConfig>>, UOpOK', UCountKept,
         uRegistry' = [a \in DOMAIN uRegistry' |->
            [claim |-> uRegistry'[a].claim, upstream |-> uRegistry'[a].upstream, enabled |-> uRegistry'[a].enabled]],
         uOp' = [kind |-> uOp'.kind, stage |-> uOp'.stage, id |-> uOp'.id, request |-> uOp'.request,
                 acquired |-> uOp'.acquired, todo |-> uOp'.todo],
         uOp'.stage \in UStages, uPhase' # "down", URowsOK', UFlowsOK', UFlowsFollowTarget'
  PROVE  UrlInv'
<1>1. UTyped'
  BY DEF UTyped, UrlInv, UCountKept
<1> QED
  BY <1>1 DEF UrlInv, UDarkOK

\* The operation goes on to another stage, with what else it knows.
LEMMA GoesOn ==
  ASSUME UTyped, NEW stage, NEW acquired,
         uOp' = [uOp EXCEPT !.stage = stage] \/ uOp' = [uOp EXCEPT !.stage = stage, !.acquired = acquired]
  PROVE  /\ uOp' = [kind |-> uOp.kind, stage |-> stage, id |-> uOp.id, request |-> uOp.request,
                    acquired |-> uOp'.acquired, todo |-> uOp.todo]
         /\ uOp' = [kind |-> uOp'.kind, stage |-> uOp'.stage, id |-> uOp'.id, request |-> uOp'.request,
                    acquired |-> uOp'.acquired, todo |-> uOp'.todo]
         /\ uOp'.stage = stage /\ uOp'.id = uOp.id /\ uOp'.request = uOp.request /\ uOp'.todo = uOp.todo
         /\ uOp'.kind = uOp.kind
BY DEF UTyped

\* Startup applies today's policy to one stored URL.
LEMMA ReconcileKeeps ==
  ASSUME UrlInv, UReconcile
  PROVE  UrlInv'
<1>0. UTyped /\ UEntriesOK /\ UOpOK /\ UDarkOK /\ URowsOK /\ UFlowsOK /\ UFlowsFollowTarget
  BY DEF UrlInv
<1> DEFINE x == uOp.id
<1>1. uOp.stage = "reconcile" /\ uPhase # "down" /\ x \in DOMAIN uStored /\ x \notin uOp.todo /\ uOp.todo \subseteq DOMAIN uStored
  BY <1>0 DEF UReconcile, UAt, UOpOK, UOnEntry, UDarkOK
<1>2. UNCHANGED <<uRegistry, uFlows, uLive, uConfig, uPhase, uCount>>
  BY DEF UReconcile, uHostVars
<1>3. UPolicyOf(uStored[x].request) # 0 /\ uStored[x].approval # "revoked"
  BY DEF UReconcile, UReconcilable, UEntry
<1>4. /\ DOMAIN uStored' = DOMAIN uStored /\ uStored' \in [DOMAIN uStored' -> UEntryRow]
      /\ UEntriesOK' /\ DOMAIN uStored' \subseteq 1 .. uCount'.ids
      /\ uStored'[x].request = uStored[x].request /\ uStored'[x].approval # "revoked"
      /\ uStored'[x].policy = uStored[x].policy
      /\ uStored[x].policy # UPolicyOf(uStored[x].request) /\ UPolicyOf(uStored[x].request) \in UGuarded =>
           uStored'[x].approval = "pending"
      /\ \A y \in DOMAIN uStored :
           uStored[y].approval # "revoked" /\ UPolicyOf(uStored[y].request) = uStored[y].policy => UStays(y)
  <2>1. CASE UDrifted /\ UPolicyOf(uStored[x].request) \in UGuarded
    <3> DEFINE entry == [uStored[x] EXCEPT !.approval = "pending"]
    <3>1. UPut(x, entry)
      BY <2>1 DEF UReconcile, UEntry
    <3>p. "pending" \in UApprovals /\ uStored[x].policy \in UPolicies
      BY <1>0, <1>1 DEF UApprovals, UTyped, UEntryRow
    <3>e. entry \in UEntryRow
          /\ entry = [request |-> uStored[x].request, claim |-> uStored[x].claim, approval |-> "pending",
                      policy |-> uStored[x].policy]
      BY <1>0, <1>1, <3>p, EntryRewritten
    <3>2. entry \in UEntryRow /\ entry.request = uStored[x].request /\ entry.claim = uStored[x].claim
          /\ entry.approval = "pending" /\ entry.policy = uStored[x].policy
      BY <3>e
    <3> HIDE DEF entry, x
    <3>3. /\ DOMAIN uStored' = DOMAIN uStored /\ uStored' \in [DOMAIN uStored' -> UEntryRow]
          /\ uStored'[x] = entry /\ \A y \in DOMAIN uStored : y # x => uStored'[y] = uStored[y]
          /\ UEntriesOK' /\ DOMAIN uStored' \subseteq 1 .. uCount'.ids
      BY <1>0, <1>1, <1>2, <1>3, <3>1, <3>2, PutEffect
    <3>4. \A y \in DOMAIN uStored : UPolicyOf(uStored[y].request) = uStored[y].policy => UStays(y)
      BY <2>1, <3>3 DEF UStays, UDrifted, UEntry, x
    <3> QED
      BY <3>2, <3>3, <3>4
  <2>2. CASE ~(UDrifted /\ UPolicyOf(uStored[x].request) \in UGuarded)
    <3>1. UNCHANGED uStored
      BY <2>2 DEF UReconcile, UEntry
    <3>2. uStored[x].policy # UPolicyOf(uStored[x].request) => UPolicyOf(uStored[x].request) \notin UGuarded
      BY <2>2 DEF UDrifted, UEntry
    <3>3. UEntriesOK' /\ DOMAIN uStored' \subseteq 1 .. uCount'.ids /\ uStored' \in [DOMAIN uStored' -> UEntryRow]
      BY <1>0, <1>2, <3>1 DEF UEntriesOK, UTyped
    <3> QED
      BY <1>0, <1>3, <3>1, <3>2, <3>3, StoreUnchanged
  <2> QED
    BY <2>1, <2>2
<1>5. uOp'.stage = "rebind" /\ uOp'.id = x /\ uOp'.todo = uOp.todo
      /\ uOp' = [kind |-> uOp'.kind, stage |-> uOp'.stage, id |-> uOp'.id, request |-> uOp'.request,
                 acquired |-> uOp'.acquired, todo |-> uOp'.todo]
  BY <1>0, GoesOn DEF UReconcile, UGoes
<1> HIDE DEF x
<1>6. UOpOK' /\ uOp'.stage \in UStages
  BY <1>1, <1>2, <1>3, <1>4, <1>5 DEF UOpOK, UOnEntry, UStages, UEntry, UDrifted, UPolicyOf
<1>7. URowsOK' /\ UFlowsOK' /\ UFlowsFollowTarget'
  BY <1>0, <1>1, <1>2, <1>4, RulesStay DEF UHolding
<1>8. UCountKept
  BY <1>0, <1>2 DEF UTyped, UCountKept
<1>9. uRegistry' = [a \in DOMAIN uRegistry' |->
          [claim |-> uRegistry'[a].claim, upstream |-> uRegistry'[a].upstream, enabled |-> uRegistry'[a].enabled]]
  BY <1>0, <1>2 DEF UTyped
<1> QED
  BY <1>1, <1>2, <1>4, <1>5, <1>6, <1>7, <1>8, <1>9, InvariantFrom

-----------------------------------------------------------------------------
\* What a new or renewed route acquires.

\* A row of a served listener, with no operation holding anything, is owned.
LEMMA RowIsOwned ==
  ASSUME URowsOK, uOp.stage \notin UHolding, NEW r \in URequests, UPolicyOf(r) # 0, NEW id,
         NEW a \in UAuthorities(r, id, UPolicyOf(r)), a \in DOMAIN uRegistry
  PROVE  ULiveRow(a) /\ UOwned(a, uRegistry[a].claim)
<1>1. r.ingress \in UIngresses
  BY UrlAssumption DEF UIngresses
<1>2. UDocked(r.ingress, a)
  BY <1>1, AuthorityFacts
<1>3. ULiveRow(a)
  BY <1>1, <1>2 DEF ULiveRow, UPolicyOf
<1> QED
  BY <1>3, NothingTaken DEF URowsOK

\* The owner of an authority of a request serves the same listener; of a permalink,
\* it is the URL of that id.
LEMMA OwnerOf ==
  ASSUME UTyped, NEW r \in URequests, NEW id, NEW policy, NEW a \in UAuthorities(r, id, policy),
         NEW y \in DOMAIN uStored, a \in UAuthoritiesOf(y)
  PROVE  uStored[y].request.ingress = r.ingress /\ (a.kind = "permalink" => y = id)
<1>1. uStored[y].request \in URequests /\ uStored[y].request.ingress \in UIngresses
  BY ServedPolicy
<1>2. /\ \A i \in UIngresses : UDocked(i, a) <=> i = uStored[y].request.ingress
      /\ a.kind = "permalink" => a.name = y
  BY <1>1, AuthorityFacts DEF UAuthoritiesOf
<1>3. /\ \A i \in UIngresses : UDocked(i, a) <=> i = r.ingress
      /\ a.kind = "permalink" => a.name = id
  BY AuthorityFacts
<1> QED
  BY <1>1, <1>2, <1>3

\* A drifted URL has none of the authorities of the new policy yet, so rebinding it
\* always acquires one.
LEMMA DriftedAcquires ==
  ASSUME UrlInv, uOp.stage = "rebind", UDrifted, UUnclaimed(UWanted, UEntry.claim)
  PROVE  ~(UWanted \subseteq DOMAIN uRegistry)
<1>0. UTyped /\ UEntriesOK /\ UOpOK /\ URowsOK
  BY DEF UrlInv
<1> DEFINE x == uOp.id
<1>1. x \in DOMAIN uStored /\ uStored[x].approval # "revoked" /\ UPolicyOf(uStored[x].request) # 0
      /\ uStored[x].policy # UPolicyOf(uStored[x].request) /\ uOp.stage \notin UHolding
  BY <1>0 DEF UOpOK, UOnEntry, UEntry, UDrifted, UHolding
<1>2. uStored[x].request \in URequests /\ uStored[x].request.ingress \in UIngresses
  BY <1>0, <1>1, ServedPolicy
<1>3. UWanted = UAuthorities(uStored[x].request, x, UPolicyOf(uStored[x].request))
  BY DEF UWanted, UEntry
<1>4. UEntry.claim = uStored[x].claim
  BY DEF UEntry
<1> HIDE DEF x
<1> SUFFICES ASSUME UWanted \subseteq DOMAIN uRegistry PROVE FALSE
  OBVIOUS
<1>5. ASSUME NEW a \in UWanted
      PROVE  \E y \in DOMAIN uStored :
               /\ uStored[y].approval # "revoked" /\ uStored[y].claim = uStored[x].claim /\ y # x
               /\ uStored[y].request.ingress = uStored[x].request.ingress /\ (a.kind = "permalink" => y = x)
  <2>1. a \in DOMAIN uRegistry /\ uRegistry[a].claim = uStored[x].claim
    BY <1>4 DEF UUnclaimed
  <2>2. UOwned(a, uStored[x].claim)
    BY <1>0, <1>1, <1>2, <1>3, <1>5, <2>1, RowIsOwned
  <2>3. PICK y \in DOMAIN uStored :
          /\ uStored[y].approval # "revoked" /\ uStored[y].claim = uStored[x].claim /\ a \in UAuthoritiesOf(y)
          /\ UPolicyOf(uStored[y].request) = uStored[y].policy
    BY <2>2 DEF UOwned
  <2>4. y # x
    BY <1>1, <2>3
  <2>5. uStored[y].request.ingress = uStored[x].request.ingress /\ (a.kind = "permalink" => y = x)
    BY <1>0, <1>2, <1>3, <1>5, <2>3, OwnerOf
  <2> QED
    BY <2>3, <2>4, <2>5
<1>6. CASE uStored[x].request.ingress = UTcp
  <2>1. PICK a : a \in UWanted
    BY <1>3, <1>6 DEF UAuthorities
  <2> QED
    BY <1>0, <1>1, <1>5, <1>6, <2>1, TcpClaimsDiffer
<1>7. CASE uStored[x].request.ingress # UTcp
  <2> DEFINE a == [kind |-> "permalink", name |-> x, policy |-> UPolicyOf(uStored[x].request)]
  <2>1. a \in UWanted
    BY <1>3, <1>7 DEF UAuthorities
  <2>2. a.kind = "permalink"
    OBVIOUS
  <2> HIDE DEF a
  <2> QED
    BY <1>5, <2>1, <2>2
<1> QED
  BY <1>6, <1>7

\* A new URL has an authority nobody has: its permalink, or the listener itself,
\* since no URL of the same claim is stored.
LEMMA NewAcquires ==
  ASSUME UrlInv, uOp.stage = "provision", UUnclaimed(UNewAuthorities, UNewClaim)
  PROVE  ~(UNewAuthorities \subseteq DOMAIN uRegistry)
<1>0. UTyped /\ UEntriesOK /\ UOpOK /\ URowsOK
  BY DEF UrlInv
<1> DEFINE r == uOp.request
           id == uOp.id
<1>1. id \notin DOMAIN uStored /\ r \in URequests /\ UPolicyOf(r) # 0 /\ UExisting(r) = {}
      /\ uOp.stage \notin UHolding
  BY <1>0 DEF UOpOK, UHolding
<1>2. UNewAuthorities = UAuthorities(r, id, UPolicyOf(r)) /\ UNewClaim \in {UOwnClaim(id), URouteClaim(r)}
  BY DEF UNewAuthorities, UNewClaim, UClaimFor
<1> HIDE DEF r, id
<1> SUFFICES ASSUME UNewAuthorities \subseteq DOMAIN uRegistry PROVE FALSE
  OBVIOUS
<1>3. ASSUME NEW a \in UNewAuthorities
      PROVE  \E y \in DOMAIN uStored :
               /\ uStored[y].approval # "revoked" /\ uStored[y].claim = UNewClaim /\ y # id
               /\ uStored[y].request.ingress = r.ingress /\ (a.kind = "permalink" => y = id)
  <2>1. a \in DOMAIN uRegistry /\ uRegistry[a].claim = UNewClaim
    BY DEF UUnclaimed
  <2>2. UOwned(a, UNewClaim)
    BY <1>0, <1>1, <1>2, <1>3, <2>1, RowIsOwned
  <2>3. PICK y \in DOMAIN uStored :
          /\ uStored[y].approval # "revoked" /\ uStored[y].claim = UNewClaim /\ a \in UAuthoritiesOf(y)
    BY <2>2 DEF UOwned
  <2>4. uStored[y].request.ingress = r.ingress /\ (a.kind = "permalink" => y = id)
    BY <1>0, <1>1, <1>2, <1>3, <2>3, OwnerOf
  <2> QED
    BY <1>1, <2>3, <2>4
<1>4. CASE r.ingress = UTcp
  <2>1. PICK a : a \in UNewAuthorities
    BY <1>2, <1>4 DEF UAuthorities
  <2>2. PICK y \in DOMAIN uStored :
          /\ uStored[y].approval # "revoked" /\ uStored[y].claim = UNewClaim /\ y # id
          /\ uStored[y].request.ingress = UTcp
    BY <1>3, <1>4, <2>1
  <2>3. uStored[y].claim \in {UOwnClaim(y), URouteClaim(uStored[y].request)} /\ uStored[y].request \in URequests
    BY <1>0, ServedPolicy DEF UEntriesOK
  <2>4. UNewClaim = URouteClaim(r) /\ uStored[y].claim = URouteClaim(uStored[y].request)
    BY <1>2, <2>2, <2>3, ClaimFields
  <2>5. uStored[y].request = r
    BY <1>1, <1>4, <2>2, <2>3, <2>4, ClaimFields, UrlAssumption
  <2> QED
    BY <1>1, <2>2, <2>5 DEF UExisting
<1>5. CASE r.ingress # UTcp
  <2> DEFINE a == [kind |-> "permalink", name |-> id, policy |-> UPolicyOf(r)]
  <2>1. a \in UNewAuthorities
    BY <1>2, <1>5 DEF UAuthorities
  <2>2. a.kind = "permalink"
    OBVIOUS
  <2> HIDE DEF a
  <2> QED
    BY <1>3, <2>1, <2>2
<1> QED
  BY <1>4, <1>5

-----------------------------------------------------------------------------
\* How the rules survive each kind of write.

\* provisionPublic adds rows that are held, and touches no other row.
LEMMA ProvisionRules ==
  ASSUME UrlInv, uOp.stage \notin UHolding, UNCHANGED <<uStored, uLive>>,
         NEW authorities, NEW claim, NEW upstream, NEW enabled,
         UUnclaimed(authorities, claim), UProvisioned(authorities, claim, upstream, enabled),
         \A a \in authorities : UHeld(a, claim)' /\ (enabled => ULet(a, claim)')
  PROVE  /\ URowsOK' /\ UFlowsOK' /\ UFlowsFollowTarget'
         /\ uRegistry' = [a \in DOMAIN uRegistry' |->
              [claim |-> uRegistry'[a].claim, upstream |-> uRegistry'[a].upstream, enabled |-> uRegistry'[a].enabled]]
<1>0. UTyped /\ URowsOK /\ UFlowsOK /\ UFlowsFollowTarget
  BY DEF UrlInv
<1>1. ASSUME NEW a, NEW c
      PROVE  (UHeld(a, c) => UHeld(a, c)') /\ (ULet(a, c) => ULet(a, c)')
  BY <1>0, NothingTaken, OwnersStay, OwnedIsHeld, StoreUnchanged
<1>2. /\ DOMAIN uRegistry' = DOMAIN uRegistry \cup authorities
      /\ \A a \in authorities :
           uRegistry'[a] = [claim |-> claim, upstream |-> upstream, enabled |-> enabled]
      /\ \A a \in DOMAIN uRegistry : a \notin authorities => uRegistry'[a] = uRegistry[a]
      /\ uRegistry' = [a \in DOMAIN uRegistry' |->
           [claim |-> uRegistry'[a].claim, upstream |-> uRegistry'[a].upstream, enabled |-> uRegistry'[a].enabled]]
      /\ uFlows' \subseteq uFlows
      /\ UFlowsFollowTarget'
  <2>1. UTyped /\ UFlowsFollowTarget
    BY <1>0
  <2> QED
    BY <2>1, ProvisionedEffect
<1>3. URowsOK'
  <2> SUFFICES ASSUME NEW a \in DOMAIN uRegistry', ULiveRow(a)', NEW c, c = uRegistry'[a].claim
               PROVE  UHeld(a, c)' /\ (uRegistry'[a].enabled => ULet(a, c)')
    BY DEF URowsOK
  <2>1. CASE a \in authorities
    <3>1. c = claim /\ uRegistry'[a].enabled = enabled
      BY <1>2, <2>1
    <3> QED
      BY <2>1, <3>1
  <2>2. CASE a \notin authorities
    <3>1. a \in DOMAIN uRegistry /\ uRegistry'[a] = uRegistry[a]
      BY <1>2, <2>2
    <3>2. ULiveRow(a)
      BY <3>1 DEF ULiveRow
    <3>3. UHeld(a, c) /\ (uRegistry[a].enabled => ULet(a, c))
      BY <1>0, <3>1, <3>2 DEF URowsOK
    <3> QED
      BY <1>1, <3>1, <3>3
  <2> QED
    BY <2>1, <2>2
<1>4. UFlowsOK'
  BY <1>0, <1>1, <1>2 DEF UFlowsOK
<1> QED
  BY <1>2, <1>3, <1>4

\* Rows may go, stay, or be switched off.
LEMMA RemainderRules ==
  ASSUME UrlInv, UNCHANGED uLive,
         \A a \in DOMAIN uRegistry' :
           /\ a \in DOMAIN uRegistry /\ uRegistry'[a].claim = uRegistry[a].claim
           /\ uRegistry'[a].enabled => uRegistry[a].enabled
           /\ UHeld(a, uRegistry[a].claim) => \A c : c = uRegistry[a].claim => UHeld(a, c)'
           /\ ULet(a, uRegistry[a].claim) => \A c : c = uRegistry[a].claim => ULet(a, c)',
         \A f \in uFlows' : f \in uFlows /\ (ULet(f.authority, f.claim) => ULet(f.authority, f.claim)')
  PROVE  URowsOK' /\ UFlowsOK'
<1>0. URowsOK /\ UFlowsOK
  BY DEF UrlInv
<1>1. URowsOK'
  <2> SUFFICES ASSUME NEW a \in DOMAIN uRegistry', ULiveRow(a)', NEW c, c = uRegistry'[a].claim
               PROVE  UHeld(a, c)' /\ (uRegistry'[a].enabled => ULet(a, c)')
    BY DEF URowsOK
  <2>1. ULiveRow(a)
    BY DEF ULiveRow
  <2>2. UHeld(a, uRegistry[a].claim) /\ (uRegistry[a].enabled => ULet(a, uRegistry[a].claim))
    BY <1>0, <2>1 DEF URowsOK
  <2> QED
    BY <2>2
<1>2. UFlowsOK'
  BY <1>0 DEF UFlowsOK
<1> QED
  BY <1>1, <1>2

\* Giving back what an operation took, or closing what it marked.
LEMMA RevokeRules ==
  ASSUME UrlInv, UNCHANGED <<uStored, uLive>>, NEW authorities, NEW claim, URevokeRoute(authorities, claim),
         \A a, c : /\ UHeld(a, c) => UOwned(a, c) \/ (a \in authorities /\ c = claim)
                   /\ ULet(a, c) => UBacked(a, c) \/ (a \in authorities /\ c = claim)
  PROVE  /\ URowsOK' /\ UFlowsOK' /\ UFlowsFollowTarget'
         /\ uRegistry' = [a \in DOMAIN uRegistry' |->
              [claim |-> uRegistry'[a].claim, upstream |-> uRegistry'[a].upstream, enabled |-> uRegistry'[a].enabled]]
<1>0. UTyped /\ UFlowsFollowTarget
  BY DEF UrlInv
<1>1. ASSUME NEW a, NEW c, ~(a \in authorities /\ c = claim)
      PROVE  (UHeld(a, c) => UHeld(a, c)') /\ (ULet(a, c) => ULet(a, c)')
  <2>1. (UHeld(a, c) => UOwned(a, c)) /\ (ULet(a, c) => UBacked(a, c))
    BY <1>1
  <2>2. (UOwned(a, c) => UOwned(a, c)') /\ (UBacked(a, c) => UBacked(a, c)')
    BY <1>0, OwnersStay, StoreUnchanged
  <2>3. (UOwned(a, c)' => UHeld(a, c)') /\ (UBacked(a, c)' => ULet(a, c)')
    BY OwnedIsHeld
  <2> QED
    BY <2>1, <2>2, <2>3
<1>2. /\ \A a \in DOMAIN uRegistry' : a \in DOMAIN uRegistry /\ uRegistry'[a] = uRegistry[a]
                                      /\ ~(a \in authorities /\ uRegistry[a].claim = claim)
      /\ \A f \in uFlows' : f \in uFlows /\ f.claim # claim
      /\ UFlowsFollowTarget'
      /\ uRegistry' = [a \in DOMAIN uRegistry' |->
           [claim |-> uRegistry'[a].claim, upstream |-> uRegistry'[a].upstream, enabled |-> uRegistry'[a].enabled]]
  BY <1>0, RevokeEffect
<1>3. URowsOK' /\ UFlowsOK'
  BY <1>1, <1>2, RemainderRules
<1> QED
  BY <1>2, <1>3

\* The store is written: what was held or let through still is.
LEMMA StoreRules ==
  ASSUME UrlInv, UNCHANGED <<uRegistry, uFlows, uLive>>,
         \A a, c : (UHeld(a, c) => UHeld(a, c)') /\ (ULet(a, c) => ULet(a, c)')
  PROVE  /\ URowsOK' /\ UFlowsOK' /\ UFlowsFollowTarget'
         /\ uRegistry' = [a \in DOMAIN uRegistry' |->
              [claim |-> uRegistry'[a].claim, upstream |-> uRegistry'[a].upstream, enabled |-> uRegistry'[a].enabled]]
<1>1. URowsOK' /\ UFlowsOK'
  BY RemainderRules
<1>2. UFlowsFollowTarget'
  BY DEF UrlInv, UFlowsFollowTarget
<1> QED
  BY <1>1, <1>2 DEF UrlInv, UTyped

-----------------------------------------------------------------------------
\* reconcileStoredRoute takes the authorities and renews the policy.

\* Startup binds the routes of one stored URL again.
LEMMA RebindKeeps ==
  ASSUME UrlInv, URebind
  PROVE  UrlInv'
<1>0. UTyped /\ UEntriesOK /\ UOpOK /\ UDarkOK
  BY DEF UrlInv
<1>x. PICK x : x = uOp.id
  OBVIOUS
<1>1. /\ uOp.stage = "rebind" /\ uPhase # "down" /\ x \in DOMAIN uStored /\ x \notin uOp.todo
      /\ uOp.todo \subseteq DOMAIN uStored /\ uStored[x].approval # "revoked" /\ UPolicyOf(uStored[x].request) # 0
      /\ uStored[x].policy # UPolicyOf(uStored[x].request) /\ UPolicyOf(uStored[x].request) \in UGuarded =>
           uStored[x].approval = "pending"
  BY <1>0, <1>x DEF URebind, UAt, UOpOK, UOnEntry, UDarkOK, UEntry, UDrifted
<1>2. UNCHANGED <<uStored, uConfig, uLive, uCount>>
  BY DEF URebind
<1>3. UEntry = uStored[x] /\ UWanted = UAuthorities(uStored[x].request, x, UPolicyOf(uStored[x].request))
      /\ UAuthoritiesOf(x) = UAuthorities(uStored[x].request, x, uStored[x].policy)
      /\ UAuthoritiesOf(x)' = UAuthoritiesOf(x) /\ UPolicyOf(uStored[x].request)' = UPolicyOf(uStored[x].request)
  BY <1>x, <1>2 DEF UEntry, UWanted, UAuthoritiesOf, UPolicyOf
<1>e. uStored' \in [DOMAIN uStored' -> UEntryRow] /\ DOMAIN uStored' \subseteq 1 .. uCount'.ids /\ UEntriesOK'
      /\ UCountKept
  BY <1>0, <1>2 DEF UTyped, UEntriesOK, UCountKept
<1>f. UUnclaimed(UWanted, UEntry.claim)
      /\ UProvisioned(UWanted, UEntry.claim, UResolved(UEntry.request.target), UEnabled(UEntry.approval))
  BY DEF URebind
<1>h. uOp.stage \notin UHolding
  BY <1>1 DEF UHolding
<1>v. PICK wanted, claim, upstream, enabled :
        wanted = UWanted /\ claim = UEntry.claim /\ upstream = UResolved(UEntry.request.target)
        /\ enabled = UEnabled(UEntry.approval)
  OBVIOUS
<1>g. UUnclaimed(wanted, claim) /\ UProvisioned(wanted, claim, upstream, enabled)
  BY <1>f, <1>v
<1>4. CASE UDrifted
  <2>1. uOp' = [uOp EXCEPT !.stage = "renew", !.acquired = ~(UWanted \subseteq DOMAIN uRegistry)] /\ UNCHANGED uPhase
    BY <1>4 DEF URebind
  <2>2. ~(UWanted \subseteq DOMAIN uRegistry)
    BY <1>1, <1>4, <1>f, DriftedAcquires
  <2>3. uOp' = [uOp EXCEPT !.stage = "renew", !.acquired = TRUE]
    BY <2>1, <2>2
  <2>4. /\ uOp' = [kind |-> uOp'.kind, stage |-> uOp'.stage, id |-> uOp'.id, request |-> uOp'.request,
                   acquired |-> uOp'.acquired, todo |-> uOp'.todo]
        /\ uOp'.stage = "renew" /\ uOp'.id = x /\ uOp'.todo = uOp.todo
    BY <1>0, <1>x, <2>3, GoesOn
  <2>5. uOp'.acquired
    BY <1>0, <2>3 DEF UTyped
  <2>6. UEntry' = UEntry /\ UWanted' = UWanted
    BY <1>x, <1>2, <2>4 DEF UEntry, UWanted, UPolicyOf
  <2>7. UOpOK' /\ uOp'.stage \in UStages
    BY <1>x, <1>1, <1>2, <1>3, <1>4, <2>4, <2>5 DEF UOpOK, UOnEntry, UStages, UEntry, UDrifted, UPolicyOf
  <2>8. \A a \in wanted : UHeld(a, claim)' /\ (enabled => ULet(a, claim)')
    BY <1>v, <2>4, <2>6 DEF UHeld, ULet, UTakenAnew
  <2>9. /\ URowsOK' /\ UFlowsOK' /\ UFlowsFollowTarget'
        /\ uRegistry' = [a \in DOMAIN uRegistry' |->
             [claim |-> uRegistry'[a].claim, upstream |-> uRegistry'[a].upstream, enabled |-> uRegistry'[a].enabled]]
    BY <1>2, <1>h, <1>g, <2>8, ProvisionRules
  <2> QED
    BY <1>1, <1>2, <1>e, <2>1, <2>4, <2>7, <2>9, InvariantFrom
<1>5. CASE ~UDrifted
  <2>1. UAdvances
    BY <1>5 DEF URebind
  <2>2. UOpPlain' /\ uPhase' # "down"
    BY <1>0, <1>x, <1>1, <1>2, <2>1, AdvancesPlain
  <2>3. uStored[x].policy = UPolicyOf(uStored[x].request) /\ UWanted = UAuthoritiesOf(x)
    BY <1>3, <1>5 DEF UDrifted
  <2>4. uStored[x].approval \in UApprovals
    BY <1>0, <1>1 DEF UTyped, UEntryRow
  <2>5. ASSUME NEW a \in wanted
        PROVE  UOwned(a, claim)' /\ (enabled => UBacked(a, claim)')
    <3>0. claim = uStored[x].claim /\ enabled = UEnabled(uStored[x].approval)
      BY <1>3, <1>v
    <3>1. a \in UAuthoritiesOf(x)' /\ x \in DOMAIN uStored' /\ UPolicyOf(uStored[x].request)' = uStored'[x].policy
      BY <1>1, <1>2, <1>3, <1>v, <2>3
    <3>2. UOwned(a, claim)'
      BY <1>1, <1>2, <3>0, <3>1 DEF UOwned
    <3>3. enabled => UBacked(a, claim)'
      BY <1>0, <1>1, <1>2, <2>4, <3>0, <3>1 DEF UBacked, UEnabled, UEntriesOK
    <3> QED
      BY <3>2, <3>3
  <2>6. \A a \in wanted : UHeld(a, claim)' /\ (enabled => ULet(a, claim)')
    BY <2>5, OwnedIsHeld
  <2>7. /\ URowsOK' /\ UFlowsOK' /\ UFlowsFollowTarget'
        /\ uRegistry' = [a \in DOMAIN uRegistry' |->
             [claim |-> uRegistry'[a].claim, upstream |-> uRegistry'[a].upstream, enabled |-> uRegistry'[a].enabled]]
    BY <1>2, <1>h, <1>g, <2>6, ProvisionRules
  <2> QED
    BY <1>2, <1>e, <2>2, <2>7, PlainOp, InvariantFrom DEF UOpPlain
<1> QED
  BY <1>4, <1>5

\* What the step that stores a renewed policy, or gives up, starts from.
LEMMA RenewFacts ==
  ASSUME UrlInv, uOp.stage = "renew", NEW x, x = uOp.id
  PROVE  /\ x \in DOMAIN uStored /\ x \notin uOp.todo /\ uOp.todo \subseteq DOMAIN uStored /\ uPhase # "down"
         /\ uStored[x] \in UEntryRow /\ uStored[x].approval # "revoked" /\ UEntry = uStored[x]
         /\ UPolicyOf(uStored[x].request) \in UPolicies /\ uStored[x].policy # UPolicyOf(uStored[x].request)
         /\ UPolicyOf(uStored[x].request) \in UGuarded => uStored[x].approval = "pending"
         /\ uOp.acquired
         /\ UWanted = UAuthorities(uStored[x].request, x, UPolicyOf(uStored[x].request))
         /\ \A a, c : /\ UHeld(a, c) => UOwned(a, c) \/ (a \in UWanted /\ c = uStored[x].claim)
                      /\ ULet(a, c) => UBacked(a, c)
                                       \/ (a \in UWanted /\ c = uStored[x].claim /\ UEnabled(uStored[x].approval))
<1>0. UTyped /\ UOpOK /\ UDarkOK
  BY DEF UrlInv
<1>1. /\ x \in DOMAIN uStored /\ x \notin uOp.todo /\ uOp.todo \subseteq DOMAIN uStored /\ uPhase # "down"
      /\ uStored[x].approval # "revoked" /\ UEntry = uStored[x] /\ uOp.acquired
      /\ UPolicyOf(uStored[x].request) # 0 /\ uStored[x].policy # UPolicyOf(uStored[x].request)
      /\ UPolicyOf(uStored[x].request) \in UGuarded => uStored[x].approval = "pending"
  BY <1>0 DEF UOpOK, UDarkOK, UOnEntry, UEntry, UDrifted, UAt
<1>2. uStored[x] \in UEntryRow /\ uStored[x].request.ingress \in UIngresses
  BY <1>0, <1>1, ServedPolicy
<1>3. UPolicyOf(uStored[x].request) \in UPolicies
  BY <1>0, <1>1, <1>2 DEF UTyped, UPolicyOf
<1>4. UWanted = UAuthorities(uStored[x].request, x, UPolicyOf(uStored[x].request))
  BY <1>1 DEF UWanted
<1>5. \A a, c : /\ UHeld(a, c) => UOwned(a, c) \/ (a \in UWanted /\ c = uStored[x].claim)
                /\ ULet(a, c) => UBacked(a, c)
                                 \/ (a \in UWanted /\ c = uStored[x].claim /\ UEnabled(uStored[x].approval))
  BY <1>1 DEF UHeld, ULet, UTakenNew, UTakenAnew, UMarked
<1> QED
  BY <1>1, <1>2, <1>3, <1>4, <1>5

\* The write after a rebind succeeds.
LEMMA RenewKeeps ==
  ASSUME UrlInv, URenew
  PROVE  UrlInv'
<1>0. UTyped /\ UEntriesOK /\ UOpOK
  BY DEF UrlInv
<1>x. PICK x : x = uOp.id
  OBVIOUS
<1>1. uOp.stage = "renew" /\ UNCHANGED <<uRegistry, uFlows, uConfig, uLive, uCount>> /\ UAdvances
  BY DEF URenew, UAt
<1>2. /\ x \in DOMAIN uStored /\ x \notin uOp.todo /\ uOp.todo \subseteq DOMAIN uStored /\ uPhase # "down"
      /\ uStored[x] \in UEntryRow /\ uStored[x].approval # "revoked" /\ UEntry = uStored[x]
      /\ UPolicyOf(uStored[x].request) \in UPolicies /\ uStored[x].policy # UPolicyOf(uStored[x].request)
      /\ UPolicyOf(uStored[x].request) \in UGuarded => uStored[x].approval = "pending"
      /\ UWanted = UAuthorities(uStored[x].request, x, UPolicyOf(uStored[x].request))
  BY <1>x, <1>1, RenewFacts
<1>3. PICK policy : policy = UPolicyOf(uStored[x].request)
  OBVIOUS
<1> DEFINE entry == [uStored[x] EXCEPT !.policy = policy]
<1>4. UPut(x, entry)
  BY <1>x, <1>2, <1>3 DEF URenew
<1>5. entry \in UEntryRow /\ entry.request = uStored[x].request /\ entry.claim = uStored[x].claim
      /\ entry.approval = uStored[x].approval /\ entry.policy = policy
  BY <1>2, <1>3 DEF UEntryRow
<1> HIDE DEF entry
<1>6. /\ DOMAIN uStored' = DOMAIN uStored /\ uStored' \in [DOMAIN uStored' -> UEntryRow]
      /\ uStored'[x] = entry /\ \A y \in DOMAIN uStored : y # x => uStored'[y] = uStored[y]
      /\ UEntriesOK' /\ DOMAIN uStored' \subseteq 1 .. uCount'.ids
  <2>1. /\ entry.approval # "revoked" => uStored[x].approval # "revoked"
        /\ entry.policy \in UGuarded => entry.approval # "not-required"
        /\ uCount'.ids = uCount.ids
    BY <1>1, <1>2, <1>3, <1>5
  <2> QED
    BY <1>0, <1>2, <1>4, <1>5, <2>1, PutEffect
<1>7. UOpPlain' /\ uPhase' # "down"
  BY <1>0, <1>1, <1>2, <1>6, AdvancesPlain
<1>8. \A y \in DOMAIN uStored :
        uStored[y].approval # "revoked" /\ UPolicyOf(uStored[y].request) = uStored[y].policy => UStays(y)
  BY <1>2, <1>6 DEF UStays
<1>9. ASSUME NEW a \in UWanted, NEW c, c = uStored[x].claim
      PROVE  UOwned(a, c)' /\ (UEnabled(uStored[x].approval) => UBacked(a, c)')
  <2>1. a \in UAuthoritiesOf(x)'
    BY <1>2, <1>3, <1>5, <1>6 DEF UAuthoritiesOf
  <2>2. UPolicyOf(uStored[x].request)' = uStored'[x].policy /\ x \in DOMAIN uStored'
        /\ uStored'[x].claim = c /\ uStored'[x].approval = uStored[x].approval
    BY <1>1, <1>2, <1>3, <1>5, <1>6, <1>9 DEF UPolicyOf
  <2>3. UOwned(a, c)'
    BY <1>2, <2>1, <2>2 DEF UOwned
  <2>4. UEnabled(uStored[x].approval) => UBacked(a, c)'
    BY <1>2, <1>3, <1>5, <1>6, <2>1, <2>2 DEF UBacked, UEnabled
  <2> QED
    BY <2>3, <2>4
<1>10. \A a, c : (UHeld(a, c) => UHeld(a, c)') /\ (ULet(a, c) => ULet(a, c)')
  <2> SUFFICES ASSUME NEW a, NEW c
               PROVE  (UHeld(a, c) => UHeld(a, c)') /\ (ULet(a, c) => ULet(a, c)')
    OBVIOUS
  <2>1. /\ UHeld(a, c) => UOwned(a, c) \/ (a \in UWanted /\ c = uStored[x].claim)
        /\ ULet(a, c) => UBacked(a, c)
                         \/ (a \in UWanted /\ c = uStored[x].claim /\ UEnabled(uStored[x].approval))
    BY <1>x, <1>1, RenewFacts
  <2>2. (UOwned(a, c) => UOwned(a, c)') /\ (UBacked(a, c) => UBacked(a, c)')
    BY <1>1, <1>8, OwnersStay
  <2>3. (UOwned(a, c)' => UHeld(a, c)') /\ (UBacked(a, c)' => ULet(a, c)')
    BY OwnedIsHeld
  <2> QED
    BY <1>9, <2>1, <2>2, <2>3
<1>11. /\ URowsOK' /\ UFlowsOK' /\ UFlowsFollowTarget'
       /\ uRegistry' = [a \in DOMAIN uRegistry' |->
            [claim |-> uRegistry'[a].claim, upstream |-> uRegistry'[a].upstream, enabled |-> uRegistry'[a].enabled]]
  BY <1>1, <1>10, StoreRules
<1>12. UCountKept
  BY <1>0, <1>1 DEF UTyped, UCountKept
<1> QED
  BY <1>1, <1>6, <1>7, <1>11, <1>12, PlainOp, InvariantFrom DEF UOpPlain

\* The write after a rebind fails, and the rows acquired for it go.
LEMMA RenewFailsKeeps ==
  ASSUME UrlInv, URenewFails
  PROVE  UrlInv'
<1>0. UTyped /\ UEntriesOK
  BY DEF UrlInv
<1>x. PICK x, wanted, claim : x = uOp.id /\ wanted = UWanted /\ claim = uStored[x].claim
  OBVIOUS
<1>1. uOp.stage = "renew" /\ UNCHANGED <<uStored, uConfig, uLive>> /\ UFails /\ UFault
  BY DEF URenewFails, UAt
<1>2. /\ uOp.todo \subseteq DOMAIN uStored' /\ uPhase # "down" /\ UEntry = uStored[x] /\ uOp.acquired
      /\ \A a, c : /\ UHeld(a, c) => UOwned(a, c) \/ (a \in wanted /\ c = claim)
                   /\ ULet(a, c) => UBacked(a, c) \/ (a \in wanted /\ c = claim)
  BY <1>x, <1>1, RenewFacts
<1>3. URevokeRoute(wanted, claim)
  BY <1>x, <1>2 DEF URenewFails
<1>4. /\ URowsOK' /\ UFlowsOK' /\ UFlowsFollowTarget'
      /\ uRegistry' = [a \in DOMAIN uRegistry' |->
           [claim |-> uRegistry'[a].claim, upstream |-> uRegistry'[a].upstream, enabled |-> uRegistry'[a].enabled]]
  BY <1>1, <1>2, <1>3, RevokeRules
<1>5. UOpPlain' /\ uPhase' # "down"
  BY <1>0, <1>1, <1>2, FailsPlain
<1>6. UCountKept
  BY <1>0, <1>1, FaultCounts DEF UCountKept
<1>7. uStored' \in [DOMAIN uStored' -> UEntryRow] /\ DOMAIN uStored' \subseteq 1 .. uCount'.ids /\ UEntriesOK'
  BY <1>0, <1>1, FaultCounts DEF UTyped, UEntriesOK
<1> QED
  BY <1>1, <1>4, <1>5, <1>6, <1>7, PlainOp, InvariantFrom DEF UOpPlain

-----------------------------------------------------------------------------
\* createUrl.

\* The routes of a new URL are provisioned.
LEMMA ProvisionKeeps ==
  ASSUME UrlInv, UProvision
  PROVE  UrlInv'
<1>0. UTyped /\ UEntriesOK /\ UOpOK /\ UDarkOK
  BY DEF UrlInv
<1>1. /\ uOp.stage = "provision" /\ UNCHANGED <<uStored, uConfig, uLive, uPhase, uCount>>
      /\ uOp.stage \notin UHolding /\ uPhase # "down"
  BY <1>0 DEF UProvision, UAt, uHostVars, UHolding, UDarkOK
<1>2. PICK wanted, claim, upstream, enabled :
        wanted = UNewAuthorities /\ claim = UNewClaim /\ upstream = UResolved(uOp.request.target)
        /\ enabled = UEnabled(UApprovalFor(uOp.request))
  OBVIOUS
<1>3. UUnclaimed(wanted, claim) /\ UProvisioned(wanted, claim, upstream, enabled)
      /\ uOp' = [uOp EXCEPT !.stage = "store", !.acquired = ~(UNewAuthorities \subseteq DOMAIN uRegistry)]
  BY <1>2 DEF UProvision
<1>4. ~(UNewAuthorities \subseteq DOMAIN uRegistry)
  BY <1>1, <1>2, <1>3, NewAcquires
<1>5. uOp' = [uOp EXCEPT !.stage = "store", !.acquired = TRUE]
  BY <1>3, <1>4
<1>6. /\ uOp' = [kind |-> uOp'.kind, stage |-> uOp'.stage, id |-> uOp'.id, request |-> uOp'.request,
                 acquired |-> uOp'.acquired, todo |-> uOp'.todo]
      /\ uOp'.stage = "store" /\ uOp'.id = uOp.id /\ uOp'.request = uOp.request
  BY <1>0, <1>5, GoesOn
<1>7. uOp'.acquired
  BY <1>0, <1>5 DEF UTyped
<1>8. /\ UNewAuthorities' = wanted /\ UNewClaim' = claim
      /\ UPolicyOf(uOp.request)' = UPolicyOf(uOp.request) /\ UExisting(uOp.request)' = UExisting(uOp.request)
  BY <1>1, <1>2, <1>6 DEF UNewAuthorities, UNewClaim, UClaimFor, UPolicyOf, UExisting
<1>9. UOpOK' /\ uOp'.stage \in UStages
  BY <1>0, <1>1, <1>6, <1>7, <1>8 DEF UOpOK, UOnEntry, UStages
<1>10. \A a \in wanted : UHeld(a, claim)' /\ (enabled => ULet(a, claim)')
  <2>1. enabled => UPolicyOf(uOp.request) \notin UGuarded
    BY <1>2 DEF UApprovalFor, UEnabled
  <2> QED
    BY <1>6, <1>8, <2>1 DEF UHeld, ULet, UTakenNew
<1>11. /\ URowsOK' /\ UFlowsOK' /\ UFlowsFollowTarget'
       /\ uRegistry' = [a \in DOMAIN uRegistry' |->
            [claim |-> uRegistry'[a].claim, upstream |-> uRegistry'[a].upstream, enabled |-> uRegistry'[a].enabled]]
  BY <1>1, <1>3, <1>10, ProvisionRules
<1>12. uStored' \in [DOMAIN uStored' -> UEntryRow] /\ DOMAIN uStored' \subseteq 1 .. uCount'.ids /\ UEntriesOK'
       /\ UCountKept
  BY <1>0, <1>1 DEF UTyped, UEntriesOK, UCountKept
<1> QED
  BY <1>1, <1>6, <1>9, <1>11, <1>12, InvariantFrom

\* What storing a new URL, or giving it up, starts from.
LEMMA StoreFacts ==
  ASSUME UrlInv, uOp.stage = "store"
  PROVE  /\ uPhase # "down" /\ uOp.acquired
         /\ uOp.id \in (1 .. uCount.ids) \ DOMAIN uStored
         /\ uOp.request \in URequests /\ UPolicyOf(uOp.request) \in UPolicies /\ UExisting(uOp.request) = {}
         /\ \A a, c : /\ UHeld(a, c) => UOwned(a, c) \/ (a \in UNewAuthorities /\ c = UNewClaim)
                      /\ ULet(a, c) => UBacked(a, c) \/ (a \in UNewAuthorities /\ c = UNewClaim
                                                         /\ UPolicyOf(uOp.request) \notin UGuarded)
<1>0. UTyped /\ UOpOK /\ UDarkOK
  BY DEF UrlInv
<1>1. /\ uPhase # "down" /\ uOp.acquired
      /\ uOp.id \in (1 .. uCount.ids) \ DOMAIN uStored
      /\ uOp.request \in URequests /\ UPolicyOf(uOp.request) # 0 /\ UExisting(uOp.request) = {}
  BY <1>0 DEF UOpOK, UDarkOK, UAt
<1>2. UPolicyOf(uOp.request) \in UPolicies
  BY <1>0, <1>1, UrlAssumption DEF UTyped, UPolicyOf, UIngresses
<1>3. \A a, c : /\ UHeld(a, c) => UOwned(a, c) \/ (a \in UNewAuthorities /\ c = UNewClaim)
                /\ ULet(a, c) => UBacked(a, c) \/ (a \in UNewAuthorities /\ c = UNewClaim
                                                   /\ UPolicyOf(uOp.request) \notin UGuarded)
  BY DEF UHeld, ULet, UTakenNew, UTakenAnew, UMarked
<1> QED
  BY <1>1, <1>2, <1>3

\* The new URL is written.
LEMMA StoreKeeps ==
  ASSUME UrlInv, UStore
  PROVE  UrlInv'
<1>0. UTyped /\ UEntriesOK
  BY DEF UrlInv
<1>1. uOp.stage = "store" /\ UNCHANGED <<uRegistry, uFlows, uConfig, uLive, uPhase, uCount>> /\ uOp' = UIdle
  BY DEF UStore, UAt, uHostVars
<1>x. PICK x, r, wanted, claim, policy, approval :
        x = uOp.id /\ r = uOp.request /\ wanted = UNewAuthorities /\ claim = UNewClaim
        /\ policy = UPolicyOf(uOp.request) /\ approval = UApprovalFor(uOp.request)
  OBVIOUS
<1>2. /\ uPhase # "down" /\ x \in (1 .. uCount.ids) \ DOMAIN uStored
      /\ r \in URequests /\ policy \in UPolicies /\ UExisting(r) = {}
      /\ \A a, c : /\ UHeld(a, c) => UOwned(a, c) \/ (a \in wanted /\ c = claim)
                   /\ ULet(a, c) => UBacked(a, c) \/ (a \in wanted /\ c = claim /\ policy \notin UGuarded)
  BY <1>x, <1>1, StoreFacts
<1> DEFINE entry == [request |-> r, claim |-> claim, approval |-> approval, policy |-> policy]
<1>3. uStored' = [y \in DOMAIN uStored \cup {x} |-> IF y = x THEN entry ELSE uStored[y]]
  BY <1>x DEF UStore, UPut
<1>4. /\ claim \in {UOwnClaim(x), URouteClaim(r)} /\ approval = IF policy \in UGuarded THEN "pending" ELSE "not-required"
      /\ wanted = UAuthorities(r, x, policy)
  BY <1>x DEF UNewClaim, UClaimFor, UApprovalFor, UNewAuthorities
<1>5. entry \in UEntryRow
  BY <1>2, <1>4 DEF UEntryRow, UClaims, UApprovals
<1>6. entry.request = r /\ entry.claim = claim /\ entry.approval = approval /\ entry.policy = policy
  OBVIOUS
<1> HIDE DEF entry
<1>7. /\ DOMAIN uStored' = DOMAIN uStored \cup {x} /\ uStored'[x] = entry
      /\ \A y \in DOMAIN uStored : uStored'[y] = uStored[y]
  BY <1>2, <1>3
<1>8. uStored' \in [DOMAIN uStored' -> UEntryRow]
  BY <1>0, <1>3, <1>5, <1>7 DEF UTyped
<1>9. DOMAIN uStored' \subseteq 1 .. uCount'.ids
  BY <1>0, <1>1, <1>2, <1>7 DEF UTyped
<1>10. UEntriesOK'
  <2>1. \A y \in DOMAIN uStored' :
          /\ uStored'[y].claim \in {UOwnClaim(y), URouteClaim(uStored'[y].request)}
          /\ uStored'[y].policy \in UGuarded => uStored'[y].approval # "not-required"
    BY <1>0, <1>4, <1>6, <1>7 DEF UEntriesOK
  <2>2. \A y \in DOMAIN uStored : uStored[y].approval # "revoked" => uStored[y].request # r
    BY <1>2 DEF UExisting
  <2>3. \A y, z \in DOMAIN uStored' :
          uStored'[y].approval # "revoked" /\ uStored'[z].approval # "revoked"
          /\ uStored'[y].request = uStored'[z].request => y = z
    BY <1>0, <1>6, <1>7, <2>2 DEF UEntriesOK
  <2> QED
    BY <2>1, <2>3 DEF UEntriesOK
<1>11. ASSUME NEW a \in wanted
       PROVE  UOwned(a, claim)' /\ (policy \notin UGuarded => UBacked(a, claim)')
  <2>1. a \in UAuthoritiesOf(x)' /\ x \in DOMAIN uStored' /\ UPolicyOf(r)' = policy
    BY <1>x, <1>1, <1>4, <1>6, <1>7 DEF UAuthoritiesOf, UPolicyOf
  <2>2. UPolicyOf(uStored[x].request)' = uStored'[x].policy
    BY <1>6, <1>7, <2>1 DEF UPolicyOf
  <2>3. UOwned(a, claim)'
    BY <1>4, <1>6, <1>7, <2>1, <2>2 DEF UOwned
  <2>4. policy \notin UGuarded => UBacked(a, claim)'
    BY <1>4, <1>6, <1>7, <2>1, <2>2 DEF UBacked, UEnabled
  <2> QED
    BY <2>3, <2>4
<1>12. \A a, c : (UHeld(a, c) => UHeld(a, c)') /\ (ULet(a, c) => ULet(a, c)')
  <2> SUFFICES ASSUME NEW a, NEW c
               PROVE  (UHeld(a, c) => UHeld(a, c)') /\ (ULet(a, c) => ULet(a, c)')
    OBVIOUS
  <2>1. \A y \in DOMAIN uStored : UStays(y)
    BY <1>7 DEF UStays
  <2>2. (UOwned(a, c) => UOwned(a, c)') /\ (UBacked(a, c) => UBacked(a, c)')
    BY <1>1, <2>1, OwnersStay
  <2>3. (UOwned(a, c)' => UHeld(a, c)') /\ (UBacked(a, c)' => ULet(a, c)')
    BY OwnedIsHeld
  <2> QED
    BY <1>2, <1>11, <2>2, <2>3
<1>13. /\ URowsOK' /\ UFlowsOK' /\ UFlowsFollowTarget'
       /\ uRegistry' = [a \in DOMAIN uRegistry' |->
            [claim |-> uRegistry'[a].claim, upstream |-> uRegistry'[a].upstream, enabled |-> uRegistry'[a].enabled]]
  BY <1>1, <1>12, StoreRules
<1>14. UCountKept
  BY <1>0, <1>1 DEF UTyped, UCountKept
<1>15. UOpPlain'
  BY <1>1, IdleOp
<1> QED
  BY <1>1, <1>2, <1>8, <1>9, <1>10, <1>13, <1>14, <1>15, PlainOp, InvariantFrom DEF UOpPlain

\* The new URL is not written, and the rows acquired for it go.
LEMMA StoreFailsKeeps ==
  ASSUME UrlInv, UStoreFails
  PROVE  UrlInv'
<1>0. UTyped /\ UEntriesOK
  BY DEF UrlInv
<1>x. PICK wanted, claim : wanted = UNewAuthorities /\ claim = UNewClaim
  OBVIOUS
<1>1. uOp.stage = "store" /\ UNCHANGED <<uStored, uConfig, uLive, uPhase>> /\ uOp' = UIdle /\ UFault
  BY DEF UStoreFails, UAt, uHostVars
<1>2. /\ uPhase # "down" /\ uOp.acquired
      /\ \A a, c : /\ UHeld(a, c) => UOwned(a, c) \/ (a \in wanted /\ c = claim)
                   /\ ULet(a, c) => UBacked(a, c) \/ (a \in wanted /\ c = claim)
  BY <1>x, <1>1, StoreFacts
<1>3. URevokeRoute(wanted, claim)
  BY <1>x, <1>2 DEF UStoreFails
<1>4. /\ URowsOK' /\ UFlowsOK' /\ UFlowsFollowTarget'
      /\ uRegistry' = [a \in DOMAIN uRegistry' |->
           [claim |-> uRegistry'[a].claim, upstream |-> uRegistry'[a].upstream, enabled |-> uRegistry'[a].enabled]]
  BY <1>1, <1>2, <1>3, RevokeRules
<1>5. UOpPlain'
  BY <1>1, IdleOp
<1>6. UCountKept
  BY <1>0, <1>1, FaultCounts DEF UCountKept
<1>7. uStored' \in [DOMAIN uStored' -> UEntryRow] /\ DOMAIN uStored' \subseteq 1 .. uCount'.ids /\ UEntriesOK'
  BY <1>0, <1>1, FaultCounts DEF UTyped, UEntriesOK
<1> QED
  BY <1>1, <1>2, <1>4, <1>5, <1>6, <1>7, PlainOp, InvariantFrom DEF UOpPlain

-----------------------------------------------------------------------------
\* Revocation and deletion.

\* Revocation is written before its connections are closed.
LEMMA MarkKeeps ==
  ASSUME UrlInv, UMark
  PROVE  UrlInv'
<1>0. UTyped /\ UEntriesOK /\ UOpOK /\ UDarkOK
  BY DEF UrlInv
<1>x. PICK x : x = uOp.id
  OBVIOUS
<1>1. /\ uOp.stage = "mark" /\ UNCHANGED <<uRegistry, uFlows, uConfig, uLive, uPhase, uCount>> /\ UGoes("close")
      /\ uPhase # "down" /\ x \in DOMAIN uStored /\ x \notin uOp.todo /\ uOp.todo \subseteq DOMAIN uStored
  BY <1>0, <1>x DEF UMark, UAt, uHostVars, UOpOK, UOnEntry, UDarkOK
<1> DEFINE entry == [uStored[x] EXCEPT !.approval = "revoked"]
<1>2. UPut(x, entry)
  BY <1>x DEF UMark, UEntry
<1>p. uStored[x] \in UEntryRow
  BY <1>0, <1>1 DEF UTyped
<1>3. entry \in UEntryRow /\ entry.request = uStored[x].request /\ entry.claim = uStored[x].claim
      /\ entry.approval = "revoked" /\ entry.policy = uStored[x].policy
  BY <1>p DEF UEntryRow, UApprovals
<1> HIDE DEF entry
<1>4. /\ DOMAIN uStored' = DOMAIN uStored /\ uStored' \in [DOMAIN uStored' -> UEntryRow]
      /\ uStored'[x] = entry /\ \A y \in DOMAIN uStored : y # x => uStored'[y] = uStored[y]
      /\ UEntriesOK' /\ DOMAIN uStored' \subseteq 1 .. uCount'.ids
  BY <1>0, <1>1, <1>2, <1>3, PutEffect
<1>5. /\ uOp' = [kind |-> uOp'.kind, stage |-> uOp'.stage, id |-> uOp'.id, request |-> uOp'.request,
                 acquired |-> uOp'.acquired, todo |-> uOp'.todo]
      /\ uOp'.stage = "close" /\ uOp'.id = x /\ uOp'.todo = uOp.todo
  BY <1>0, <1>x, <1>1, GoesOn DEF UGoes
<1>6. UOpOK' /\ uOp'.stage \in UStages
  BY <1>1, <1>3, <1>4, <1>5 DEF UOpOK, UOnEntry, UStages, UEntry
<1>7. ASSUME NEW y \in DOMAIN uStored
      PROVE  UAuthoritiesOf(y)' = UAuthoritiesOf(y) /\ UPolicyOf(uStored[y].request)' = UPolicyOf(uStored[y].request)
             /\ uStored'[y].claim = uStored[y].claim /\ uStored'[y].policy = uStored[y].policy
  BY <1>1, <1>3, <1>4 DEF UAuthoritiesOf, UPolicyOf
<1>8. UAuthoritiesOf(uOp.id)' = UAuthoritiesOf(x)' /\ UEntry' = uStored'[x]
  BY <1>5 DEF UAuthoritiesOf, UEntry
<1>9. \A a, c : (UHeld(a, c) => UHeld(a, c)') /\ (ULet(a, c) => ULet(a, c)')
  <2> SUFFICES ASSUME NEW a, NEW c
               PROVE  (UHeld(a, c) => UHeld(a, c)') /\ (ULet(a, c) => ULet(a, c)')
    OBVIOUS
  <2>1. (UHeld(a, c) => UOwned(a, c)) /\ (ULet(a, c) => UBacked(a, c))
    BY <1>1, NothingTaken DEF UHolding
  <2>2. CASE a \in UAuthoritiesOf(x) /\ c = uStored[x].claim
    <3>1. UMarked(a, c)'
      BY <1>1, <1>5, <1>7, <1>8, <2>2 DEF UMarked
    <3> QED
      BY <3>1 DEF UHeld, ULet
  <2>3. CASE ~(a \in UAuthoritiesOf(x) /\ c = uStored[x].claim)
    <3>1. UOwned(a, c) => UOwned(a, c)'
      BY <1>4, <1>7, <2>3 DEF UOwned
    <3>2. UBacked(a, c) => UBacked(a, c)'
      BY <1>4, <1>7, <2>3 DEF UBacked
    <3> QED
      BY <2>1, <3>1, <3>2, OwnedIsHeld
  <2> QED
    BY <2>2, <2>3
<1>10. /\ URowsOK' /\ UFlowsOK' /\ UFlowsFollowTarget'
       /\ uRegistry' = [a \in DOMAIN uRegistry' |->
            [claim |-> uRegistry'[a].claim, upstream |-> uRegistry'[a].upstream, enabled |-> uRegistry'[a].enabled]]
  BY <1>1, <1>9, StoreRules
<1>11. UCountKept
  BY <1>0, <1>1 DEF UTyped, UCountKept
<1> QED
  BY <1>1, <1>4, <1>5, <1>6, <1>10, <1>11, InvariantFrom

\* Whatever the operation marked belongs to the listener of the URL it marked.
LEMMA MarkedIsDocked ==
  ASSUME UrlInv, uOp.stage = "close", NEW a, NEW c, UMarked(a, c)
  PROVE  \A i \in UIngresses : UDocked(i, a) => uLive[i] = UPolicyOf(UEntry.request)
<1>1. uOp.id \in DOMAIN uStored /\ a \in UAuthoritiesOf(uOp.id) /\ UTyped
  BY DEF UrlInv, UOpOK, UOnEntry, UMarked
<1>2. uStored[uOp.id].request \in URequests
  BY <1>1, ServedPolicy
<1>3. \A i \in UIngresses : UDocked(i, a) <=> i = uStored[uOp.id].request.ingress
  BY <1>1, <1>2, AuthorityFacts DEF UAuthoritiesOf
<1> QED
  BY <1>3 DEF UPolicyOf, UEntry

\* A marked URL gives up its rows and connections.
LEMMA CloseKeeps ==
  ASSUME UrlInv, UClose
  PROVE  UrlInv'
<1>0. UTyped /\ UEntriesOK /\ UOpOK /\ UDarkOK /\ URowsOK /\ UFlowsOK /\ UFlowsFollowTarget
  BY DEF UrlInv
<1>x. PICK x, wanted, claim : x = uOp.id /\ wanted = UAuthoritiesOf(uOp.id) /\ claim = UEntry.claim
  OBVIOUS
<1>1. /\ uOp.stage = "close" /\ UNCHANGED <<uStored, uConfig, uLive, uPhase, uCount>>
      /\ uPhase # "down" /\ x \in DOMAIN uStored /\ x \notin uOp.todo /\ uOp.todo \subseteq DOMAIN uStored
      /\ uStored[x].approval = "revoked"
  BY <1>0, <1>x DEF UClose, UAt, uHostVars, UOpOK, UOnEntry, UDarkOK, UEntry
<1>2. \A a, c : /\ UHeld(a, c) => UOwned(a, c) \/ UMarked(a, c)
                /\ ULet(a, c) => UBacked(a, c) \/ UMarked(a, c)
  BY <1>1 DEF UHeld, ULet, UTakenNew, UTakenAnew
<1>3. \A a, c : UMarked(a, c) => a \in wanted /\ c = claim
  BY <1>x DEF UMarked
<1>4. /\ URowsOK' /\ UFlowsOK' /\ UFlowsFollowTarget'
      /\ uRegistry' = [a \in DOMAIN uRegistry' |->
           [claim |-> uRegistry'[a].claim, upstream |-> uRegistry'[a].upstream, enabled |-> uRegistry'[a].enabled]]
  <2>1. CASE UPolicyOf(UEntry.request) # 0
    <3>1. URevokeRoute(wanted, claim)
      BY <1>x, <2>1 DEF UClose
    <3> QED
      BY <1>1, <1>2, <1>3, <3>1, RevokeRules
  <2>2. CASE UPolicyOf(UEntry.request) = 0
    <3>1. UNCHANGED <<uRegistry, uFlows>>
      BY <2>2 DEF UClose
    <3>2. ASSUME NEW a, NEW c, \E i \in UIngresses : UDocked(i, a) /\ uLive[i] # 0
          PROVE  ~UMarked(a, c)
      BY <1>1, <2>2, <3>2, MarkedIsDocked
    <3>3. ASSUME NEW a, NEW c
          PROVE  (UOwned(a, c) => UHeld(a, c)') /\ (UBacked(a, c) => ULet(a, c)')
      BY <1>0, <1>1, OwnersStay, OwnedIsHeld, StoreUnchanged
    <3>4. URowsOK'
      BY <1>0, <1>1, <1>2, <3>1, <3>2, <3>3 DEF URowsOK, ULiveRow
    <3>5. UFlowsOK'
      BY <1>0, <1>1, <1>2, <3>1, <3>2, <3>3 DEF UFlowsOK
    <3>6. UFlowsFollowTarget'
      BY <1>0, <3>1 DEF UFlowsFollowTarget
    <3> QED
      BY <1>0, <3>1, <3>4, <3>5, <3>6 DEF UTyped
  <2> QED
    BY <2>1, <2>2
<1>5. /\ UOpOK' /\ uOp'.stage \in UStages
      /\ uOp' = [kind |-> uOp'.kind, stage |-> uOp'.stage, id |-> uOp'.id, request |-> uOp'.request,
                 acquired |-> uOp'.acquired, todo |-> uOp'.todo]
  <2>1. CASE uOp' = UIdle
    BY <2>1, IdleOp, PlainOp DEF UOpPlain
  <2>2. CASE UGoes("remove")
    <3>1. /\ uOp' = [kind |-> uOp'.kind, stage |-> uOp'.stage, id |-> uOp'.id, request |-> uOp'.request,
                     acquired |-> uOp'.acquired, todo |-> uOp'.todo]
          /\ uOp'.stage = "remove" /\ uOp'.id = x /\ uOp'.todo = uOp.todo
      BY <1>0, <1>x, <2>2, GoesOn DEF UGoes
    <3> QED
      BY <1>1, <3>1 DEF UOpOK, UOnEntry, UStages, UEntry
  <2> QED
    BY <2>1, <2>2 DEF UClose
<1>6. uStored' \in [DOMAIN uStored' -> UEntryRow] /\ DOMAIN uStored' \subseteq 1 .. uCount'.ids /\ UEntriesOK'
      /\ UCountKept
  BY <1>0, <1>1 DEF UTyped, UEntriesOK, UCountKept
<1> QED
  BY <1>1, <1>4, <1>5, <1>6, InvariantFrom

\* Files that go.
LEMMA RemoveEffect ==
  ASSUME UTyped, UEntriesOK, NEW ids, URemove(ids), uCount'.ids = uCount.ids
  PROVE  /\ DOMAIN uStored' = DOMAIN uStored \ ids /\ uStored' \in [DOMAIN uStored' -> UEntryRow]
         /\ \A y \in DOMAIN uStored \ ids : uStored'[y] = uStored[y] /\ UStays(y)
         /\ UEntriesOK' /\ DOMAIN uStored' \subseteq 1 .. uCount'.ids
<1>1. uStored' = [y \in DOMAIN uStored \ ids |-> uStored[y]]
  BY DEF URemove
<1>2. DOMAIN uStored' = DOMAIN uStored \ ids /\ \A y \in DOMAIN uStored \ ids : uStored'[y] = uStored[y]
  BY <1>1
<1>3. uStored' \in [DOMAIN uStored' -> UEntryRow]
  BY <1>1, <1>2 DEF UTyped
<1>4. UEntriesOK'
  BY <1>2 DEF UEntriesOK
<1>5. \A y \in DOMAIN uStored \ ids : UStays(y)
  BY <1>2 DEF UStays
<1> QED
  BY <1>2, <1>3, <1>4, <1>5 DEF UTyped

\* A deleted URL leaves the store after its rows.
LEMMA DeletedKeeps ==
  ASSUME UrlInv, UDeleted
  PROVE  UrlInv'
<1>0. UTyped /\ UEntriesOK /\ UOpOK /\ UDarkOK /\ URowsOK /\ UFlowsOK /\ UFlowsFollowTarget
  BY DEF UrlInv
<1>x. PICK x : x = uOp.id
  OBVIOUS
<1>1. /\ uOp.stage = "remove" /\ UNCHANGED <<uRegistry, uFlows, uConfig, uLive, uPhase, uCount>>
      /\ uPhase # "down" /\ x \in DOMAIN uStored /\ x \notin uOp.todo /\ uOp.todo \subseteq DOMAIN uStored
      /\ uStored[x].approval = "revoked" /\ URemove({x}) /\ UTakes(uOp, "mark", uOp.todo)
  BY <1>0, <1>x DEF UDeleted, UAt, uHostVars, UOpOK, UOnEntry, UDarkOK, UEntry
<1>2. /\ DOMAIN uStored' = DOMAIN uStored \ {x} /\ uStored' \in [DOMAIN uStored' -> UEntryRow]
      /\ \A y \in DOMAIN uStored \ {x} : uStored'[y] = uStored[y] /\ UStays(y)
      /\ UEntriesOK' /\ DOMAIN uStored' \subseteq 1 .. uCount'.ids
  BY <1>0, <1>1, RemoveEffect
<1>3. UOpPlain'
  BY <1>0, <1>1, <1>2, TakesPlain DEF UTyped
<1>4. URowsOK' /\ UFlowsOK' /\ UFlowsFollowTarget'
  BY <1>0, <1>1, <1>2, RulesStay DEF UHolding
<1>5. UCountKept
  BY <1>0, <1>1 DEF UTyped, UCountKept
<1>6. uRegistry' = [a \in DOMAIN uRegistry' |->
          [claim |-> uRegistry'[a].claim, upstream |-> uRegistry'[a].upstream, enabled |-> uRegistry'[a].enabled]]
  BY <1>0, <1>1 DEF UTyped
<1> QED
  BY <1>1, <1>2, <1>3, <1>4, <1>5, <1>6, PlainOp, InvariantFrom DEF UOpPlain

-----------------------------------------------------------------------------
\* transitionRouteApproval.

\* Switching a URL's routes on or off changes that field alone.
LEMMA SwitchedEffect ==
  ASSUME UTyped, NEW id, NEW enabled, USwitched(id, enabled)
  PROVE  /\ DOMAIN uRegistry' = DOMAIN uRegistry
         /\ \A a \in DOMAIN uRegistry :
              /\ uRegistry'[a].claim = uRegistry[a].claim /\ uRegistry'[a].upstream = uRegistry[a].upstream
              /\ uRegistry'[a].enabled = IF a \in UAuthoritiesOf(id) THEN enabled ELSE uRegistry[a].enabled
         /\ uRegistry' = [a \in DOMAIN uRegistry' |->
              [claim |-> uRegistry'[a].claim, upstream |-> uRegistry'[a].upstream, enabled |-> uRegistry'[a].enabled]]
<1>1. uRegistry' = [a \in DOMAIN uRegistry |->
                      IF a \in UAuthoritiesOf(id) THEN [uRegistry[a] EXCEPT !.enabled = enabled] ELSE uRegistry[a]]
  BY DEF USwitched
<1>2. \A a \in DOMAIN uRegistry :
        uRegistry[a] = [claim |-> uRegistry[a].claim, upstream |-> uRegistry[a].upstream, enabled |-> uRegistry[a].enabled]
  BY DEF UTyped
<1>3. \A a \in DOMAIN uRegistry :
        [uRegistry[a] EXCEPT !.enabled = enabled] =
          [claim |-> uRegistry[a].claim, upstream |-> uRegistry[a].upstream, enabled |-> enabled]
  BY <1>2
<1>4. DOMAIN uRegistry' = DOMAIN uRegistry
  BY <1>1
<1>5. ASSUME NEW a \in DOMAIN uRegistry
      PROVE  uRegistry'[a] = [claim |-> uRegistry[a].claim, upstream |-> uRegistry[a].upstream,
                              enabled |-> IF a \in UAuthoritiesOf(id) THEN enabled ELSE uRegistry[a].enabled]
  BY <1>1, <1>2, <1>3
<1>6. uRegistry' = [a \in DOMAIN uRegistry' |-> uRegistry'[a]]
  BY <1>1
<1>7. \A a \in DOMAIN uRegistry :
        /\ uRegistry'[a].claim = uRegistry[a].claim /\ uRegistry'[a].upstream = uRegistry[a].upstream
        /\ uRegistry'[a].enabled = IF a \in UAuthoritiesOf(id) THEN enabled ELSE uRegistry[a].enabled
  <2> TAKE a \in DOMAIN uRegistry
  <2>1. PICK e : e = IF a \in UAuthoritiesOf(id) THEN enabled ELSE uRegistry[a].enabled
    OBVIOUS
  <2>2. uRegistry'[a] = [claim |-> uRegistry[a].claim, upstream |-> uRegistry[a].upstream, enabled |-> e]
    BY <1>5, <2>1
  <2>3. uRegistry'[a].claim = uRegistry[a].claim /\ uRegistry'[a].upstream = uRegistry[a].upstream
        /\ uRegistry'[a].enabled = e
    BY <2>2
  <2> QED
    BY <2>1, <2>3
<1>8. \A a \in DOMAIN uRegistry' :
        uRegistry'[a] = [claim |-> uRegistry'[a].claim, upstream |-> uRegistry'[a].upstream, enabled |-> uRegistry'[a].enabled]
  BY <1>4, <1>5
<1> QED
  BY <1>4, <1>6, <1>7, <1>8

\* Neither a switch nor an approval changes which rows are whose.
LEMMA ActiveRouteStays ==
  ASSUME NEW x, UActiveRoute(x), UAuthoritiesOf(x)' = UAuthoritiesOf(x), uStored'[x].claim = uStored[x].claim,
         DOMAIN uRegistry' = DOMAIN uRegistry, \A a \in DOMAIN uRegistry : uRegistry'[a].claim = uRegistry[a].claim
  PROVE  UActiveRoute(x)'
<1>1. UActiveRoute(x)' <=> UAuthoritiesOf(x)' =
         {a \in UAuthoritiesOf(x)' \cap DOMAIN uRegistry' : uRegistry'[a].claim = uStored'[x].claim}
  BY DEF UActiveRoute, URows
<1>2. UAuthoritiesOf(x) = {a \in UAuthoritiesOf(x) \cap DOMAIN uRegistry : uRegistry[a].claim = uStored[x].claim}
  BY DEF UActiveRoute, URows
<1> QED
  BY <1>1, <1>2

\* approve begins: routes are switched off, their connections end.
LEMMA ApproveKeeps ==
  ASSUME UrlInv, NEW x \in DOMAIN uStored, UApprove(x)
  PROVE  UrlInv'
<1>0. UTyped /\ UEntriesOK /\ URowsOK /\ UFlowsOK /\ UFlowsFollowTarget
  BY DEF UrlInv
<1>1. /\ uOp.stage = "none" /\ uPhase # "down" /\ UNCHANGED <<uStored, uConfig, uLive, uPhase, uCount>>
      /\ uStored[x].approval = "pending" /\ uStored[x].policy = UPolicyOf(uStored[x].request)
      /\ UActiveRoute(x) /\ USwitched(x, FALSE) /\ UBegins("approve", "approve", x, 0)
      /\ uFlows' \subseteq uFlows
  BY DEF UApprove, UServes, UAt, uHostVars, UApprovable, UDestroyClaim
<1>2. uOp' = [kind |-> "approve", stage |-> "approve", id |-> x, request |-> 0, acquired |-> FALSE, todo |-> {}]
  BY <1>1, BeginsPlain
<1>3. /\ DOMAIN uRegistry' = DOMAIN uRegistry
      /\ \A a \in DOMAIN uRegistry :
           /\ uRegistry'[a].claim = uRegistry[a].claim /\ uRegistry'[a].upstream = uRegistry[a].upstream
           /\ uRegistry'[a].enabled = IF a \in UAuthoritiesOf(x) THEN FALSE ELSE uRegistry[a].enabled
      /\ uRegistry' = [a \in DOMAIN uRegistry' |->
           [claim |-> uRegistry'[a].claim, upstream |-> uRegistry'[a].upstream, enabled |-> uRegistry'[a].enabled]]
  BY <1>0, <1>1, SwitchedEffect
<1>4. UAuthoritiesOf(x)' = UAuthoritiesOf(x) /\ UPolicyOf(uStored[x].request)' = UPolicyOf(uStored[x].request)
  BY <1>1 DEF UAuthoritiesOf, UPolicyOf
<1>5. UActiveRoute(x)'
  BY <1>1, <1>3, <1>4, ActiveRouteStays
<1>6. uStored[x].policy # 0
  BY <1>0, ServedPolicy
<1>7. UActiveRoute(uOp.id)' /\ UEntry' = uStored[x]
  BY <1>1, <1>2, <1>5 DEF UActiveRoute, UAuthoritiesOf, UEntry
<1>8. UOpOK' /\ uOp'.stage \in UStages
  BY <1>1, <1>2, <1>4, <1>6, <1>7 DEF UOpOK, UOnEntry, UStages
<1>9. \A a, c : (UHeld(a, c) => UHeld(a, c)') /\ (ULet(a, c) => ULet(a, c)')
  BY <1>0, <1>1, NothingTaken, OwnersStay, OwnedIsHeld, StoreUnchanged DEF UHolding
<1>10. URowsOK' /\ UFlowsOK'
  BY <1>1, <1>3, <1>9, RemainderRules
<1>11. UFlowsFollowTarget'
  BY <1>0, <1>1, <1>3 DEF UFlowsFollowTarget
<1>12. uStored' \in [DOMAIN uStored' -> UEntryRow] /\ DOMAIN uStored' \subseteq 1 .. uCount'.ids /\ UEntriesOK'
       /\ UCountKept
  BY <1>0, <1>1 DEF UTyped, UEntriesOK, UCountKept
<1>13. uOp' = [kind |-> uOp'.kind, stage |-> uOp'.stage, id |-> uOp'.id, request |-> uOp'.request,
               acquired |-> uOp'.acquired, todo |-> uOp'.todo]
  BY <1>2
<1> QED
  BY <1>1, <1>3, <1>8, <1>10, <1>11, <1>12, <1>13, InvariantFrom

\* The approval is written.
LEMMA ApprovedKeeps ==
  ASSUME UrlInv, UApproved
  PROVE  UrlInv'
<1>0. UTyped /\ UEntriesOK /\ UOpOK /\ UDarkOK /\ URowsOK /\ UFlowsOK /\ UFlowsFollowTarget
  BY DEF UrlInv
<1>x. PICK x : x = uOp.id
  OBVIOUS
<1>1. /\ uOp.stage = "approve" /\ UNCHANGED <<uRegistry, uFlows, uConfig, uLive, uPhase, uCount>> /\ UGoes("switch")
      /\ uPhase # "down" /\ x \in DOMAIN uStored /\ x \notin uOp.todo /\ uOp.todo \subseteq DOMAIN uStored
      /\ uStored[x].approval # "revoked" /\ UPolicyOf(uStored[x].request) # 0 /\ UActiveRoute(x)
      /\ uStored[x].policy = UPolicyOf(uStored[x].request)
  BY <1>0, <1>x DEF UApproved, UAt, uHostVars, UOpOK, UOnEntry, UDarkOK, UEntry
<1> DEFINE entry == [uStored[x] EXCEPT !.approval = "approved"]
<1>2. UPut(x, entry)
  BY <1>x DEF UApproved, UEntry
<1>p. uStored[x] \in UEntryRow
  BY <1>0, <1>1 DEF UTyped
<1>3. entry \in UEntryRow /\ entry.request = uStored[x].request /\ entry.claim = uStored[x].claim
      /\ entry.approval = "approved" /\ entry.policy = uStored[x].policy
  BY <1>p DEF UEntryRow, UApprovals
<1> HIDE DEF entry
<1>4. /\ DOMAIN uStored' = DOMAIN uStored /\ uStored' \in [DOMAIN uStored' -> UEntryRow]
      /\ uStored'[x] = entry /\ \A y \in DOMAIN uStored : y # x => uStored'[y] = uStored[y]
      /\ UEntriesOK' /\ DOMAIN uStored' \subseteq 1 .. uCount'.ids
  BY <1>0, <1>1, <1>2, <1>3, PutEffect
<1>5. /\ uOp' = [kind |-> uOp'.kind, stage |-> uOp'.stage, id |-> uOp'.id, request |-> uOp'.request,
                 acquired |-> uOp'.acquired, todo |-> uOp'.todo]
      /\ uOp'.stage = "switch" /\ uOp'.id = x /\ uOp'.todo = uOp.todo
  BY <1>0, <1>x, <1>1, GoesOn DEF UGoes
<1>6. UAuthoritiesOf(x)' = UAuthoritiesOf(x) /\ uStored'[x].claim = uStored[x].claim
      /\ UPolicyOf(uStored[x].request)' = UPolicyOf(uStored[x].request)
  BY <1>1, <1>3, <1>4 DEF UAuthoritiesOf, UPolicyOf
<1>7. UActiveRoute(x)'
  BY <1>1, <1>6, ActiveRouteStays
<1>8. UActiveRoute(uOp.id)' /\ UEntry' = uStored'[x]
  BY <1>5, <1>7 DEF UActiveRoute, UAuthoritiesOf, UEntry
<1>9. UOpOK' /\ uOp'.stage \in UStages
  BY <1>1, <1>3, <1>4, <1>5, <1>6, <1>8 DEF UOpOK, UOnEntry, UStages
<1>10. \A y \in DOMAIN uStored : UStays(y)
  BY <1>3, <1>4 DEF UStays
<1>11. URowsOK' /\ UFlowsOK' /\ UFlowsFollowTarget'
  BY <1>0, <1>1, <1>10, RulesStay DEF UHolding
<1>12. UCountKept
  BY <1>0, <1>1 DEF UTyped, UCountKept
<1>13. uRegistry' = [a \in DOMAIN uRegistry' |->
          [claim |-> uRegistry'[a].claim, upstream |-> uRegistry'[a].upstream, enabled |-> uRegistry'[a].enabled]]
  BY <1>0, <1>1 DEF UTyped
<1> QED
  BY <1>1, <1>4, <1>5, <1>9, <1>11, <1>12, <1>13, InvariantFrom

\* An approved URL's routes are switched on.
LEMMA SwitchKeeps ==
  ASSUME UrlInv, USwitch
  PROVE  UrlInv'
<1>0. UTyped /\ UEntriesOK /\ UOpOK /\ UDarkOK /\ URowsOK /\ UFlowsOK /\ UFlowsFollowTarget
  BY DEF UrlInv
<1>x. PICK x : x = uOp.id
  OBVIOUS
<1>1. /\ uOp.stage = "switch" /\ UNCHANGED <<uStored, uFlows, uConfig, uLive, uPhase, uCount>> /\ uOp' = UIdle
      /\ uPhase # "down" /\ x \in DOMAIN uStored /\ USwitched(x, TRUE)
      /\ uStored[x].approval = "approved" /\ UActiveRoute(x)
      /\ uStored[x].policy = UPolicyOf(uStored[x].request)
  BY <1>0, <1>x DEF USwitch, UAt, uHostVars, UOpOK, UOnEntry, UDarkOK, UEntry
<1>2. /\ DOMAIN uRegistry' = DOMAIN uRegistry
      /\ \A a \in DOMAIN uRegistry :
           /\ uRegistry'[a].claim = uRegistry[a].claim /\ uRegistry'[a].upstream = uRegistry[a].upstream
           /\ uRegistry'[a].enabled = IF a \in UAuthoritiesOf(x) THEN TRUE ELSE uRegistry[a].enabled
      /\ uRegistry' = [a \in DOMAIN uRegistry' |->
           [claim |-> uRegistry'[a].claim, upstream |-> uRegistry'[a].upstream, enabled |-> uRegistry'[a].enabled]]
  BY <1>0, <1>1, SwitchedEffect
<1>3. ASSUME NEW a, NEW c
      PROVE  (UHeld(a, c) => UHeld(a, c)') /\ (ULet(a, c) => ULet(a, c)')
  BY <1>0, <1>1, NothingTaken, OwnersStay, OwnedIsHeld, StoreUnchanged DEF UHolding
<1>4. ASSUME NEW a \in UAuthoritiesOf(x)
      PROVE  uRegistry[a].claim = uStored[x].claim /\ \A c : c = uStored[x].claim => ULet(a, c)'
  <2>1. uRegistry[a].claim = uStored[x].claim
    BY <1>1 DEF UActiveRoute, URows
  <2>2. UAuthoritiesOf(x)' = UAuthoritiesOf(x) /\ UPolicyOf(uStored[x].request)' = uStored'[x].policy
    BY <1>1 DEF UAuthoritiesOf, UPolicyOf
  <2>3. ASSUME NEW c, c = uStored[x].claim
        PROVE  UBacked(a, c)'
    BY <1>1, <2>2, <2>3 DEF UBacked, UEnabled
  <2> QED
    BY <2>1, <2>3, OwnedIsHeld
<1>5. URowsOK'
  <2> SUFFICES ASSUME NEW a \in DOMAIN uRegistry', ULiveRow(a)', NEW c, c = uRegistry'[a].claim
               PROVE  UHeld(a, c)' /\ (uRegistry'[a].enabled => ULet(a, c)')
    BY DEF URowsOK
  <2>1. a \in DOMAIN uRegistry /\ c = uRegistry[a].claim /\ ULiveRow(a)
    BY <1>1, <1>2 DEF ULiveRow
  <2>2. UHeld(a, c) /\ (uRegistry[a].enabled => ULet(a, c))
    BY <1>0, <2>1 DEF URowsOK
  <2> QED
    BY <1>2, <1>3, <1>4, <2>1, <2>2
<1>6. UFlowsOK'
  BY <1>0, <1>1, <1>3 DEF UFlowsOK
<1>7. UFlowsFollowTarget'
  BY <1>0, <1>1, <1>2 DEF UFlowsFollowTarget
<1>8. uStored' \in [DOMAIN uStored' -> UEntryRow] /\ DOMAIN uStored' \subseteq 1 .. uCount'.ids /\ UEntriesOK'
      /\ UCountKept
  BY <1>0, <1>1 DEF UTyped, UEntriesOK, UCountKept
<1>9. UOpPlain'
  BY <1>1, IdleOp
<1> QED
  BY <1>1, <1>2, <1>5, <1>6, <1>7, <1>8, <1>9, PlainOp, InvariantFrom DEF UOpPlain

-----------------------------------------------------------------------------
\* Connections, ingress configuration and the controller.

\* With the store, the operation, the rows and what is served unchanged, so is what
\* the operation knows and what is held and let through.
LEMMA SameRules ==
  ASSUME UNCHANGED <<uStored, uLive, uOp>>, NEW a, NEW c
  PROVE  (UHeld(a, c) => UHeld(a, c)') /\ (ULet(a, c) => ULet(a, c)')
<1>1. /\ \A x : UAuthoritiesOf(x)' = UAuthoritiesOf(x)
      /\ UEntry' = UEntry /\ UNewAuthorities' = UNewAuthorities /\ UNewClaim' = UNewClaim /\ UWanted' = UWanted
  BY DEF UAuthoritiesOf, UEntry, UNewAuthorities, UNewClaim, UClaimFor, UWanted, UPolicyOf
<1>2. UAuthoritiesOf(uOp.id)' = UAuthoritiesOf(uOp.id)
  BY DEF UAuthoritiesOf
<1>3. (UOwned(a, c) => UOwned(a, c)') /\ (UBacked(a, c) => UBacked(a, c)')
  BY <1>1 DEF UOwned, UBacked, UPolicyOf
<1>4. /\ UTakenNew(a, c) => UTakenNew(a, c)'
      /\ UTakenAnew(a, c) => UTakenAnew(a, c)'
      /\ UMarked(a, c) => UMarked(a, c)'
  BY <1>1, <1>2 DEF UTakenNew, UTakenAnew, UMarked
<1>5. (UPolicyOf(uOp.request) \notin UGuarded => (UPolicyOf(uOp.request) \notin UGuarded)')
      /\ (UEnabled(UEntry.approval) => UEnabled(UEntry.approval)')
  BY <1>1 DEF UPolicyOf, UEnabled
<1> QED
  BY <1>3, <1>4, <1>5 DEF UHeld, ULet

\* The operation in hand stays as good as store, policy and rows stay.
LEMMA SameOp ==
  ASSUME UOpOK, UNCHANGED <<uStored, uLive, uOp, uRegistry>>, uCount'.ids = uCount.ids
  PROVE  UOpOK'
BY DEF UOpOK, UEntry, UDrifted, UPolicyOf, UActiveRoute, UAuthoritiesOf, URows, UExisting

\* Connections come and go and targets restart, between and inside operations.
LEMMA ConnectionsKeep ==
  ASSUME UrlInv,
         \/ \E i \in UIngresses, a \in DOMAIN uRegistry : UConnect(i, a)
         \/ \E f \in uFlows : UDisconnect(f)
         \/ \E t \in UTargets : UTargetMoves(t)
  PROVE  UrlInv'
<1>0. UTyped /\ UEntriesOK /\ UOpOK /\ UDarkOK /\ URowsOK /\ UFlowsOK /\ UFlowsFollowTarget
  BY DEF UrlInv
<1>1. UNCHANGED <<uStored, uLive, uOp, uRegistry, uConfig, uPhase>>
      /\ (((\E t \in UTargets : UTargetMoves(t)) /\ UNCHANGED uFlows) \/ UNCHANGED uCount)
  BY DEF UConnect, UDisconnect, UTargetMoves
<1>2. UCountKept /\ uCount'.ids = uCount.ids
  <2>1. CASE UNCHANGED uCount
    BY <1>0, <2>1 DEF UTyped, UCountKept
  <2>2. CASE \E t \in UTargets : UTargetMoves(t)
    BY <1>0, <2>2, CountsStay DEF UTargetMoves, UCountKept
  <2> QED
    BY <1>1, <2>1, <2>2
<1>3. UOpOK'
  BY <1>0, <1>1, <1>2, SameOp
<1>4. UTyped'
  <2>1. uStored' \in [DOMAIN uStored' -> UEntryRow] /\ DOMAIN uStored' \subseteq 1 .. uCount'.ids
    BY <1>0, <1>1, <1>2 DEF UTyped
  <2> QED
    BY <1>0, <1>1, <1>2, <2>1 DEF UTyped, UCountKept
<1>5. UEntriesOK'
  BY <1>0, <1>1 DEF UEntriesOK
<1>6. \A a, c : (UHeld(a, c) => UHeld(a, c)') /\ (ULet(a, c) => ULet(a, c)')
  BY <1>1, SameRules
<1>7. URowsOK'
  BY <1>0, <1>1, <1>6 DEF URowsOK, ULiveRow
<1>8. CASE \E i \in UIngresses, a \in DOMAIN uRegistry : UConnect(i, a)
  <2>1. PICK i \in UIngresses, a \in DOMAIN uRegistry : UConnect(i, a)
    BY <1>8
  <2> DEFINE f == [ingress |-> i, authority |-> a, claim |-> uRegistry[a].claim, upstream |-> uRegistry[a].upstream]
  <2>2. /\ uPhase # "down" /\ uLive[i] # 0 /\ UDocked(i, a) /\ uRegistry[a].enabled
        /\ uFlows' = uFlows \cup {f}
    BY <2>1 DEF UConnect
  <2>3. f.ingress = i /\ f.authority = a /\ f.claim = uRegistry[a].claim /\ f.upstream = uRegistry[a].upstream
    OBVIOUS
  <2>4. ULet(a, uRegistry[a].claim)
    BY <1>0, <2>2 DEF URowsOK, ULiveRow
  <2> HIDE DEF f
  <2>5. \A g \in uFlows' : g \in uFlows \/ g = f
    BY <2>2
  <2>6. UFlowsOK'
    BY <1>0, <1>1, <1>6, <2>2, <2>3, <2>4, <2>5 DEF UFlowsOK
  <2>7. UFlowsFollowTarget'
    BY <1>0, <1>1, <2>3, <2>5 DEF UFlowsFollowTarget
  <2>8. UDarkOK'
    BY <1>1, <2>2 DEF UDarkOK
  <2> QED
    BY <1>3, <1>4, <1>5, <1>7, <2>6, <2>7, <2>8 DEF UrlInv
<1>9. CASE \/ \E f \in uFlows : UDisconnect(f)
           \/ \E t \in UTargets : UTargetMoves(t)
  <2>1. uFlows' \subseteq uFlows
    BY <1>9 DEF UDisconnect, UTargetMoves
  <2>2. UFlowsOK' /\ UFlowsFollowTarget'
    BY <1>0, <1>1, <1>6, <2>1 DEF UFlowsOK, UFlowsFollowTarget
  <2>3. UDarkOK'
    BY <1>0, <1>1, <2>1 DEF UDarkOK, UAt
  <2> QED
    BY <1>3, <1>4, <1>5, <1>7, <2>2, <2>3 DEF UrlInv
<1> QED
  BY <1>8, <1>9

\* Configuration is served after the next start only.
LEMMA ConfigKeeps ==
  ASSUME UrlInv,
         \/ \E c \in UConfigurations : UIngressAdd(c[1], c[2])
         \/ \E i \in UIngresses, cleanup \in BOOLEAN : UIngressRemove(i, cleanup)
  PROVE  UrlInv'
<1>0. UTyped
  BY DEF UrlInv
<1>1. CASE \E c \in UConfigurations : UIngressAdd(c[1], c[2])
  <2>1. PICK i \in UIngresses, policy \in UPolicies : UIngressAdd(i, policy)
    BY <1>1 DEF UConfigurations
  <2>2. /\ uOp.stage = "none" /\ uPhase = "up" /\ UCounts("edits", UMaxEdits)
        /\ uConfig' = [uConfig EXCEPT ![i] = policy]
        /\ UNCHANGED <<uStored, uRegistry, uFlows, uLive, uOp, uPhase>>
    BY <2>1 DEF UIngressAdd, UServes, UAt, UWriteConfig, uRouteVars
  <2>3. uConfig' \in [UIngresses -> UPolicies \cup {0}]
    BY <1>0, <2>2 DEF UTyped
  <2>4. UCountKept /\ uCount'.ids = uCount.ids
    BY <1>0, <2>2, CountsStay DEF UCountKept
  <2>5. UOpOK'
    BY <2>2, <2>4, SameOp DEF UrlInv
  <2> QED
    BY <1>0, <2>2, <2>3, <2>4, <2>5, QuietStep DEF UTyped, UHolding
<1>2. CASE \E i \in UIngresses, cleanup \in BOOLEAN : UIngressRemove(i, cleanup)
  <2>1. PICK i \in UIngresses, cleanup \in BOOLEAN : UIngressRemove(i, cleanup)
    BY <1>2
  <2>2. PICK stage \in {"stop-caddy", "close-listener"} :
          uOp' = [UIdle EXCEPT !.kind = "ingress-remove", !.stage = stage, !.request = [ingress |-> i]]
    BY <2>1 DEF UIngressRemove
  <2>3. uOp' = [kind |-> "ingress-remove", stage |-> stage, id |-> 0, request |-> [ingress |-> i],
                acquired |-> FALSE, todo |-> {}]
    BY <2>2 DEF UIdle
  <2>4. UOpPlain'
    BY <2>3 DEF UOpPlain
  <2>5. /\ uOp.stage = "none" /\ uPhase = "up" /\ UCounts("edits", UMaxEdits)
        /\ UNCHANGED <<uStored, uRegistry, uFlows, uLive, uConfig, uPhase>>
    BY <2>1 DEF UIngressRemove, UServes, UAt, uRouteVars
  <2>6. UCountKept
    BY <1>0, <2>5, CountsStay DEF UCountKept
  <2>7. UOpOK' /\ uOp'.stage \in UStages
    BY <2>4, PlainOp
  <2>8. uConfig' \in [UIngresses -> UPolicies \cup {0}]
    BY <1>0, <2>5 DEF UTyped
  <2> QED
    BY <2>4, <2>5, <2>6, <2>7, <2>8, QuietStep DEF UOpPlain, UHolding
<1> QED
  BY <1>1, <1>2

\* The stages of a removal and of a start that touch only Caddy, the record or the
\* configuration.
LEMMA HostStagesKeep ==
  ASSUME UrlInv, UStopCaddy \/ UStopCaddyFails \/ UStaleCaddy \/ UEnsureDns \/ UCaddyUp \/ UUnconfigure
  PROVE  UrlInv'
<1>0. UTyped /\ UOpOK /\ UDarkOK
  BY DEF UrlInv
<1>1. uPhase # "down" /\ uOp.stage \in {"stop-caddy", "stale-caddy", "dns", "caddy", "unconfigure"}
  BY <1>0 DEF UStopCaddy, UStopCaddyFails, UStaleCaddy, UEnsureDns, UCaddyUp, UUnconfigure, UAt, UDarkOK
<1>2. ASSUME NEW stage \in {"close-listener", "routes", "dns", "caddy"}, UGoes(stage),
             stage = "close-listener" => uOp.stage = "stop-caddy"
      PROVE  UOpPlain'
  <2>1. /\ uOp' = [kind |-> uOp'.kind, stage |-> uOp'.stage, id |-> uOp'.id, request |-> uOp'.request,
                   acquired |-> uOp'.acquired, todo |-> uOp'.todo]
        /\ uOp'.stage = stage /\ uOp'.request = uOp.request
    BY <1>0, <1>2, GoesOn DEF UGoes
  <2> QED
    BY <1>0, <1>2, <2>1 DEF UOpOK, UOpPlain
<1>3. CASE UStopCaddy
  <2>1. UOpPlain' /\ UNCHANGED <<uStored, uRegistry, uFlows, uLive, uConfig, uPhase, uCount>>
    BY <1>2, <1>3 DEF UStopCaddy, UAt, uRouteVars
  <2> QED
    BY <1>1, <2>1, PlainStep DEF UHolding
<1>4. CASE UStopCaddyFails
  <2>1. UOpPlain' /\ UNCHANGED <<uStored, uRegistry, uFlows, uLive, uConfig, uPhase>> /\ UFault
    BY <1>4, IdleOp DEF UStopCaddyFails, uRouteVars, uHostVars
  <2> QED
    BY <1>1, <2>1, PlainStep DEF UHolding
<1>5. CASE UStaleCaddy
  <2>1. UGoes("routes") \/ UGoes("dns")
    BY <1>5 DEF UStaleCaddy
  <2>2. UOpPlain' /\ UNCHANGED <<uStored, uRegistry, uFlows, uLive, uConfig, uPhase, uCount>>
    BY <1>2, <1>5, <2>1 DEF UStaleCaddy, uRouteVars
  <2> QED
    BY <1>1, <2>2, PlainStep DEF UHolding
<1>6. CASE UEnsureDns \/ UCaddyUp
  <2>1. UOpPlain' /\ UNCHANGED <<uStored, uRegistry, uFlows, uLive, uConfig, uPhase, uCount>>
    BY <1>2, <1>6 DEF UEnsureDns, UCaddyUp, uRouteVars
  <2> QED
    BY <1>1, <2>1, PlainStep DEF UHolding
<1>7. CASE UUnconfigure
  <2>1. uOp.request.ingress \in UIngresses
    BY <1>0, <1>7 DEF UUnconfigure, UAt, UOpOK
  <2>2. UOpPlain' /\ UNCHANGED <<uStored, uRegistry, uFlows, uLive, uPhase, uCount>>
        /\ uConfig' = [uConfig EXCEPT ![uOp.request.ingress] = 0]
    BY <1>7, IdleOp DEF UUnconfigure, UWriteConfig, uRouteVars
  <2>3. uConfig' \in [UIngresses -> UPolicies \cup {0}] /\ UCountKept
    BY <1>0, <2>1, <2>2 DEF UTyped, UCountKept
  <2>4. UOpOK' /\ uOp'.stage \in UStages
    BY <2>2, PlainOp
  <2> QED
    BY <1>1, <2>2, <2>3, <2>4, QuietStep DEF UOpPlain, UHolding
<1> QED
  BY <1>3, <1>4, <1>5, <1>6, <1>7

\* An authority in use at a served listener is owned by a URL of that listener.
LEMMA OwnerAtListener ==
  ASSUME UTyped, NEW a, NEW i \in UIngresses, UDocked(i, a), NEW x \in DOMAIN uStored, a \in UAuthoritiesOf(x)
  PROVE  uStored[x].request.ingress = i
<1>1. uStored[x].request \in URequests
  BY ServedPolicy
<1> QED
  BY <1>1, AuthorityFacts DEF UAuthoritiesOf

\* The listener of an ingress being removed closes, with its connections.
LEMMA CloseListenerKeeps ==
  ASSUME UrlInv, UCloseListener
  PROVE  UrlInv'
<1>0. UTyped /\ UEntriesOK /\ UOpOK /\ UDarkOK /\ URowsOK /\ UFlowsOK /\ UFlowsFollowTarget
  BY DEF UrlInv
<1>x. PICK k : k = uOp.request.ingress
  OBVIOUS
<1>1. /\ uOp.stage = "close-listener" /\ k \in UIngresses /\ UNCHANGED <<uStored, uConfig, uPhase, uCount>>
      /\ uLive' = [uLive EXCEPT ![k] = 0] /\ uFlows' = {f \in uFlows : f.ingress # k}
      /\ uRegistry' = IF k = UTcp THEN [a \in {b \in DOMAIN uRegistry : b.kind # "tcp"} |-> uRegistry[a]]
                      ELSE uRegistry
      /\ UGoes("forget") /\ uPhase # "down" /\ uOp.stage \notin UHolding
  BY <1>0, <1>x DEF UCloseListener, UAt, UOpOK, UDarkOK, UHolding
<1>2. /\ uLive'[k] = 0 /\ uLive' \in [UIngresses -> UPolicies \cup {0}]
      /\ \A i \in UIngresses : i # k => uLive'[i] = uLive[i]
  BY <1>0, <1>1 DEF UTyped
<1>3. /\ \A a \in DOMAIN uRegistry' : a \in DOMAIN uRegistry /\ uRegistry'[a] = uRegistry[a]
      /\ \A a \in DOMAIN uRegistry : a.kind # "tcp" \/ k # UTcp => a \in DOMAIN uRegistry'
      /\ uRegistry' = [a \in DOMAIN uRegistry' |-> uRegistry'[a]]
  <2>1. uRegistry = [a \in DOMAIN uRegistry |-> uRegistry[a]]
    BY <1>0 DEF UTyped
  <2>2. CASE k = UTcp
    BY <1>1, <2>2
  <2>3. CASE k # UTcp
    BY <1>1, <2>1, <2>3
  <2> QED
    BY <2>2, <2>3
<1>4. uRegistry' = [a \in DOMAIN uRegistry' |->
          [claim |-> uRegistry'[a].claim, upstream |-> uRegistry'[a].upstream, enabled |-> uRegistry'[a].enabled]]
  <2>1. \A a \in DOMAIN uRegistry :
          uRegistry[a] = [claim |-> uRegistry[a].claim, upstream |-> uRegistry[a].upstream, enabled |-> uRegistry[a].enabled]
    BY <1>0 DEF UTyped
  <2> QED
    BY <1>3, <2>1
<1>5. ASSUME NEW a, NEW c, NEW i \in UIngresses, UDocked(i, a), i # k
      PROVE  (UHeld(a, c) => UHeld(a, c)') /\ (ULet(a, c) => ULet(a, c)')
  <2>1. (UHeld(a, c) => UOwned(a, c)) /\ (ULet(a, c) => UBacked(a, c))
    BY <1>1, NothingTaken
  <2>2. ASSUME NEW x \in DOMAIN uStored, a \in UAuthoritiesOf(x)
        PROVE  a \in UAuthoritiesOf(x)' /\ UPolicyOf(uStored[x].request)' = UPolicyOf(uStored[x].request)
    <3>1. uStored[x].request.ingress = i
      BY <1>0, <1>5, <2>2, OwnerAtListener
    <3> QED
      BY <1>1, <1>2, <1>5, <2>2, <3>1 DEF UAuthoritiesOf, UPolicyOf
  <2>3. UOwned(a, c) => UOwned(a, c)'
    BY <1>1, <2>2 DEF UOwned
  <2>4. UBacked(a, c) => UBacked(a, c)'
    BY <1>1, <2>2 DEF UBacked
  <2> QED
    BY <2>1, <2>3, <2>4, OwnedIsHeld
<1>6. URowsOK'
  <2> SUFFICES ASSUME NEW a \in DOMAIN uRegistry', ULiveRow(a)', NEW c, c = uRegistry'[a].claim
               PROVE  UHeld(a, c)' /\ (uRegistry'[a].enabled => ULet(a, c)')
    BY DEF URowsOK
  <2>1. PICK i \in UIngresses : UDocked(i, a) /\ uLive'[i] # 0
    BY DEF ULiveRow
  <2>2. i # k
    BY <1>2, <2>1
  <2>3. a \in DOMAIN uRegistry /\ uRegistry'[a] = uRegistry[a] /\ ULiveRow(a)
    BY <1>2, <1>3, <2>1, <2>2 DEF ULiveRow
  <2> QED
    BY <1>0, <1>5, <2>1, <2>2, <2>3 DEF URowsOK
<1>7. UFlowsOK'
  <2> SUFFICES ASSUME NEW f \in uFlows'
               PROVE  /\ f.ingress \in UIngresses /\ UDocked(f.ingress, f.authority) /\ uLive'[f.ingress] # 0
                      /\ ULet(f.authority, f.claim)'
    BY DEF UFlowsOK
  <2>1. f \in uFlows /\ f.ingress # k
    BY <1>1
  <2>2. f.ingress \in UIngresses /\ UDocked(f.ingress, f.authority) /\ uLive[f.ingress] # 0 /\ ULet(f.authority, f.claim)
    BY <1>0, <2>1 DEF UFlowsOK
  <2> QED
    BY <1>2, <1>5, <2>1, <2>2
<1>8. UFlowsFollowTarget'
  <2> SUFFICES ASSUME NEW f \in uFlows'
               PROVE  f.authority \in DOMAIN uRegistry' /\ uRegistry'[f.authority].claim = f.claim
                      /\ uRegistry'[f.authority].upstream = f.upstream
    BY DEF UFlowsFollowTarget
  <2>1. f \in uFlows /\ f.ingress # k
    BY <1>1
  <2>2. f.ingress \in UIngresses /\ UDocked(f.ingress, f.authority)
    BY <1>0, <2>1 DEF UFlowsOK
  <2>3. f.authority \in DOMAIN uRegistry'
    BY <1>0, <1>3, <2>1, <2>2 DEF UDocked, UFlowsFollowTarget
  <2> QED
    BY <1>0, <1>3, <2>1, <2>3 DEF UFlowsFollowTarget
<1>9. /\ uOp' = [kind |-> uOp'.kind, stage |-> uOp'.stage, id |-> uOp'.id, request |-> uOp'.request,
                 acquired |-> uOp'.acquired, todo |-> uOp'.todo]
      /\ uOp'.stage = "forget" /\ uOp'.request = uOp.request
  BY <1>0, <1>1, GoesOn DEF UGoes
<1>10. UOpOK' /\ uOp'.stage \in UStages
  BY <1>x, <1>1, <1>2, <1>9 DEF UOpOK, UOnEntry, UStages
<1>11. UEntriesOK' /\ uStored' \in [DOMAIN uStored' -> UEntryRow] /\ DOMAIN uStored' \subseteq 1 .. uCount'.ids
  BY <1>0, <1>1 DEF UEntriesOK, UTyped
<1>12. UTyped'
  BY <1>0, <1>1, <1>2, <1>4, <1>9, <1>10, <1>11 DEF UTyped
<1>13. UDarkOK'
  BY <1>1 DEF UDarkOK
<1> QED
  BY <1>6, <1>7, <1>8, <1>10, <1>11, <1>12, <1>13 DEF UrlInv

\* The URLs of a removed ingress leave the store.
LEMMA ForgetKeeps ==
  ASSUME UrlInv, UForget
  PROVE  UrlInv'
<1>0. UTyped /\ UEntriesOK /\ UOpOK /\ UDarkOK /\ URowsOK /\ UFlowsOK /\ UFlowsFollowTarget
  BY DEF UrlInv
<1>x. PICK k, ids : k = uOp.request.ingress /\ ids = {x \in DOMAIN uStored : uStored[x].request.ingress = k}
  OBVIOUS
<1>1. /\ uOp.stage = "forget" /\ k \in UIngresses /\ uLive[k] = 0 /\ UGoes("unconfigure") /\ uPhase # "down"
      /\ UNCHANGED <<uRegistry, uFlows, uConfig, uLive, uPhase, uCount>> /\ URemove(ids)
  BY <1>0, <1>x DEF UForget, UAt, UOpOK, UDarkOK, uHostVars
<1>2. /\ uStored' \in [DOMAIN uStored' -> UEntryRow]
      /\ \A y \in DOMAIN uStored \ ids : UStays(y)
      /\ UEntriesOK' /\ DOMAIN uStored' \subseteq 1 .. uCount'.ids
  BY <1>0, <1>1, RemoveEffect
<1>3. \A y \in DOMAIN uStored : UPolicyOf(uStored[y].request) = uStored[y].policy => y \notin ids
  BY <1>0, <1>x, <1>1, ServedPolicy DEF UPolicyOf
<1>4. URowsOK' /\ UFlowsOK' /\ UFlowsFollowTarget'
  BY <1>0, <1>1, <1>2, <1>3, RulesStay DEF UHolding
<1>5. /\ uOp' = [kind |-> uOp'.kind, stage |-> uOp'.stage, id |-> uOp'.id, request |-> uOp'.request,
                 acquired |-> uOp'.acquired, todo |-> uOp'.todo]
      /\ uOp'.stage = "unconfigure" /\ uOp'.request = uOp.request
  BY <1>0, <1>1, GoesOn DEF UGoes
<1>6. UOpPlain'
  BY <1>x, <1>1, <1>5 DEF UOpPlain
<1>7. UCountKept
  BY <1>0, <1>1 DEF UTyped, UCountKept
<1>8. uRegistry' = [a \in DOMAIN uRegistry' |->
          [claim |-> uRegistry'[a].claim, upstream |-> uRegistry'[a].upstream, enabled |-> uRegistry'[a].enabled]]
  BY <1>0, <1>1 DEF UTyped
<1> QED
  BY <1>1, <1>2, <1>4, <1>6, <1>7, <1>8, PlainOp, InvariantFrom DEF UOpPlain

\* Nothing in memory: nothing to answer for.
LEMMA DarkKeeps ==
  ASSUME UTyped, UEntriesOK, UNCHANGED <<uStored, uConfig>>, UCountKept, uCount'.ids = uCount.ids,
         uLive' \in [UIngresses -> UPolicies \cup {0}],
         DOMAIN uRegistry' = {}, uRegistry' = [a \in {} |-> 0], uFlows' = {}, UOpPlain', uPhase' # "down" \/ UAt("none")'
  PROVE  UrlInv'
<1>1. uRegistry' = [a \in DOMAIN uRegistry' |->
          [claim |-> uRegistry'[a].claim, upstream |-> uRegistry'[a].upstream, enabled |-> uRegistry'[a].enabled]]
  OBVIOUS
<1>2. uStored' \in [DOMAIN uStored' -> UEntryRow] /\ DOMAIN uStored' \subseteq 1 .. uCount'.ids /\ UEntriesOK'
  BY DEF UTyped, UEntriesOK
<1>3. UOpOK' /\ uOp'.stage \in UStages
  BY PlainOp
<1>4. UTyped'
  BY <1>1, <1>2, <1>3 DEF UTyped, UCountKept, UOpPlain
<1>5. URowsOK' /\ UFlowsOK' /\ UFlowsFollowTarget' /\ UDarkOK'
  BY DEF URowsOK, UFlowsOK, UFlowsFollowTarget, UDarkOK
<1> QED
  BY <1>2, <1>3, <1>4, <1>5 DEF UrlInv

\* The controller starts, stops or dies; rows and connections live in its memory.
LEMMA ControllerKeeps ==
  ASSUME UrlInv, UStop \/ UCrash \/ UStart \/ UStartFails
  PROVE  UrlInv'
<1>0. UTyped /\ UEntriesOK /\ UDarkOK
  BY DEF UrlInv
<1>1. UCountKept /\ uCount'.ids = uCount.ids
  <2>1. CASE UNCHANGED uCount
    BY <1>0, <2>1 DEF UTyped, UCountKept
  <2>2. CASE UFault \/ UStart
    BY <1>0, <2>2, FaultCounts, CountsStay DEF UStart, UCountKept
  <2> QED
    BY <2>1, <2>2 DEF UStop, UCrash, UStartFails
<1>2. CASE UStop \/ UCrash \/ UStartFails
  <2>1. /\ UNCHANGED <<uStored, uConfig>> /\ uLive' = [i \in UIngresses |-> 0] /\ uRegistry' = UNothing
        /\ uFlows' = {} /\ uOp' = UIdle
    BY <1>2 DEF UStop, UCrash, UStartFails, UDown
  <2>2. uLive' \in [UIngresses -> UPolicies \cup {0}]
    BY <2>1
  <2>3. UOpPlain' /\ UAt("none")'
    BY <2>1, IdleOp DEF UAt
  <2>4. uRegistry' = [a \in {} |-> 0] /\ DOMAIN uRegistry' = {}
    BY <2>1 DEF UNothing
  <2> QED
    BY <1>0, <1>1, <2>1, <2>2, <2>3, <2>4, DarkKeeps
<1>3. CASE UStart
  <2>1. /\ uPhase = "down" /\ uLive' = uConfig /\ uPhase' = "starting" /\ UBegins("start", "stale-caddy", 0, 0)
        /\ UNCHANGED <<uStored, uRegistry, uFlows, uConfig>>
    BY <1>3 DEF UStart, uRouteVars
  <2>2. DOMAIN uRegistry' = {} /\ uFlows' = {}
    BY <1>0, <2>1 DEF UDarkOK
  <2>3. uRegistry' = [a \in {} |-> 0]
    BY <1>0, <2>1, <2>2 DEF UTyped
  <2>4. UOpPlain'
    <3>1. uOp' = [kind |-> "start", stage |-> "stale-caddy", id |-> 0, request |-> 0, acquired |-> FALSE, todo |-> {}]
      BY <2>1, BeginsPlain
    <3> QED
      BY <3>1 DEF UOpPlain
  <2>5. uLive' \in [UIngresses -> UPolicies \cup {0}] /\ uPhase' # "down"
    BY <1>0, <2>1 DEF UTyped
  <2> QED
    BY <1>0, <1>1, <2>1, <2>2, <2>3, <2>4, <2>5, DarkKeeps
<1> QED
  BY <1>2, <1>3

-----------------------------------------------------------------------------
\* Every step keeps the invariant.
LEMMA UrlStep ==
  ASSUME UrlInv, [UrlNext]_uVars
  PROVE  UrlInv'
<1>1. CASE UNCHANGED uVars
  <2>1. UNCHANGED <<uStored, uConfig, uLive, uRegistry, uFlows, uOp, uPhase, uCount>>
    BY <1>1 DEF uVars
  <2>2. UTyped /\ UEntriesOK /\ UOpOK /\ UDarkOK /\ URowsOK /\ UFlowsOK /\ UFlowsFollowTarget
    BY DEF UrlInv
  <2>3. UTyped' /\ UEntriesOK' /\ UDarkOK' /\ UFlowsFollowTarget'
    BY <2>1, <2>2 DEF UTyped, UEntriesOK, UDarkOK, UAt, UFlowsFollowTarget
  <2>4. UOpOK'
    BY <2>1, <2>2, SameOp
  <2>5. \A a, c : (UHeld(a, c) => UHeld(a, c)') /\ (ULet(a, c) => ULet(a, c)')
    BY <2>1, SameRules
  <2>6. URowsOK' /\ UFlowsOK'
    BY <2>1, <2>2, <2>5 DEF URowsOK, ULiveRow, UFlowsOK
  <2> QED
    BY <2>3, <2>4, <2>6 DEF UrlInv
<1>2. CASE URouteStep
  <2>1. CASE \E r \in URequests : UCreate(r)
    BY <2>1, CreateKeeps
  <2>2. CASE \E ids \in SUBSET DOMAIN uStored : UList(ids) \/ UInitialize(ids)
    BY <2>2, TakesKeep
  <2>3. CASE \E ids \in SUBSET DOMAIN uStored : \E kind \in {"revoke", "delete", "delete-all"} : URevoke(kind, ids)
    BY <2>3, TakesKeep
  <2>4. CASE \E id \in DOMAIN uStored : UApprove(id)
    BY <2>4, ApproveKeeps
  <2>5. CASE UReconcileSkips \/ UReconcileFails \/ URebindFails \/ UProvisionFails \/ UMarkFails \/ UApproveFails
    BY <2>5, QuietKeep
  <2>6. CASE UReconcile \/ URebind \/ URenew \/ URenewFails
    BY <2>6, ReconcileKeeps, RebindKeeps, RenewKeeps, RenewFailsKeeps
  <2>7. CASE UProvision \/ UStore \/ UStoreFails
    BY <2>7, ProvisionKeeps, StoreKeeps, StoreFailsKeeps
  <2>8. CASE UMark \/ UClose \/ UDeleted
    BY <2>8, MarkKeeps, CloseKeeps, DeletedKeeps
  <2>9. CASE UApproved \/ USwitch
    BY <2>9, ApprovedKeeps, SwitchKeeps
  <2> QED
    BY <1>2, <2>1, <2>2, <2>3, <2>4, <2>5, <2>6, <2>7, <2>8, <2>9 DEF URouteStep
<1>3. CASE UHostStep
  <2>1. CASE \/ \E i \in UIngresses, a \in DOMAIN uRegistry : UConnect(i, a)
             \/ \E f \in uFlows : UDisconnect(f)
             \/ \E t \in UTargets : UTargetMoves(t)
    BY <2>1, ConnectionsKeep
  <2>2. CASE \/ \E c \in UConfigurations : UIngressAdd(c[1], c[2])
             \/ \E i \in UIngresses, cleanup \in BOOLEAN : UIngressRemove(i, cleanup)
    BY <2>2, ConfigKeeps
  <2>3. CASE UStopCaddy \/ UStopCaddyFails \/ UStaleCaddy \/ UEnsureDns \/ UCaddyUp \/ UUnconfigure
    BY <2>3, HostStagesKeep
  <2>4. CASE UCloseListener \/ UForget
    BY <2>4, CloseListenerKeeps, ForgetKeeps
  <2>5. CASE UStop \/ UCrash \/ UStart \/ UStartFails
    BY <2>5, ControllerKeeps
  <2> QED
    BY <1>3, <2>1, <2>2, <2>3, <2>4, <2>5 DEF UHostStep
<1> QED
  BY <1>1, <1>2, <1>3 DEF UrlNext

\* The invariant holds initially.
LEMMA UrlStarts ==
  ASSUME UInit
  PROVE  UrlInv
<1>1. UTyped
  <2>1. uStored = [x \in {} |-> 0] /\ uRegistry = [x \in {} |-> 0] /\ DOMAIN uStored = {} /\ DOMAIN uRegistry = {}
    BY DEF UInit, UNothing
  <2>2. uLive \in [UIngresses -> UPolicies \cup {0}] /\ uConfig \in [UIngresses -> UPolicies \cup {0}]
    BY DEF UInit
  <2>3. uOp = UIdle /\ uOp.stage \in UStages
        /\ uOp = [kind |-> uOp.kind, stage |-> uOp.stage, id |-> uOp.id, request |-> uOp.request,
                  acquired |-> uOp.acquired, todo |-> uOp.todo]
    BY DEF UInit, UIdle, UStages
  <2>4. uCount \in [ids : Nat, starts : Nat, edits : Nat, moves : Nat, faults : Nat]
    BY DEF UInit
  <2>5. uStored \in [DOMAIN uStored -> UEntryRow]
    BY <2>1
  <2> QED
    BY <2>1, <2>2, <2>3, <2>4, <2>5 DEF UTyped
<1>2. uOp.stage = "none" /\ DOMAIN uStored = {} /\ DOMAIN uRegistry = {} /\ uFlows = {}
  BY DEF UInit, UIdle, UNothing
<1>3. UEntriesOK /\ UOpOK /\ UDarkOK /\ URowsOK /\ UFlowsOK /\ UFlowsFollowTarget
  BY <1>2 DEF UEntriesOK, UOpOK, UOnEntry, UDarkOK, UAt, URowsOK, UFlowsOK, UFlowsFollowTarget
<1> QED
  BY <1>1, <1>3 DEF UrlInv

(***************************************************************************)
(* UNoStrayFlow holds of every behaviour, for any number of URLs,          *)
(* policies, starts, edits, moves and faults: between operations nothing   *)
(* answers for a URL that is not let through, and no connection outlives   *)
(* its row (createUrl, reconcileStoredRoute, deleteUrl,                    *)
(* transitionRouteApproval, WorkspaceRouteRegistry.provision).             *)
(***************************************************************************)
THEOREM NoFlowStrays == UrlSpec => []UNoStrayFlow
<1>1. UInit => UrlInv
  BY UrlStarts
<1>2. UrlInv /\ [UrlNext]_uVars => UrlInv'
  BY UrlStep
<1>3. UrlInv => UNoStrayFlow
  <2> SUFFICES ASSUME UrlInv PROVE UNoStrayFlow
    OBVIOUS
  <2>1. URowsOK /\ UFlowsOK /\ UFlowsFollowTarget
    BY DEF UrlInv
  <2>2. ASSUME UServes, NEW a, NEW c, ULet(a, c)
        PROVE  UBacked(a, c)
    BY <2>2, NothingTaken DEF UServes, UAt, UHolding
  <2>3. UExposureBacked
    BY <2>1, <2>2 DEF UExposureBacked, URowsOK, UFlowsOK, ULiveRow
  <2> QED
    BY <2>1, <2>3 DEF UNoStrayFlow
<1> QED
  BY <1>1, <1>2, <1>3, PTL DEF UrlSpec
=============================================================================
