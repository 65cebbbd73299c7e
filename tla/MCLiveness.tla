------------------------------ MODULE MCLiveness ------------------------------
(* Liveness for TLC: root CI, the QEMU scheduler, Project setup, the lifecycle  *)
(* lock, workspaces and command sessions.  The parts share no variable: subject *)
(* names the part that moves, and the fairness of a part is asked of the        *)
(* behaviours in which it moves.                                                *)
EXTENDS RootCi, QemuScheduler, ProjectSetup, LifecycleLock, Workspaces, CommandSessions

VARIABLE subject

(* The QEMU scheduler moves in one of two ways: with one host worker and all    *)
(* faults, or with all workers and no fault, where wakes are lost.              *)
OneWorker == "QEMU"
ManyWorkers == "QEMU workers"
Resting == CHOOSE l \in QLanes : TRUE
QemuMoves == subject \in {OneWorker, ManyWorkers}
QemuWorks(l) == subject = ManyWorkers \/ (subject = OneWorker /\ l # Resting)

LivenessInit ==
    /\ subject \in {"root CI", OneWorker, ManyWorkers, "setup", "lock", "workspace", "session"}
    /\ Init /\ QemuInit /\ SetupInit /\ LockInit /\ WorkspaceInit /\ SessionInit

LivenessNext ==
    \/ subject = "root CI" /\ Next /\ UNCHANGED <<subject, qVars, sVars, kVars, wVars, nVars>>
    \/ /\ QemuMoves /\ QemuNext
       /\ subject = OneWorker => qJournal'[Resting] = QNoJournal
       /\ subject = ManyWorkers => qFaults' = 0
       /\ UNCHANGED <<subject, vars, sVars, kVars, wVars, nVars>>
    \/ subject = "setup" /\ SetupNext /\ UNCHANGED <<subject, vars, qVars, kVars, wVars, nVars>>
    \/ subject = "lock" /\ LockNext /\ UNCHANGED <<subject, vars, qVars, sVars, wVars, nVars>>
    \/ subject = "workspace" /\ WorkspaceNext /\ UNCHANGED <<subject, vars, qVars, sVars, kVars, nVars>>
    \/ subject = "session" /\ SessionNext /\ UNCHANGED <<subject, vars, qVars, sVars, kVars, wVars>>

(* The fairness of each module, while its part is the one that moves.           *)
RootCiFair ==
    /\ \A c \in Capacities : /\ WF_vars(subject = "root CI" /\ WorkerStep(c))
                             /\ WF_vars(subject = "root CI" /\ Start(c))
                             /\ WF_vars(subject = "root CI" /\ HandlerStep(c))
    /\ WF_vars(subject = "root CI" /\ ReporterStep)
    /\ WF_vars(subject = "root CI" /\ ServiceActivates)

QemuFair ==
    /\ WF_qVars(QemuMoves /\ \E e \in QEvents : QemuIntake(e))
    /\ WF_qVars(QemuMoves /\ QemuHostStarts)
    /\ \A l \in QLanes : WF_qVars(QemuWorks(l) /\ QemuWorker(l))
    /\ \A c \in QClaims : WF_qVars(QemuMoves /\ QemuHandler(c))
    /\ WF_qVars(QemuMoves /\ QemuReporter)

SetupFair ==
    /\ WF_sVars(subject = "setup" /\ (SProvision \/ SPrepared))
    /\ WF_sVars(subject = "setup" /\ SImporting)
    /\ WF_sVars(subject = "setup" /\ SStart)

LockFair ==
    \A p \in KProcesses : WF_kVars(subject = "lock" /\ KTakes(p)) /\ WF_kVars(subject = "lock" /\ KEnds(p))

WorkspaceFair ==
    /\ \A p \in WWorkers : WF_wVars(subject = "workspace" /\ WWork(p))
    /\ WF_wVars(subject = "workspace" /\ WSelfRestart)
    /\ WF_wVars(subject = "workspace" /\ (WServe \/ WServed))

SessionFair ==
    /\ WF_nVars(subject = "session" /\ NRequests)
    /\ WF_nVars(subject = "session" /\ NRead)
    /\ WF_nVars(subject = "session" /\ NReadFinal)

LivenessSpec ==
    /\ LivenessInit
    /\ [][LivenessNext]_<<subject, vars, qVars, sVars, kVars, wVars, nVars>>
    /\ RootCiFair /\ QemuFair /\ SetupFair /\ LockFair /\ WorkspaceFair /\ SessionFair
==============================================================================
