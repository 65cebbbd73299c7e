------------------------- MODULE ControlPlaneInstall -------------------------
(***************************************************************************)
(* The installer of the two control-plane services (installer/             *)
(* controlPlane*.ts): first installation, update with rollback, and the    *)
(* operator's roll-forward of an interrupted transaction.                  *)
(*                                                                         *)
(* A generation is the number of the candidate that made it; its input is  *)
(* the configuration, images and secrets it was made from.  Whoever holds  *)
(* the state lock is the one installer; the kernel frees the lock of a     *)
(* dead one.  A service starts passive and is activated by name of its     *)
(* generation.  Native Git keeps its activations in its data volume, which *)
(* no installer ever removes, so it starts active in a generation it was   *)
(* once activated in; ordinary CI starts passive every time.  A service    *)
(* container restarts only when the installer replaces it: the rendered    *)
(* Compose file sets no restart policy.                                    *)
(***************************************************************************)
EXTENDS Naturals, FiniteSets

CONSTANTS CMaxGenerations,   \* bound on candidates
          CInputs,           \* installation inputs an operator may ask for
          CMaxRuns,          \* bound on installer invocations
          CMaxFaults         \* bound on failures, uncertain outcomes and deaths

ASSUME InstallAssumption == CMaxGenerations \in Nat /\ CMaxRuns \in Nat /\ CMaxFaults \in Nat

VARIABLES
    cJournal,    \* transaction.json
    cRecord,     \* generation install.json names, 0 when absent
    cCompose,    \* generation compose.yml renders, 0 when absent
    cStaged,     \* a staging directory exists
    cMade,       \* inputs of the generation directories made so far
    cService,    \* the two containers: generation (0: absent) and whether active
    cResources,  \* network and data volumes exist
    cBound,      \* generations whose activation native Git's database holds
    cRun,        \* the installer under way
    cCount

cVars == <<cJournal, cRecord, cCompose, cStaged, cMade, cService, cResources, cBound, cRun, cCount>>

CServices == {"ordinary-ci", "native-git"}
CAbsent == [generation |-> 0, active |-> FALSE]
CNoJournal == [phase |-> "none", candidate |-> 0, prior |-> 0]
CQuiet == [stage |-> "none", input |-> "none", prior |-> 0, candidate |-> 0]
CGenerations == DOMAIN cMade

InstallInit ==
    /\ cJournal = CNoJournal
    /\ cRecord = 0 /\ cCompose = 0
    /\ cStaged = FALSE
    /\ cMade = [g \in {} |-> "none"]
    /\ cService = [s \in CServices |-> CAbsent]
    /\ cResources = FALSE
    /\ cBound = {}
    /\ cRun = CQuiet
    /\ cCount = [runs |-> 0, faults |-> 0]

CFault == cCount.faults < CMaxFaults /\ cCount' = [cCount EXCEPT !.faults = @ + 1]
CAt(stage) == cRun.stage = stage
CGoes(stage) == cRun' = [cRun EXCEPT !.stage = stage]
CEnds == cRun' = CQuiet

stateVars == <<cJournal, cRecord, cCompose, cStaged, cMade>>
dockerVars == <<cService, cResources, cBound>>

(* acquireControlPlaneStateLock: nobody else installs or recovers.         *)
CLockFree == CAt("none")

(* inspectControlPlaneDocker: all resources, or none.                      *)
COwned == cResources /\ \A s \in CServices : cService[s].generation # 0
CNoResources == ~cResources /\ \A s \in CServices : cService[s].generation = 0

(* A container is the service of the generation, by its labels, mounts and *)
(* ports; both are.                                                        *)
CIsOf(s, g) == cService[s].generation = g
CRuns(g) == \A s \in CServices : CIsOf(s, g)

(* parseInstalledRecord and assertComposeMatches: the files describe one   *)
(* generation.                                                             *)
CNamed(g) == cRecord = g /\ cCompose = g

(* readControlPlaneInstalledState: no transaction, no unrecorded           *)
(* generation, no staging left, record and Compose bytes of one            *)
(* generation.                                                             *)
CReadable ==
    /\ cJournal = CNoJournal /\ ~cStaged
    /\ CNamed(cRecord)
    /\ cRecord = 0 => CGenerations = {}
    /\ cRecord # 0 => cRecord \in CGenerations

-----------------------------------------------------------------------------
(* install.                                                                *)

(* isControlPlaneInstalledInput: sources and images are the installed ones.*)
CInstalledInput(input) == cRecord # 0 /\ cMade[cRecord] = input

CStarts ==
    /\ cCount.runs < CMaxRuns /\ cCount' = [cCount EXCEPT !.runs = @ + 1]

CInstall(input) ==
    /\ CLockFree /\ CStarts
    /\ cRun' = IF CReadable
               THEN [stage |-> IF CInstalledInput(input) THEN "no-op" ELSE "stage",
                     input |-> input, prior |-> cRecord, candidate |-> 0]
               ELSE CQuiet
    /\ UNCHANGED <<stateVars, dockerVars>>

(* The same input: what is installed is validated, and nothing changes.    *)
CNoOp ==
    /\ CAt("no-op")
    /\ CEnds
    /\ UNCHANGED <<stateVars, dockerVars, cCount>>

(* stageControlPlaneSources: the journal, then the staging directory.      *)
CStage ==
    /\ CAt("stage")
    /\ cJournal' = [phase |-> "staging", candidate |-> 0, prior |-> cRun.prior]
    /\ cStaged' = TRUE
    /\ CGoes("preflight")
    /\ UNCHANGED <<cRecord, cCompose, cMade, dockerVars, cCount>>

(* Preflight: Docker resources, topology of the prior generation, image    *)
(* and address probes.  When one refuses, the staging goes.                *)
CPreflighted == IF cRun.prior = 0 THEN CNoResources ELSE COwned /\ CRuns(cRun.prior)

CPreflight ==
    /\ CAt("preflight")
    /\ CPreflighted
    /\ CGoes("finalize")
    /\ UNCHANGED <<stateVars, dockerVars, cCount>>

CPreflightFails ==
    /\ CAt("preflight")
    /\ IF CPreflighted THEN CFault ELSE UNCHANGED cCount
    /\ cStaged' = FALSE
    /\ cJournal' = CNoJournal
    /\ CEnds
    /\ UNCHANGED <<cRecord, cCompose, cMade, dockerVars>>

(* finalizeControlPlaneGeneration: the staging becomes a generation, then  *)
(* the journal names it.                                                   *)
CFinalize ==
    /\ CAt("finalize")
    /\ Cardinality(CGenerations) < CMaxGenerations
    /\ LET g == Cardinality(CGenerations) + 1 IN
       /\ cMade' = [h \in 1..g |-> IF h = g THEN cRun.input ELSE cMade[h]]
       /\ cRun' = [cRun EXCEPT !.stage = "journal", !.candidate = g]
    /\ cStaged' = FALSE
    /\ UNCHANGED <<cJournal, cRecord, cCompose, dockerVars, cCount>>

CJournalGeneration ==
    /\ CAt("journal")
    /\ cJournal' = [cJournal EXCEPT !.phase = "generation", !.candidate = cRun.candidate]
    /\ CGoes(IF cRun.prior = 0 THEN "establish" ELSE "replace ordinary-ci")
    /\ UNCHANGED <<cRecord, cCompose, cStaged, cMade, dockerVars, cCount>>

(* establishFirstControlPlaneResources.                                    *)
CEstablish ==
    /\ CAt("establish")
    /\ cResources' = TRUE
    /\ CGoes("replace ordinary-ci")
    /\ UNCHANGED <<stateVars, cService, cBound, cCount>>

(* startFirstControlPlaneService and replaceOwnedControlPlaneService, with *)
(* the wait for readiness: ordinary CI first, then native Git.  A service  *)
(* that starts looks for its activation (initializeNativeBundleRuntime).   *)
CStarted(s, g) == [generation |-> g, active |-> s = "native-git" /\ g \in cBound]
CReplaceService(s, stage, next, g) ==
    /\ CAt(stage)
    /\ cService' = [cService EXCEPT ![s] = CStarted(s, g)]
    /\ CGoes(next)
    /\ UNCHANGED <<stateVars, cResources, cBound, cCount>>
CReplaceOrdinary == CReplaceService("ordinary-ci", "replace ordinary-ci", "replace native-git", cRun.candidate)
CReplaceNative == CReplaceService("native-git", "replace native-git", "publish", cRun.candidate)

(* publishControlPlaneInstalledState: journal, Compose file, record.       *)
CMarkPublishing ==
    /\ CAt("publish")
    /\ cJournal' = [cJournal EXCEPT !.phase = "publishing"]
    /\ CGoes("compose")
    /\ UNCHANGED <<cRecord, cCompose, cStaged, cMade, dockerVars, cCount>>

CPublishCompose ==
    /\ CAt("compose")
    /\ cCompose' = cRun.candidate
    /\ CGoes("record")
    /\ UNCHANGED <<cJournal, cRecord, cStaged, cMade, dockerVars, cCount>>

\* Mutant: the journal goes with the record's publication.
CPublishRecordCompletes ==
    /\ CAt("record")
    /\ cRecord' = cRun.candidate
    /\ cJournal' = CNoJournal
    /\ CGoes("activate ordinary-ci")
    /\ UNCHANGED <<cCompose, cStaged, cMade, dockerVars, cCount>>
CPublishRecord ==
    /\ CAt("record")
    /\ cRecord' = cRun.candidate
    /\ CGoes("activate ordinary-ci")
    /\ UNCHANGED <<cJournal, cCompose, cStaged, cMade, dockerVars, cCount>>

(* activateService: the container is the one of the generation.  Native    *)
(* Git writes the activation down before it acts on it.                    *)
CBinds(s, g) == cBound' = IF s = "native-git" THEN cBound \cup {g} ELSE cBound
CActivateService(s, stage, next, g) ==
    /\ CAt(stage)
    /\ COwned /\ CIsOf(s, g)
    /\ CBinds(s, g)
    /\ cService' = [cService EXCEPT ![s].active = TRUE]
    /\ CGoes(next)
    /\ UNCHANGED <<stateVars, cResources, cCount>>
CActivateOrdinary == CActivateService("ordinary-ci", "activate ordinary-ci", "activate native-git", cRun.candidate)
CActivateNative == CActivateService("native-git", "activate native-git", "complete", cRun.candidate)

(* completeControlPlanePublication.                                        *)
CComplete ==
    /\ CAt("complete")
    /\ cJournal' = CNoJournal
    /\ CEnds
    /\ UNCHANGED <<cRecord, cCompose, cStaged, cMade, dockerVars, cCount>>

-----------------------------------------------------------------------------
(* Failures.                                                               *)

CDeploying == {"establish", "replace ordinary-ci", "replace native-git", "publish", "compose", "record"}

(* What a Docker command that fails, or whose caller dies, may already     *)
(* have done: the service is still there, gone, or replaced; the           *)
(* activation is not there, written down, or done.                         *)
CMayReplace(s, g) ==
    /\ cService' \in {[cService EXCEPT ![s] = v] : v \in {cService[s], CAbsent, CStarted(s, g)}}
    /\ cBound' = cBound
CMayActivate(s, g) ==
    \/ UNCHANGED <<cService, cBound>>
    \/ /\ COwned /\ CIsOf(s, g)
       /\ CBinds(s, g)
       /\ cService' \in {cService, [cService EXCEPT ![s].active = TRUE]}

CHalfDone ==
    CASE cRun.stage = "replace ordinary-ci" -> CMayReplace("ordinary-ci", cRun.candidate)
      [] cRun.stage = "replace native-git" -> CMayReplace("native-git", cRun.candidate)
      [] cRun.stage = "restore ordinary-ci" -> CMayReplace("ordinary-ci", cRun.prior)
      [] cRun.stage = "restore native-git" -> CMayReplace("native-git", cRun.prior)
      [] cRun.stage \in {"activate ordinary-ci", "forward ordinary-ci"} -> CMayActivate("ordinary-ci", cRun.candidate)
      [] cRun.stage \in {"activate native-git", "forward native-git"} -> CMayActivate("native-git", cRun.candidate)
      [] cRun.stage = "reactivate ordinary-ci" -> CMayActivate("ordinary-ci", cRun.prior)
      [] cRun.stage = "reactivate native-git" -> CMayActivate("native-git", cRun.prior)
      [] OTHER -> UNCHANGED <<cService, cBound>>

(* cleanupFailedFirstControlPlane.                                         *)
CCleanedUp == [s \in CServices |-> CAbsent]

(* A first installation that fails before activation: owned containers and *)
(* the network are removed (or the cleanup fails too), volumes and         *)
(* evidence stay, and the journal says so.                                 *)
CFirstFails ==
    /\ cRun.stage \in CDeploying /\ cRun.prior = 0
    /\ CFault
    /\ \/ CHalfDone
       \/ cService' = CCleanedUp /\ cBound' = cBound
    /\ cResources' \in {cResources, TRUE}
    /\ cJournal' = [cJournal EXCEPT !.phase = "failed-first-install"]
    /\ CEnds
    /\ UNCHANGED <<cRecord, cCompose, cStaged, cMade>>

(* An update that fails before activation is rolled back.                  *)
CUpdateFails ==
    /\ cRun.stage \in CDeploying /\ cRun.prior # 0
    /\ CFault
    /\ CHalfDone
    /\ CGoes("restore ordinary-ci")
    /\ UNCHANGED <<stateVars, cResources>>

(* Once activation started, or when a Docker outcome is uncertain,         *)
(* everything is left as it is, journal included.                          *)
CRetained ==
    /\ cRun.stage \notin {"none", "no-op", "preflight"}
    /\ CFault
    /\ CHalfDone
    /\ CEnds
    /\ UNCHANGED <<stateVars, cResources>>

(* The installer dies.                                                     *)
CDies ==
    /\ ~CAt("none")
    /\ CFault
    /\ CHalfDone
    /\ CEnds
    /\ UNCHANGED <<stateVars, cResources>>

-----------------------------------------------------------------------------
(* rollbackControlPlaneUpdate: prior services, prior files, activation,    *)
(* journal.                                                                *)

CRestoreOrdinary ==
    COwned /\ CReplaceService("ordinary-ci", "restore ordinary-ci", "restore native-git", cRun.prior)
CRestoreNative ==
    COwned /\ CReplaceService("native-git", "restore native-git", "restore compose", cRun.prior)

(* A service is missing: the rollback gives up, and its evidence stays.    *)
CRollbackFails ==
    /\ cRun.stage \in {"restore ordinary-ci", "restore native-git"}
    /\ ~COwned
    /\ CEnds
    /\ UNCHANGED <<stateVars, dockerVars, cCount>>

CRestoreCompose ==
    /\ CAt("restore compose")
    /\ cCompose' = cRun.prior
    /\ CGoes("restore record")
    /\ UNCHANGED <<cJournal, cRecord, cStaged, cMade, dockerVars, cCount>>

CRestoreRecord ==
    /\ CAt("restore record")
    /\ cRecord' = cRun.prior
    /\ CGoes("reactivate ordinary-ci")
    /\ UNCHANGED <<cJournal, cCompose, cStaged, cMade, dockerVars, cCount>>

CReactivateOrdinary ==
    CActivateService("ordinary-ci", "reactivate ordinary-ci", "reactivate native-git", cRun.prior)
CReactivateNative ==
    CActivateService("native-git", "reactivate native-git", "rolled back", cRun.prior)

(* completeControlPlaneRollback.                                           *)
CRolledBack ==
    /\ CAt("rolled back")
    /\ cJournal' = CNoJournal
    /\ CEnds
    /\ UNCHANGED <<cRecord, cCompose, cStaged, cMade, dockerVars, cCount>>

-----------------------------------------------------------------------------
(* rollForwardControlPlane, by the operator.                               *)

(* readRecoveryState: a publishing journal whose candidate the record and  *)
(* the Compose file both name.                                             *)
CRecoverable ==
    /\ cJournal.phase = "publishing" /\ ~cStaged
    /\ CNamed(cJournal.candidate)
    /\ cJournal.prior # 0 => cJournal.prior \in CGenerations

CRollForward ==
    /\ CLockFree /\ CStarts
    /\ cJournal # CNoJournal
    /\ cRun' = IF CRecoverable /\ COwned /\ CRuns(cJournal.candidate)
               THEN [stage |-> "forward ordinary-ci", input |-> "none",
                     prior |-> cJournal.prior, candidate |-> cJournal.candidate]
               ELSE CQuiet
    /\ UNCHANGED <<stateVars, dockerVars>>

CForwardOrdinary ==
    CActivateService("ordinary-ci", "forward ordinary-ci", "forward native-git", cRun.candidate)
CForwardNative ==
    CActivateService("native-git", "forward native-git", "forwarded", cRun.candidate)

(* Validated again, evidence unchanged: the journal goes.                  *)
CForwarded ==
    /\ CAt("forwarded")
    /\ CRecoverable /\ CRuns(cRun.candidate)
    /\ cJournal' = CNoJournal
    /\ CEnds
    /\ UNCHANGED <<cRecord, cCompose, cStaged, cMade, dockerVars, cCount>>

-----------------------------------------------------------------------------
CInstalls ==
    \/ CNoOp \/ CStage \/ CPreflight \/ CPreflightFails \/ CFinalize \/ CJournalGeneration \/ CEstablish
    \/ CReplaceOrdinary \/ CReplaceNative
    \/ CMarkPublishing \/ CPublishCompose \/ CPublishRecord
    \/ CActivateOrdinary \/ CActivateNative \/ CComplete
CRollsBack ==
    \/ CRestoreOrdinary \/ CRestoreNative \/ CRollbackFails \/ CRestoreCompose \/ CRestoreRecord
    \/ CReactivateOrdinary \/ CReactivateNative \/ CRolledBack
CRollsForward == CForwardOrdinary \/ CForwardNative \/ CForwarded
CFails == CFirstFails \/ CUpdateFails \/ CRetained \/ CDies

InstallNext ==
    \/ \E input \in CInputs : CInstall(input)
    \/ CInstalls \/ CRollsBack \/ CRollForward \/ CRollsForward \/ CFails

InstallSpec == InstallInit /\ [][InstallNext]_cVars

-----------------------------------------------------------------------------
InstallTypeOK ==
    /\ cJournal.phase \in {"none", "staging", "generation", "publishing", "failed-first-install"}
    /\ {cRecord, cCompose, cJournal.candidate, cJournal.prior} \subseteq {0} \cup CGenerations
    /\ CGenerations \subseteq 1..CMaxGenerations
    /\ \A s \in CServices : cService[s].generation \in {0} \cup CGenerations
    /\ cBound \subseteq CGenerations

(* Without a transaction journal, whoever reads the state finds what runs: *)
(* nothing, or both services active in the one generation that the record  *)
(* and the Compose file name, whatever failed or died before.              *)
UnjournaledIsWhole ==
    cJournal = CNoJournal =>
        \/ CRuns(0) /\ cRecord = 0 /\ cCompose = 0
        \/ /\ cRecord # 0 /\ cCompose = cRecord
           /\ \A s \in CServices : cService[s] = [generation |-> cRecord, active |-> TRUE]

(* A service is active only in a generation that record and Compose file   *)
(* both name, so a candidate never is before they name it.  The one        *)
(* exception is a rollback: native Git, put back to the prior generation,  *)
(* is active at once, before the files name that generation again; it is   *)
(* the generation the journal would go back to, and under the journal      *)
(* nobody takes the files for the state.                                   *)
ActiveIsRecorded ==
    \A s \in CServices : cService[s].active =>
        \/ CNamed(cService[s].generation)
        \/ /\ s = "native-git"
           /\ cJournal # CNoJournal /\ cService[s].generation = cJournal.prior

(* What a reader of the state directory believes is what runs.             *)
StateIsTrue == UnjournaledIsWhole /\ ActiveIsRecorded
=============================================================================
