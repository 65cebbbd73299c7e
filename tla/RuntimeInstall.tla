--------------------------- MODULE RuntimeInstall ---------------------------
(***************************************************************************)
(* The installer of the dim CLI and its plugins (installer/cliInstall.ts,  *)
(* pluginInstall.ts): a runtime is built in a staging directory, takes the *)
(* place of runtime/current, the controller is restarted from it, and the  *)
(* user's configuration commits it; a failure before that puts the former  *)
(* runtime back.                                                           *)
(*                                                                         *)
(* A build is the number of the installation that made it.  The link on    *)
(* PATH points at the path of the current runtime, whichever build is      *)
(* there.  One installer at a time; removing a directory tree does not     *)
(* fail half way.                                                          *)
(***************************************************************************)
EXTENDS Naturals, FiniteSets

CONSTANTS IPlugins,     \* plugin packages
          IRequired,    \* those a core installation selects (the host mirrors)
          IMaxBuilds,   \* bound on builds
          IMaxRuns,     \* bound on installer invocations
          IMaxFaults    \* bound on failures and deaths

ASSUME RuntimeAssumption == IRequired \subseteq IPlugins

VARIABLES
    iBuilds,       \* builds made: installed and enabled plugins
    iCurrent,      \* build at runtime/current, 0: none
    iBackups,      \* builds in .previous directories
    iStaging,      \* staging directories left: their number
    iLink,         \* the link on PATH: absent, managed, foreign
    iConfig,       \* build the user configuration committed, 0: none
    iController,   \* build the controller runs from, 0: stopped
    iRun,          \* the installer under way
    iCount

iVars == <<iBuilds, iCurrent, iBackups, iStaging, iLink, iConfig, iController, iRun, iCount>>

INo == [kind |-> "none", stage |-> "none", build |-> 0, moved |-> 0, promoted |-> FALSE, restarted |-> FALSE,
        ready |-> FALSE, bundle |-> FALSE, expose |-> FALSE, snapshot |-> "none", plugins |-> {}]

IInit ==
    /\ iBuilds = [b \in {} |-> 0]
    /\ iCurrent = 0 /\ iBackups = {} /\ iStaging = 0
    /\ iLink \in {"absent", "foreign"}
    /\ iConfig = 0 /\ iController = 0
    /\ iRun = INo
    /\ iCount = [runs |-> 0, faults |-> 0]

IFault == iCount.faults < IMaxFaults /\ iCount' = [iCount EXCEPT !.faults = @ + 1]
IAt(stage) == iRun.stage = stage
IGoes(stage) == iRun' = [iRun EXCEPT !.stage = stage]
IMade == Cardinality(DOMAIN iBuilds)

(* readManifest and readPackageJson of the current runtime.                *)
INoRuntime == [installed |-> {}, enabled |-> {}]
IManifest == IF iCurrent = 0 THEN INoRuntime ELSE iBuilds[iCurrent]

iHostVars == <<iLink, iConfig, iController>>
iTreeVars == <<iBuilds, iCurrent, iBackups, iStaging>>

-----------------------------------------------------------------------------
(* Commands.                                                               *)

IStarts == iRun = INo /\ iCount.runs < IMaxRuns /\ iCount' = [iCount EXCEPT !.runs = @ + 1]

(* prepareCliPluginGraph: the plugins enabled so far go along, each at its *)
(* installed version; an enabled plugin that is not installed stops it,    *)
(* with its staging directory left behind.  A local bundle holds the       *)
(* required plugins without enabling them.                                 *)
IGraph == IManifest.enabled \subseteq IManifest.installed \cup IRequired

IInstallCore(expose, bundle) ==
    /\ IStarts
    /\ iStaging' = iStaging + 1
    /\ iRun' = IF IGraph
               THEN [INo EXCEPT !.kind = "core", !.stage = "stage", !.expose = expose, !.bundle = bundle,
                                !.plugins = IManifest.enabled \cup IRequired]
               ELSE INo
    /\ UNCHANGED <<iBuilds, iCurrent, iBackups, iHostVars>>

(* A plugin goes into a copy of the current runtime, when the configured   *)
(* CLI is the one installed.                                               *)
IConfigured == iConfig # 0 /\ iCurrent # 0

IInstallPlugin(p) ==
    /\ IStarts /\ IConfigured
    /\ iStaging' = iStaging + 1
    /\ iRun' = [INo EXCEPT !.kind = "plugin", !.stage = "stage", !.plugins = {p}]
    /\ UNCHANGED <<iBuilds, iCurrent, iBackups, iHostVars>>

(* npm install into the staging directory, the version and plugin checks,  *)
(* the state preflight of the staged core, and plugins.json.               *)
IStaged ==
    IF iRun.kind = "core"
    THEN [installed |-> iRun.plugins, enabled |-> IManifest.enabled \cup (IF iRun.bundle THEN {} ELSE IRequired)]
    ELSE [installed |-> IManifest.installed \cup iRun.plugins, enabled |-> IManifest.enabled \cup iRun.plugins]

IStage ==
    /\ IAt("stage") /\ IMade < IMaxBuilds
    /\ iBuilds' = [b \in 1..(IMade + 1) |-> IF b = IMade + 1 THEN IStaged ELSE iBuilds[b]]
    /\ iRun' = [iRun EXCEPT !.stage = "aside", !.build = IMade + 1]
    /\ UNCHANGED <<iCurrent, iBackups, iStaging, iHostVars, iCount>>

(* rename(current, backup).                                                *)
IMoveAside ==
    /\ IAt("aside")
    /\ iCurrent' = 0
    /\ iBackups' = IF iCurrent = 0 THEN iBackups ELSE iBackups \cup {iCurrent}
    /\ iRun' = [iRun EXCEPT !.stage = "promote", !.moved = iCurrent]
    /\ UNCHANGED <<iBuilds, iStaging, iHostVars, iCount>>

(* rename(staging, current).  Only a bundle may defer the restart.         *)
IPromote ==
    /\ IAt("promote")
    /\ iCurrent' = iRun.build
    /\ iStaging' = iStaging - 1
    /\ \E restart \in (IF iRun.bundle THEN BOOLEAN ELSE {TRUE}) :
         iRun' = [iRun EXCEPT !.stage = IF restart THEN "restart" ELSE "link", !.promoted = TRUE]
    /\ UNCHANGED <<iBuilds, iBackups, iHostVars, iCount>>

IRestart ==
    /\ IAt("restart")
    /\ iController' = iCurrent
    /\ iRun' = [iRun EXCEPT !.stage = IF iRun.kind = "core" THEN "link" ELSE "drop", !.restarted = TRUE, !.ready = TRUE]
    /\ UNCHANGED <<iTreeVars, iLink, iConfig, iCount>>

(* The target does not become ready: the former controller is down.        *)
IRestartFails ==
    /\ IAt("restart") /\ IFault
    /\ iController' = 0
    /\ iRun' = [iRun EXCEPT !.stage = "undo", !.restarted = TRUE]
    /\ UNCHANGED <<iTreeVars, iLink, iConfig>>

(* snapshotManagedSymlink refuses a link of somebody else.                 *)
ILink ==
    /\ IAt("link")
    /\ IF ~iRun.expose THEN IGoes("commit") /\ UNCHANGED iLink
       ELSE IF iLink = "foreign" THEN IGoes("undo") /\ UNCHANGED iLink
       ELSE /\ iLink' = "managed"
            /\ iRun' = [iRun EXCEPT !.stage = "commit", !.snapshot = iLink]
    /\ UNCHANGED <<iTreeVars, iConfig, iController, iCount>>

(* The link cannot be made; its snapshot is taken.                         *)
ILinkFails ==
    /\ IAt("link") /\ iRun.expose /\ iLink # "foreign" /\ IFault
    /\ iRun' = [iRun EXCEPT !.stage = "undo", !.snapshot = iLink]
    /\ UNCHANGED <<iTreeVars, iHostVars>>

(* writeUserConfig commits; then every sibling directory goes.             *)
ICommit ==
    /\ IAt("commit")
    /\ iConfig' = iRun.build
    /\ IGoes("cleanup")
    /\ UNCHANGED <<iTreeVars, iLink, iController, iCount>>

ICleanup ==
    /\ IAt("cleanup")
    /\ iBackups' = {} /\ iStaging' = 0
    /\ iRun' = INo
    /\ UNCHANGED <<iBuilds, iCurrent, iHostVars, iCount>>

(* A plugin installation drops its backup.                                 *)
IDrop ==
    /\ IAt("drop")
    /\ iBackups' = iBackups \ {iRun.moved}
    /\ iRun' = INo
    /\ UNCHANGED <<iBuilds, iCurrent, iStaging, iHostVars, iCount>>

(* npm, a check, a rename or the configuration write fails, or the         *)
(* operator cancels.                                                       *)
IStepFails ==
    /\ iRun.stage \in {"stage", "aside", "promote", "commit"} /\ IFault
    /\ IGoes("undo")
    /\ UNCHANGED <<iTreeVars, iHostVars>>

-----------------------------------------------------------------------------
(* Failure before the commit.                                              *)

(* A core installation first stops the target controller it started; if    *)
(* that fails, nothing is rolled back.                                     *)
IStops == iRun.kind = "core" /\ iRun.promoted /\ iRun.ready
\* Mutant: the former runtime is given up with the new one.
IUndoEverything ==
    /\ IAt("undo")
    /\ iCurrent' = 0
    /\ iBackups' = {}
    /\ iController' = IF IStops THEN 0 ELSE iController
    /\ IGoes("back")
    /\ UNCHANGED <<iBuilds, iStaging, iLink, iConfig, iCount>>
IUndo ==
    /\ IAt("undo")
    /\ iController' = IF IStops THEN 0 ELSE iController
    /\ iCurrent' = IF iRun.promoted THEN 0 ELSE iCurrent
    /\ IGoes("back")
    /\ UNCHANGED <<iBuilds, iBackups, iStaging, iLink, iConfig, iCount>>

(* rename(backup, current).                                                *)
IPutBack ==
    /\ IAt("back")
    /\ iCurrent' = IF iRun.moved # 0 THEN iRun.moved ELSE iCurrent
    /\ iBackups' = iBackups \ {iRun.moved}
    /\ IGoes("unlink")
    /\ UNCHANGED <<iBuilds, iStaging, iHostVars, iCount>>

IUndoFails ==
    /\ IAt("undo") /\ IStops /\ IFault
    /\ iRun' = INo
    /\ UNCHANGED <<iTreeVars, iHostVars>>

(* restoreManagedSymlink: a link that was absent is removed, and an absent *)
(* one cannot be: that ends the rollback before the controller.            *)
IUnlinkThrows == iRun.snapshot = "absent" /\ iLink = "absent"
IUnlink ==
    /\ IAt("unlink")
    /\ iLink' = IF iRun.snapshot = "none" THEN iLink ELSE iRun.snapshot
    /\ IF IUnlinkThrows THEN IGoes("thrown") ELSE IGoes("return")
    /\ UNCHANGED <<iTreeVars, iConfig, iController, iCount>>

(* The controller is restarted from the runtime put back.                  *)
IReturns == iRun.moved # 0 /\ iRun.restarted
ILeaves == iStaging' = IF iRun.promoted THEN iStaging ELSE iStaging - 1

IReturn ==
    /\ IAt("return")
    /\ iController' = IF IReturns THEN iCurrent ELSE iController
    /\ ILeaves
    /\ iRun' = INo
    /\ UNCHANGED <<iBuilds, iCurrent, iBackups, iLink, iConfig, iCount>>

IReturnFails ==
    /\ \/ IAt("thrown") /\ UNCHANGED iCount
       \/ IAt("return") /\ IReturns /\ IFault
    /\ ILeaves
    /\ iRun' = INo
    /\ UNCHANGED <<iBuilds, iCurrent, iBackups, iHostVars>>

(* The installer dies; what is on disk stays.                              *)
IDies ==
    /\ iRun # INo /\ IFault
    /\ iRun' = INo
    /\ UNCHANGED <<iTreeVars, iHostVars>>

-----------------------------------------------------------------------------
(* enable-plugin, disable-plugin and remove-plugin, in the current         *)
(* runtime; they do not restart the controller.                            *)

ISetEnabled(p, enabled) ==
    /\ IStarts /\ iConfig # 0 /\ iCurrent # 0
    /\ p \in IManifest.installed /\ enabled # (p \in IManifest.enabled)
    /\ iBuilds' = [iBuilds EXCEPT ![iCurrent].enabled = IF enabled THEN @ \cup {p} ELSE @ \ {p}]
    /\ UNCHANGED <<iCurrent, iBackups, iStaging, iHostVars, iRun>>

(* removePlugins: npm uninstall, then the manifest.                        *)
IRemovePlugin(p) ==
    /\ IStarts /\ iConfig # 0 /\ iCurrent # 0
    /\ p \in IManifest.installed
    /\ iBuilds' = [iBuilds EXCEPT ![iCurrent].installed = @ \ {p}]
    /\ iRun' = [INo EXCEPT !.kind = "remove", !.stage = "manifest", !.plugins = {p}]
    /\ UNCHANGED <<iCurrent, iBackups, iStaging, iHostVars>>

IForget ==
    /\ IAt("manifest")
    /\ iBuilds' = [iBuilds EXCEPT ![iCurrent].enabled = @ \ iRun.plugins]
    /\ iRun' = INo
    /\ UNCHANGED <<iCurrent, iBackups, iStaging, iHostVars, iCount>>

-----------------------------------------------------------------------------
RuntimeNext ==
    \/ \E expose, bundle \in BOOLEAN : IInstallCore(expose, bundle)
    \/ \E p \in IPlugins : IInstallPlugin(p) \/ IRemovePlugin(p)
    \/ \E p \in IPlugins, enabled \in BOOLEAN : ISetEnabled(p, enabled)
    \/ IStage \/ IMoveAside \/ IPromote \/ IRestart \/ IRestartFails \/ ILink \/ ILinkFails
    \/ ICommit \/ ICleanup \/ IDrop \/ IStepFails
    \/ IUndo \/ IPutBack \/ IUndoFails \/ IUnlink \/ IReturn \/ IReturnFails \/ IDies \/ IForget

RuntimeSpec == IInit /\ [][RuntimeNext]_iVars

-----------------------------------------------------------------------------
IStages == {"none", "stage", "aside", "promote", "restart", "link", "commit", "cleanup", "drop",
            "undo", "back", "unlink", "thrown", "return", "manifest"}

RuntimeTypeOK ==
    /\ DOMAIN iBuilds = 1..IMade
    /\ iCurrent \in 0..IMade /\ iBackups \subseteq 1..IMade /\ iStaging \in Nat
    /\ iLink \in {"absent", "managed", "foreign"}
    /\ iConfig \in 0..IMade /\ iController \in 0..IMade
    /\ iRun.stage \in IStages

(* A runtime that was once committed never vanishes: through failures,     *)
(* rollbacks and deaths at any step, a runtime at least as new as the      *)
(* committed one is in place or in a backup, and no rollback or cleanup    *)
(* deletes the last (installDimCli, installPlugins, cleanupRuntimeSiblings).*)
IRuntimeSurvives == iConfig # 0 => \E b \in iBackups \cup {iCurrent} : b >= iConfig
=============================================================================
