---------------------------- MODULE ProjectSetup ----------------------------
(***************************************************************************)
(* Setting up a native Project: the host's bootstrap, admission and ready  *)
(* commands with their draft and Project records                           *)
(* (core/nativeProject*.ts, nativeGitRootImporter*.ts), and native Git's   *)
(* preparation and root import with their startup recovery                 *)
(* (native-git/native-project-regist*.ts, native-project-root-import-*.ts, *)
(* native-root-import-*.ts).                                               *)
(*                                                                         *)
(* One Project.  An intent is a root commit with its policy and bundle     *)
(* bytes; equal intents have equal digests.  A file published with link    *)
(* and unlink is "linked" while it still has two names.                    *)
(***************************************************************************)
EXTENDS Naturals, Sequences, FiniteSets

CONSTANTS SIntents,      \* root commits an operator may try to import
          SCommands,     \* host command processes
          SMaxPlanes,    \* bound on control-plane generations
          SMaxAborts,    \* bound on timeouts
          SMaxCrashes,   \* bound on crashes of native Git
          SMaxDeaths,    \* bound on deaths of a host command inside its lock
          SNone

ASSUME SetupAssumption ==
    /\ SNone \notin SIntents
    /\ SMaxPlanes \in Nat \ {0} /\ SMaxAborts \in Nat /\ SMaxCrashes \in Nat /\ SMaxDeaths \in Nat

VARIABLES
    sPlane,     \* generation native Git is started with
    sServer,    \* "up", "down" or "starting"
    sReg,       \* registration row: "none", "provisioning", "prepared"
    sStore,     \* Project directory: "none", "staged", "marked", "placed", "repository"
    sPrep,      \* command, or startup, the preparation queue is working for
    sRow,       \* import row
    sUpload,    \* bytes of the upload file in staging, or SNone
    sBundle,    \* bytes of the published bundle, or SNone
    sObjects,   \* objects of the intent are in the canonical repository
    sRef,       \* protected ref
    sGate,      \* operation that holds the import gate
    sLeft,      \* files a killed Git left in the canonical repository
    sDraft,     \* host: draft record and its artifact
    sRecord,    \* host: canonical Project record
    sSnapshot,  \* host: published root snapshot
    sCmd,       \* host: commands in progress
    sFaults

sVars == <<sPlane, sServer, sReg, sStore, sPrep, sRow, sUpload, sBundle, sObjects, sRef,
           sGate, sLeft, sDraft, sRecord, sSnapshot, sCmd, sFaults>>

registryVars == <<sReg, sStore, sPrep>>
importVars == <<sRow, sUpload, sBundle, sObjects, sRef, sGate, sLeft>>
recordVars == <<sDraft, sRecord, sSnapshot>>

SNoOne == "nobody"
SPhases == <<"none", "intent", "bundle-durable", "installing", "objects-installed", "root-imported">>
SRank(phase) == CHOOSE n \in 1..Len(SPhases) : SPhases[n] = phase
SNoRow == [phase |-> "none", intent |-> SNone, plane |-> 0]
SFree == [kind |-> "none", stage |-> "none", cmd |-> SNoOne, intent |-> SNone]
SNoDraft == [artifact |-> SNone, linked |-> FALSE, phase |-> "none", intent |-> SNone, plane |-> 0]
SQuiet == [stage |-> "none", intent |-> SNone, plane |-> 0]

SetupInit ==
    /\ sPlane = 1 /\ sServer = "up"
    /\ sReg = "none" /\ sStore = "none" /\ sPrep = SNoOne
    /\ sRow = SNoRow /\ sUpload = SNone /\ sBundle = SNone
    /\ sObjects = FALSE /\ sRef = SNone /\ sGate = SFree /\ sLeft = {}
    /\ sDraft = SNoDraft /\ sRecord = "none" /\ sSnapshot = SNone
    /\ sCmd = [c \in SCommands |-> SQuiet]
    /\ sFaults = [aborts |-> 0, crashes |-> 0, deaths |-> 0]

SFault(kind, bound) == sFaults[kind] < bound /\ sFaults' = [sFaults EXCEPT ![kind] = @ + 1]

\* The host command c goes to another stage, or ends.
SGoto(c, stage) == sCmd' = [sCmd EXCEPT ![c].stage = stage]
SEnds(c) == sCmd' = [sCmd EXCEPT ![c] = SQuiet]

\* Native Git answers c if it still waits for that answer.
SReply(c, waits, stage) ==
    sCmd' = IF c \in SCommands /\ sCmd[c].stage = waits
            THEN (IF stage = "none" THEN [sCmd EXCEPT ![c] = SQuiet]
                                    ELSE [sCmd EXCEPT ![c].stage = stage])
            ELSE sCmd

-----------------------------------------------------------------------------
(* The host: drafts.                                                       *)

\* prepareNativeRootBootstrapGit: an intent is the bundle built from one
\* selected commit, with the policy its manifest compiles to.
SPlan(i) == [stage |-> "claim", intent |-> i, plane |-> sPlane]

\* bootstrapNativeProjectRoot: both connections name one service, host and
\* generation.
SBootstrap(c, i) ==
    /\ sCmd[c] = SQuiet /\ sServer = "up"
    /\ sCmd' = [sCmd EXCEPT ![c] = SPlan(i)]
    /\ UNCHANGED <<sPlane, sServer, registryVars, importVars, recordVars, sFaults>>

\* A draft can be read: its record and its artifact have one name each.
SReadable == sDraft.phase # "none" => ~sDraft.linked

\* sameIntent: the generation may differ only once the root is imported.
SSameIntent(c) ==
    /\ sDraft.intent = sCmd[c].intent
    /\ sDraft.phase = "import-pending" => sDraft.plane = sCmd[c].plane

\* copyPrivateBundle and the draft record: linked under their names, one after
\* the other.
SDrafted(c) == [artifact |-> sCmd[c].intent, linked |-> FALSE, phase |-> "import-pending",
                intent |-> sCmd[c].intent, plane |-> sCmd[c].plane]

\* claim, under the Project lock: replay of an equal intent, or the bundle
\* copy and the draft record.  A leftover of an interrupted copy with two
\* names is refused.
SClaim(c) ==
    /\ sCmd[c].stage = "claim"
    /\ IF sRecord # "none" \/ ~SReadable \/ (sDraft.linked /\ sDraft.artifact = sCmd[c].intent)
          \/ (sDraft.phase # "none" /\ ~SSameIntent(c))
       THEN SEnds(c) /\ UNCHANGED sDraft
       ELSE /\ sDraft' = IF sDraft.phase # "none" THEN sDraft
                         ELSE SDrafted(c)
            /\ SGoto(c, IF sDraft.phase = "root-imported" THEN "prove" ELSE "prepare")
    /\ UNCHANGED <<sPlane, sServer, registryVars, importVars, sRecord, sSnapshot, sFaults>>

\* The process dies between link and unlink, of the artifact or of the record.
SClaimDies(c, recorded) ==
    /\ sCmd[c].stage = "claim" /\ sRecord = "none" /\ sDraft = SNoDraft
    /\ SFault("deaths", SMaxDeaths)
    /\ sDraft' = [artifact |-> sCmd[c].intent, linked |-> TRUE,
                  phase |-> IF recorded THEN "import-pending" ELSE "none",
                  intent |-> IF recorded THEN sCmd[c].intent ELSE SNone,
                  plane |-> IF recorded THEN sCmd[c].plane ELSE 0]
    /\ SEnds(c)
    /\ UNCHANGED <<sPlane, sServer, registryVars, importVars, sRecord, sSnapshot>>

\* markRootImported, under the Project lock.
SMarkImported(c) ==
    /\ sCmd[c].stage = "mark"
    /\ sDraft' = IF sRecord = "none" /\ sDraft.phase = "import-pending" /\ SReadable
                    /\ sDraft.intent = sCmd[c].intent
                 THEN [sDraft EXCEPT !.phase = "root-imported"] ELSE sDraft
    /\ SEnds(c)
    /\ UNCHANGED <<sPlane, sServer, registryVars, importVars, sRecord, sSnapshot, sFaults>>

\* A command is aborted, or its request times out: native Git goes on.
SAbandon(c) ==
    /\ sCmd[c] # SQuiet /\ SFault("aborts", SMaxAborts)
    /\ SEnds(c)
    /\ UNCHANGED <<sPlane, sServer, registryVars, importVars, recordVars>>

-----------------------------------------------------------------------------
(* Native Git: preparation of the owned storage.                           *)

SServing(c) == sServer = "up" /\ sCmd[c].plane = sPlane

\* Unreachable, started with another generation, or restarted while it worked
\* for the command: the command fails.
SRefused(c) ==
    /\ \/ sCmd[c].stage \in {"prepare", "upload", "finalize", "prove", "confirm"} /\ ~SServing(c)
       \/ sCmd[c].stage = "preparing" /\ sPrep # c
       \/ sCmd[c].stage \in {"uploading", "finalizing"} /\ sGate.cmd # c
    /\ SEnds(c)
    /\ UNCHANGED <<sPlane, sServer, registryVars, importVars, recordVars, sFaults>>

\* registerNativeProjectInDatabase, in the preparation queue.
SPrepare(c) ==
    /\ sCmd[c].stage = "prepare" /\ SServing(c) /\ sPrep = SNoOne
    /\ IF sReg = "prepared"
       THEN SGoto(c, "upload") /\ UNCHANGED <<sReg, sPrep>>
       ELSE /\ sReg' = "provisioning" /\ sPrep' = c
            /\ SGoto(c, "preparing")
    /\ UNCHANGED <<sPlane, sServer, sStore, importVars, recordVars, sFaults>>

SStoreNext == [none |-> "staged", staged |-> "marked", marked |-> "placed", placed |-> "repository"]

\* prepareOwnedNativeProjectStorage: staging directory, owner marker, rename;
\* then the bare repository.
SProvision ==
    /\ sPrep # SNoOne /\ sServer \in {"up", "starting"} /\ sStore # "repository"
    /\ sStore' = SStoreNext[sStore]
    /\ UNCHANGED <<sPlane, sServer, sReg, sPrep, importVars, recordVars, sCmd, sFaults>>

\* completeNativeProjectPreparation.
SPrepared ==
    /\ sPrep # SNoOne /\ sStore = "repository"
    /\ sReg' = "prepared" /\ sPrep' = SNoOne /\ sServer' = "up"
    /\ SReply(sPrep, "preparing", "upload")
    /\ UNCHANGED <<sPlane, sStore, importVars, recordVars, sFaults>>

-----------------------------------------------------------------------------
(* Native Git: root import.  acquireImport lets one upload or finalization *)
(* run at a time.                                                          *)

SAcquires(c) == sServer = "up" /\ sGate = SFree

SBusy(c) ==
    /\ sCmd[c].stage \in {"upload", "finalize"} /\ SServing(c) /\ sGate # SFree
    /\ SEnds(c)
    /\ UNCHANGED <<sPlane, sServer, registryVars, importVars, recordVars, sFaults>>

\* assertSameIntent: replay only of the recorded intent and generation.
SClaims(c) ==
    sReg = "prepared" /\
    (sRow.phase = "none" \/ (sRow.intent = sCmd[c].intent /\ sRow.plane = sPlane))

\* receiveNativeRootBundle up to the claimed intent and the opened upload.
SUploadBegins(c) ==
    /\ sCmd[c].stage = "upload" /\ SServing(c) /\ SAcquires(c)
    /\ IF SClaims(c)
       THEN /\ sRow' = IF sRow.phase # "none" THEN sRow
                       ELSE [phase |-> "intent", intent |-> sCmd[c].intent, plane |-> sPlane]
            /\ sUpload' = sCmd[c].intent
            /\ sGate' = [kind |-> "upload", stage |-> "received", cmd |-> c, intent |-> sCmd[c].intent]
            /\ SGoto(c, "uploading")
       ELSE SEnds(c) /\ UNCHANGED <<sRow, sUpload, sGate>>
    /\ UNCHANGED <<sPlane, sServer, registryVars, sBundle, sObjects, sRef, sLeft, recordVars, sFaults>>

\* verifyNativeRootBundle: exactly the intent's ref and commit, a sound graph.
SVerified == sUpload = sGate.intent

\* The verified upload becomes the bundle, unless equal bytes are there.
SPublishBundle ==
    /\ sGate.kind = "upload" /\ sGate.stage = "received" /\ SVerified
    /\ sUpload' = SNone
    /\ sBundle' = IF sBundle = SNone THEN sUpload ELSE sBundle
    /\ sGate' = [sGate EXCEPT !.stage = "published"]
    /\ UNCHANGED <<sPlane, sServer, registryVars, sRow, sObjects, sRef, sLeft, recordVars, sCmd, sFaults>>

\* markNativeProjectRootBundleDurableInDatabase: from intent only; a replay
\* of a durable or imported bundle keeps its phase.
SDurable(row) == IF row.phase = "intent" THEN [row EXCEPT !.phase = "bundle-durable"] ELSE row

SMarkDurable ==
    /\ sGate.kind = "upload" /\ sGate.stage = "published"
    /\ sRow' = SDurable(sRow)
    /\ sGate' = SFree
    /\ SReply(sGate.cmd, "uploading",
              IF sRow'.phase \in {"bundle-durable", "root-imported"} THEN "finalize" ELSE "none")
    /\ UNCHANGED <<sPlane, sServer, registryVars, sUpload, sBundle, sObjects, sRef, sLeft, recordVars, sFaults>>

\* assertDurableNativeRootBundle: the file's digest and size are the row's.
SBundleHeld(i) == sBundle = i

\* requireSelectedImport and the bundle check of finalizeNativeProjectRootImport.
SSelected(i) == sRow.intent = i /\ SRank(sRow.phase) >= SRank("bundle-durable") /\ SBundleHeld(i)

SFinalizeBegins(c) ==
    /\ sCmd[c].stage = "finalize" /\ SServing(c) /\ SAcquires(c)
    /\ IF sRow.plane = sPlane /\ SSelected(sCmd[c].intent)
       THEN /\ sGate' = [kind |-> "finalize", stage |-> "checked", cmd |-> c, intent |-> sCmd[c].intent]
            /\ SGoto(c, "finalizing")
       ELSE SEnds(c) /\ UNCHANGED sGate
    /\ UNCHANGED <<sPlane, sServer, registryVars, sRow, sUpload, sBundle, sObjects, sRef, sLeft, recordVars, sFaults>>

SFinalizing == sGate.kind = "finalize" /\ sServer \in {"up", "starting"}

\* The protected ref is unborn: the installation begins.
SBeginInstall ==
    /\ SFinalizing /\ sRow.phase = "bundle-durable" /\ sRef = SNone
    /\ sRow' = [sRow EXCEPT !.phase = "installing"]
    /\ UNCHANGED <<sPlane, sServer, registryVars, sUpload, sBundle, sObjects, sRef, sGate, sLeft, recordVars, sCmd, sFaults>>

\* installNativeRootObjects: Git unbundles into the canonical repository, anew
\* for every attempt.
SUnbundle ==
    /\ SFinalizing /\ sRow.phase = "installing" /\ sRef = SNone /\ sGate.stage = "checked"
    /\ sObjects' = TRUE
    /\ sGate' = [sGate EXCEPT !.stage = "unbundled"]
    /\ UNCHANGED <<sPlane, sServer, registryVars, sRow, sUpload, sBundle, sRef, sLeft, recordVars, sCmd, sFaults>>

\* syncNativeRootObjectStore: a pack directory with nothing but complete packs.
SMarkInstalled ==
    /\ SFinalizing /\ sRow.phase = "installing" /\ sRef = SNone /\ sGate.stage = "unbundled"
    /\ "pack" \notin sLeft
    /\ sRow' = [sRow EXCEPT !.phase = "objects-installed"]
    /\ sGate' = [sGate EXCEPT !.stage = "checked"]
    /\ UNCHANGED <<sPlane, sServer, registryVars, sUpload, sBundle, sObjects, sRef, sLeft, recordVars, sCmd, sFaults>>

\* A finalization throws: its caller gets an error, a startup ends.
SFinalizeEnds ==
    /\ sGate' = SFree
    /\ sServer' = IF sServer = "starting" THEN "down" ELSE sServer
    /\ SReply(sGate.cmd, "finalizing", "none")

\* A leftover of an earlier attempt: the pack directory is refused, or the ref
\* is locked.
SLeftoverRefused ==
    /\ SFinalizing
    /\ \/ sRow.phase = "installing" /\ sGate.stage = "unbundled" /\ "pack" \in sLeft
       \/ sRow.phase = "objects-installed" /\ sRef = SNone /\ "lock" \in sLeft
    /\ SFinalizeEnds
    /\ UNCHANGED <<sPlane, registryVars, sRow, sUpload, sBundle, sObjects, sRef, sLeft, recordVars, sFaults>>

\* publishNativeRootRef: compare-and-swap from an unborn ref; the same commit
\* is accepted as already published.
SMayPublish == sRow.phase = "objects-installed"

SPublishRef ==
    /\ SFinalizing /\ SMayPublish /\ sRef = SNone /\ "lock" \notin sLeft
    /\ sRef' = sRow.intent
    /\ UNCHANGED <<sPlane, sServer, registryVars, sRow, sUpload, sBundle, sObjects, sGate, sLeft, recordVars, sCmd, sFaults>>

SMarkRootImported ==
    /\ SFinalizing /\ sRow.phase = "objects-installed" /\ sRef = sRow.intent
    /\ sRow' = [sRow EXCEPT !.phase = "root-imported"]
    /\ UNCHANGED <<sPlane, sServer, registryVars, sUpload, sBundle, sObjects, sRef, sGate, sLeft, recordVars, sCmd, sFaults>>

\* A completed import is verified and answered.
SFinalized ==
    /\ SFinalizing /\ sRow.phase = "root-imported"
    /\ sGate' = SFree
    /\ sServer' = "up"
    /\ SReply(sGate.cmd, "finalizing", "confirm")
    /\ UNCHANGED <<sPlane, registryVars, sRow, sUpload, sBundle, sObjects, sRef, sLeft, recordVars, sFaults>>

\* What the repository may hold after Git was killed: of git bundle unbundle
\* nothing, all objects or a temporary pack; of git update-ref its lock.
SUnbundling == SFinalizing /\ sRow.phase = "installing" /\ sGate.stage = "checked"
SPublishing == SFinalizing /\ SMayPublish /\ sRef = SNone

SGitKilled(files) ==
    /\ sObjects' \in {sObjects, sObjects \/ SUnbundling}
    /\ \E left \in SUBSET files : sLeft' = sLeft \cup left

\* The deadline of the request or of the startup: an unpublished upload is
\* removed, a finalization keeps its phase, and the gate is free again.  Git
\* gets SIGTERM, on which update-ref removes its lock.
SDeadline ==
    /\ sServer \in {"up", "starting"} /\ sGate # SFree /\ SFault("aborts", SMaxAborts)
    /\ sUpload' = SNone
    /\ sGate' = SFree
    /\ sServer' = IF sServer = "starting" THEN "down" ELSE sServer
    /\ SGitKilled({f \in {"pack"} : SUnbundling})
    /\ SReply(sGate.cmd, IF sGate.kind = "upload" THEN "uploading" ELSE "finalizing", "none")
    /\ UNCHANGED <<sPlane, registryVars, sRow, sBundle, sRef, recordVars>>

-----------------------------------------------------------------------------
(* Proofs, admission and readiness.                                        *)

\* inspectImportedNativeRootReadOnly: the only protected ref is the imported
\* commit, with all its objects.
SRootHeld(i) == sRef = i /\ sObjects

\* verifyImportedRootReadOnly: row, storage, bundle, ref and objects agree.
SProven(i) == /\ sRow.phase = "root-imported" /\ sRow.intent = i
              /\ sStore = "repository" /\ SBundleHeld(i) /\ SRootHeld(i)

\* requireLiveImportedRoot, before the draft is marked or returned.
SProve(c) ==
    /\ sCmd[c].stage \in {"prove", "confirm"} /\ SServing(c)
    /\ IF SProven(sCmd[c].intent) /\ sCmd[c].stage = "confirm" THEN SGoto(c, "mark") ELSE SEnds(c)
    /\ UNCHANGED <<sPlane, sServer, registryVars, importVars, recordVars, sFaults>>

\* recoverNativeProjectPendingPublication: a record with two names is completed
\* when its bytes are the expected ones; a staging file without a record is
\* refused.
SPublished(record) == IF record \in {"none", "linked"} THEN "admission-pending" ELSE record

\* admit: the draft and a fresh proof give the admission-pending record.
SAdmit(c) ==
    /\ sCmd[c] = SQuiet /\ sServer = "up"
    /\ sDraft.phase = "root-imported" /\ SReadable
    /\ SProven(sDraft.intent)
    /\ sRecord' = SPublished(sRecord)
    /\ UNCHANGED <<sPlane, sServer, registryVars, importVars, sDraft, sSnapshot, sCmd, sFaults>>

\* The process dies in publishNativeProjectPending, before or after link.
SAdmitDies(c, linked) ==
    /\ sCmd[c] = SQuiet /\ sServer = "up" /\ sRecord = "none"
    /\ sDraft.phase = "root-imported" /\ SReadable /\ SProven(sDraft.intent)
    /\ SFault("deaths", SMaxDeaths)
    /\ sRecord' = IF linked THEN "linked" ELSE "staged"
    /\ UNCHANGED <<sPlane, sServer, registryVars, importVars, sDraft, sSnapshot, sCmd>>

\* readNativeProjectPending: a record beside a staging file, or with a second
\* name, cannot be read.
SPending == sRecord = "admission-pending"

\* proveNativeProjectReadiness: the imported root, asked for by the host's
\* write issuer.
SReadyProven == SProven(sDraft.intent)

\* ready: readiness proof and root snapshot, published by rename.
SReadySnapshot(c) ==
    /\ sCmd[c] = SQuiet /\ sServer = "up" /\ SPending
    /\ SReadyProven
    /\ sSnapshot' = sRef
    /\ sCmd' = [sCmd EXCEPT ![c] = [stage |-> "ready", intent |-> sDraft.intent, plane |-> sPlane]]
    /\ UNCHANGED <<sPlane, sServer, registryVars, importVars, sDraft, sRecord, sFaults>>

\* replaceNativeProjectRecord: the pending bytes are still there.
SReady(c) ==
    /\ sCmd[c].stage = "ready"
    /\ sRecord' = IF SPending THEN "ready" ELSE sRecord
    /\ SEnds(c)
    /\ UNCHANGED <<sPlane, sServer, registryVars, importVars, sDraft, sSnapshot, sFaults>>

-----------------------------------------------------------------------------
(* Crash and startup of native Git.                                        *)

SCrash ==
    /\ sServer # "down" /\ SFault("crashes", SMaxCrashes)
    /\ sServer' = "down" /\ sPrep' = SNoOne /\ sGate' = SFree
    /\ SGitKilled({f \in {"pack"} : SUnbundling} \cup {f \in {"lock"} : SPublishing})
    /\ UNCHANGED <<sPlane, sReg, sStore, sRow, sUpload, sBundle, sRef, recordVars, sCmd>>

\* The control plane is updated: native Git restarts with the next generation
\* once its operations have drained.
SRollover ==
    /\ sPlane < SMaxPlanes /\ sServer = "up" /\ sGate = SFree /\ sPrep = SNoOne
    /\ sRow.phase \in {"none", "root-imported"}
    /\ sPlane' = sPlane + 1
    /\ UNCHANGED <<sServer, registryVars, importVars, recordVars, sCmd, sFaults>>

\* recoverNativeProjectProvisioning can go on from this storage: an existing
\* staging directory must already have its owner marker.
SResumable == sStore # "staged"

\* inspectNativeRootImportStaging and its reconciliation: leftovers of an
\* upload go, and a bundle the row does not name yet.
\* Mutant: a durable bundle is removed with the leftovers.
SReconciledAll(bundle) == SNone
SReconciled(bundle) == IF sRow.phase = "intent" THEN SNone ELSE bundle

\* Phases startup goes on from.
\* Mutant: the installation is only finished once its objects are there.
SInterruptedInstalled == SRank(sRow.phase) >= SRank("objects-installed")
SInterrupted == SRank(sRow.phase) >= SRank("installing")

\* initializeNativeBundleRuntime, with recoverNativeRootImports: before the
\* installation the ref must be unborn; after it the import is finished.
SStart ==
    /\ sServer = "down"
    /\ sReg = "provisioning" => SResumable
    /\ sUpload' = SNone
    /\ sBundle' = SReconciled(sBundle)
    /\ sRow.phase \in {"none", "intent", "bundle-durable", "installing"} => sRef = SNone
    /\ sPrep' = IF sReg = "provisioning" THEN "startup" ELSE SNoOne
    /\ IF SInterrupted
       THEN /\ sServer' = "starting"
            /\ sGate' = [kind |-> "finalize", stage |-> "checked", cmd |-> SNoOne, intent |-> sRow.intent]
       ELSE sServer' = (IF sReg = "provisioning" THEN "starting" ELSE "up") /\ UNCHANGED sGate
    /\ UNCHANGED <<sPlane, sReg, sStore, sRow, sObjects, sRef, sLeft, recordVars, sCmd, sFaults>>

-----------------------------------------------------------------------------
SImporting == SPublishBundle \/ SMarkDurable \/ SBeginInstall \/ SUnbundle \/ SMarkInstalled
              \/ SLeftoverRefused \/ SPublishRef \/ SMarkRootImported \/ SFinalized

SetupNext ==
    \/ \E c \in SCommands :
         \/ \E i \in SIntents : SBootstrap(c, i)
         \/ SClaim(c) \/ (\E recorded \in BOOLEAN : SClaimDies(c, recorded))
         \/ SMarkImported(c) \/ SAbandon(c) \/ SRefused(c) \/ SPrepare(c) \/ SBusy(c)
         \/ SUploadBegins(c) \/ SFinalizeBegins(c) \/ SProve(c)
         \/ SAdmit(c) \/ (\E linked \in BOOLEAN : SAdmitDies(c, linked))
         \/ SReadySnapshot(c) \/ SReady(c)
    \/ SProvision \/ SPrepared
    \/ SImporting
    \/ SDeadline \/ SCrash \/ SRollover \/ SStart

SetupSpec == SetupInit /\ [][SetupNext]_sVars

\* The service goes on with what it began, and its supervisor restarts it.
SetupFairness == WF_sVars(SProvision \/ SPrepared) /\ WF_sVars(SImporting) /\ WF_sVars(SStart)

-----------------------------------------------------------------------------
(* Properties.                                                             *)

\* Type invariant of rows, files and records.
SetupTypeOK ==
    /\ sReg \in {"none", "provisioning", "prepared"}
    /\ sStore \in {"none", "staged", "marked", "placed", "repository"}
    /\ sRow.phase \in {SPhases[n] : n \in 1..Len(SPhases)} /\ sRow.intent \in SIntents \cup {SNone}
    /\ {sUpload, sBundle, sRef, sSnapshot} \subseteq SIntents \cup {SNone}
    /\ sDraft.phase \in {"none", "import-pending", "root-imported"}
    /\ sRecord \in {"none", "staged", "linked", "admission-pending", "ready"}

\* Whatever crashed when: the protected ref exists only for the one recorded
\* intent, with its objects and its bundle, and an import row past the
\* installation is backed by all three.
SRefBound ==
    /\ sRef # SNone => sRow.phase \in {"objects-installed", "root-imported"} /\ sRef = sRow.intent
    /\ SRank(sRow.phase) >= SRank("bundle-durable") => sBundle = sRow.intent
    /\ SRank(sRow.phase) >= SRank("objects-installed") => sObjects

\* What the host has recorded is true of native Git, through lost replies,
\* concurrent commands and restarts: an imported draft names the imported
\* root, and a ready Project has the snapshot of it.
SReceiptTrue ==
    /\ sDraft.phase = "root-imported" => SProven(sDraft.intent)
    /\ sRecord # "none" => sDraft.phase = "root-imported"
    /\ sRecord = "ready" => sSnapshot = sDraft.intent

\* Every record of an import, at native Git and on the host, is backed by the
\* ref, files and snapshot it speaks of.
SRecordsBacked == SRefBound /\ SReceiptTrue

\* Startup finishes an installation that a crash or a deadline interrupted,
\* also when it is interrupted again.  One thing stops it for good: a file that
\* the killed Git left in the repository, which nothing removes.
SInstallResumes ==
    (sServer = "down" /\ sRow.phase \in {"installing", "objects-installed"})
        ~> ((sRow.phase = "root-imported" /\ sServer = "up") \/ sLeft # {})
=============================================================================
