--------------------------- MODULE Projects_proofs ---------------------------
(***************************************************************************)
(* Proofs about Projects and their workspaces: the records of a Project's  *)
(* root import are backed by what they speak of (ProjectSetup), and who is *)
(* let into a workspace finds the one it was let into, whose discard, once *)
(* published, is final (Workspaces).                                       *)
(***************************************************************************)
EXTENDS ProjectSetup, Workspaces, TLAPS

-----------------------------------------------------------------------------
(* Project setup.                                                          *)

SPhaseSet == {"none", "intent", "bundle-durable", "installing", "objects-installed", "root-imported"}
SDurablePhases == {"bundle-durable", "installing", "objects-installed", "root-imported"}
SInstalledPhases == {"objects-installed", "root-imported"}
SStageSet == {"none", "claim", "prepare", "preparing", "upload", "uploading", "finalize", "finalizing", "prove",
              "confirm", "mark", "ready"}
SCmdRows == [stage : SStageSet, intent : SIntents \cup {SNone}, plane : Nat]
SRowSet == [phase : SPhaseSet, intent : SIntents \cup {SNone}, plane : Nat]
SGateSet == [kind : {"none", "upload", "finalize"}, stage : {"none", "received", "published", "checked", "unbundled"},
             cmd : SCommands \cup {SNoOne}, intent : SIntents \cup {SNone}]
SDraftSet == [artifact : SIntents \cup {SNone}, linked : BOOLEAN,
              phase : {"none", "import-pending", "root-imported"}, intent : SIntents \cup {SNone}, plane : Nat]

SCommandsTyped ==
  /\ sPlane \in Nat
  /\ sCmd \in [SCommands -> SCmdRows]
  /\ \A c \in SCommands : sCmd[c].stage # "none" => sCmd[c].intent \in SIntents

\* The import: what the row says of bundle, objects and ref; whose upload holds the gate.
SImportSound ==
  /\ sRow \in SRowSet /\ sGate \in SGateSet
  /\ sRow.phase = "none" => sRow.intent = SNone
  /\ sRow.phase # "none" => sRow.intent \in SIntents /\ sReg = "prepared"
  /\ sReg = "prepared" => sStore = "repository"
  /\ sBundle \in {SNone, sRow.intent}
  /\ sGate.kind = "upload" => sRow.phase # "none" /\ sGate.intent = sRow.intent
  /\ sGate.kind = "upload" /\ sGate.stage = "published" => sBundle = sRow.intent
  /\ sRow.phase \in SDurablePhases => sBundle = sRow.intent
  /\ sRow.phase \in SInstalledPhases \/ sGate.stage = "unbundled" => sObjects
  /\ sRef # SNone => sRow.phase \in SInstalledPhases /\ sRef = sRow.intent
  /\ sRow.phase = "root-imported" => sRef = sRow.intent

\* The host: what a command was told and what the records say still holds.
SHostSound ==
  /\ sDraft \in SDraftSet
  /\ \A c \in SCommands : sCmd[c].stage = "mark" => SProven(sCmd[c].intent)
  /\ \A c \in SCommands : sCmd[c].stage = "ready" => sDraft.phase = "root-imported" /\ sSnapshot = sDraft.intent
  /\ sDraft.phase = "root-imported" => SProven(sDraft.intent)
  /\ sRecord # "none" => sDraft.phase = "root-imported"
  /\ sRecord = "ready" => sSnapshot = sDraft.intent

SetupInv == SCommandsTyped /\ SImportSound /\ SHostSound

\* Nothing holds the gate of a service that is down.
SDownIsFree == sServer = "down" => sGate.kind = "none"

USE DEF sVars, registryVars, importVars, recordVars

\* The order of the phases.
LEMMA Ranks ==
  ASSUME NEW phase \in SPhaseSet
  PROVE  /\ SRank(phase) >= SRank("bundle-durable") <=> phase \in SDurablePhases
         /\ SRank(phase) >= SRank("objects-installed") <=> phase \in SInstalledPhases
         /\ SRank(phase) >= SRank("installing") => phase \in SDurablePhases
<1>1. Len(SPhases) = 6 /\ 1..Len(SPhases) = {1, 2, 3, 4, 5, 6}
  BY DEF SPhases
<1>2. /\ SPhases[1] = "none" /\ SPhases[2] = "intent" /\ SPhases[3] = "bundle-durable"
      /\ SPhases[4] = "installing" /\ SPhases[5] = "objects-installed" /\ SPhases[6] = "root-imported"
  BY DEF SPhases
<1>3. ASSUME NEW p \in SPhaseSet PROVE SRank(p) \in {1, 2, 3, 4, 5, 6} /\ SPhases[SRank(p)] = p
  <2>1. \E n \in {1, 2, 3, 4, 5, 6} : SPhases[n] = p
    BY <1>2 DEF SPhaseSet
  <2>2. SRank(p) = CHOOSE n \in {1, 2, 3, 4, 5, 6} : SPhases[n] = p
    BY <1>1 DEF SRank
  <2> HIDE DEF SPhases
  <2> QED
    BY <2>1, <2>2
<1>4. /\ SRank("none") = 1 /\ SRank("intent") = 2 /\ SRank("bundle-durable") = 3
      /\ SRank("installing") = 4 /\ SRank("objects-installed") = 5 /\ SRank("root-imported") = 6
  BY <1>2, <1>3 DEF SPhaseSet
<1> QED
  BY <1>4 DEF SPhaseSet, SDurablePhases, SInstalledPhases

\* A command goes to a stage, or ends; the others stay where they are.
LEMMA CommandGoes ==
  ASSUME SCommandsTyped, UNCHANGED sPlane, NEW c \in SCommands, NEW stage \in SStageSet \ {"none"},
         SGoto(c, stage), sCmd[c].stage # "none"
  PROVE  /\ SCommandsTyped'
         /\ \A d \in SCommands : d # c => sCmd'[d] = sCmd[d]
         /\ sCmd'[c].stage = stage /\ sCmd'[c].intent = sCmd[c].intent
<1> DEFINE v == [sCmd[c] EXCEPT !.stage = stage]
<1>1. v \in SCmdRows /\ v.stage = stage /\ v.intent = sCmd[c].intent
  BY DEF SCommandsTyped, SCmdRows
<1>2. sCmd' = [sCmd EXCEPT ![c] = v]
  BY DEF SGoto, SCommandsTyped
<1> HIDE DEF v
<1> QED
  BY <1>1, <1>2 DEF SCommandsTyped

LEMMA CommandEnds ==
  ASSUME SCommandsTyped, UNCHANGED sPlane, NEW c \in SCommands, SEnds(c)
  PROVE  /\ SCommandsTyped'
         /\ \A d \in SCommands : d # c => sCmd'[d] = sCmd[d]
         /\ sCmd'[c].stage = "none"
<1>1. SQuiet \in SCmdRows /\ SQuiet.stage = "none"
  BY DEF SCommandsTyped, SQuiet, SCmdRows, SStageSet
<1>2. sCmd' = [sCmd EXCEPT ![c] = SQuiet]
  BY DEF SEnds
<1> QED
  BY <1>1, <1>2 DEF SCommandsTyped

\* Native Git's answer finds the command waiting, or nobody.
LEMMA CommandAnswered ==
  ASSUME SCommandsTyped, UNCHANGED sPlane, NEW c, NEW waits \in {"preparing", "uploading", "finalizing"},
         NEW stage \in {"none", "upload", "finalize", "confirm"}, SReply(c, waits, stage)
  PROVE  /\ SCommandsTyped'
         /\ \A d \in SCommands : sCmd'[d].stage \in {"mark", "ready"} => sCmd'[d] = sCmd[d]
<1>1. CASE c \in SCommands /\ sCmd[c].stage = waits /\ stage = "none"
  <2>1. SEnds(c)
    BY <1>1 DEF SReply, SEnds
  <2> QED
    BY <1>1, <2>1, CommandEnds
<1>2. CASE c \in SCommands /\ sCmd[c].stage = waits /\ stage # "none"
  <2>1. SGoto(c, stage) /\ sCmd[c].stage # "none" /\ stage \in SStageSet \ {"none"}
    BY <1>2 DEF SReply, SGoto, SStageSet
  <2> QED
    BY <1>2, <2>1, CommandGoes
<1>3. CASE ~(c \in SCommands /\ sCmd[c].stage = waits)
  BY <1>3 DEF SReply, SCommandsTyped
<1> QED
  BY <1>1, <1>2, <1>3

\* The import and the storage stay as they are.
LEMMA ImportFrame ==
  ASSUME UNCHANGED <<sReg, sStore, importVars>>
  PROVE  (SImportSound => SImportSound') /\ \A i : SProven(i)' <=> SProven(i)
BY DEF SImportSound, SProven, SBundleHeld, SRootHeld

\* The host's records stay, and what is proven stays proven.
LEMMA HostFrame ==
  ASSUME SHostSound, UNCHANGED recordVars, \A i : SProven(i) => SProven(i)',
         \A d \in SCommands : sCmd'[d].stage \in {"mark", "ready"} => sCmd'[d] = sCmd[d]
  PROVE  SHostSound'
<1>1. \A d \in SCommands : sCmd'[d].stage = "mark" => SProven(sCmd[d].intent)'
  BY DEF SHostSound
<1>2. \A d \in SCommands : sCmd'[d].stage = "ready" => sDraft'.phase = "root-imported" /\ sSnapshot' = sDraft'.intent
  BY DEF SHostSound
<1>3. sDraft'.phase = "root-imported" => SProven(sDraft.intent)'
  BY DEF SHostSound
<1>4. /\ sDraft' \in SDraftSet /\ (sRecord' # "none" => sDraft'.phase = "root-imported")
      /\ (sRecord' = "ready" => sSnapshot' = sDraft'.intent)
  BY DEF SHostSound
<1> QED
  BY <1>1, <1>2, <1>3, <1>4 DEF SHostSound

\* A host command that changes no record.
LEMMA CommandSteps ==
  ASSUME SetupInv, NEW c \in SCommands,
         \/ \E i \in SIntents : SBootstrap(c, i)
         \/ SAbandon(c) \/ SRefused(c) \/ SBusy(c) \/ SProve(c)
  PROVE  SetupInv'
<1>0. SCommandsTyped /\ SImportSound /\ SHostSound
  BY DEF SetupInv
<1>1. UNCHANGED <<sReg, sStore, importVars>> /\ UNCHANGED recordVars /\ UNCHANGED sPlane
  BY DEF SBootstrap, SAbandon, SRefused, SBusy, SProve
<1>2. SImportSound' /\ \A i : SProven(i)' <=> SProven(i)
  BY <1>0, <1>1, ImportFrame
<1>3. ASSUME NEW i \in SIntents, SBootstrap(c, i) PROVE SetupInv'
  <2>1. SPlan(i) \in SCmdRows /\ SPlan(i).stage = "claim" /\ SPlan(i).intent = i
    BY <1>0 DEF SPlan, SCmdRows, SStageSet, SCommandsTyped
  <2>2. sCmd' = [sCmd EXCEPT ![c] = SPlan(i)]
    BY <1>3 DEF SBootstrap
  <2>3. SCommandsTyped' /\ \A d \in SCommands : sCmd'[d].stage \in {"mark", "ready"} => sCmd'[d] = sCmd[d]
    BY <1>0, <1>1, <2>1, <2>2 DEF SCommandsTyped
  <2>4. SHostSound'
    BY <1>0, <1>1, <1>2, <2>3, HostFrame
  <2> QED
    BY <1>2, <2>3, <2>4 DEF SetupInv
<1>4. CASE SEnds(c)
  <2>1. SCommandsTyped' /\ \A d \in SCommands : sCmd'[d].stage \in {"mark", "ready"} => sCmd'[d] = sCmd[d]
    BY <1>0, <1>1, <1>4, CommandEnds
  <2>2. SHostSound'
    BY <1>0, <1>1, <1>2, <2>1, HostFrame
  <2> QED
    BY <1>2, <2>1, <2>2 DEF SetupInv
<1>5. CASE SProven(sCmd[c].intent) /\ sCmd[c].stage = "confirm" /\ SGoto(c, "mark")
  <2>1. "mark" \in SStageSet \ {"none"}
    BY DEF SStageSet
  <2>2. /\ SCommandsTyped' /\ \A d \in SCommands : d # c => sCmd'[d] = sCmd[d]
        /\ sCmd'[c].stage = "mark" /\ sCmd'[c].intent = sCmd[c].intent
    BY <1>0, <1>1, <1>5, <2>1, CommandGoes
  <2>3. SHostSound'
    <3>1. \A d \in SCommands : sCmd'[d].stage = "mark" => SProven(sCmd'[d].intent)
      BY <1>0, <1>5, <2>2 DEF SHostSound
    <3>2. \A d \in SCommands : sCmd'[d].stage = "ready" => sDraft.phase = "root-imported" /\ sSnapshot = sDraft.intent
      BY <1>0, <2>2 DEF SHostSound
    <3>3. sDraft.phase = "root-imported" => SProven(sDraft.intent)
      BY <1>0 DEF SHostSound
    <3> QED
      BY <1>0, <1>1, <1>2, <3>1, <3>2, <3>3 DEF SHostSound
  <2> QED
    BY <1>2, <2>2, <2>3 DEF SetupInv
<1> QED
  BY <1>3, <1>4, <1>5 DEF SAbandon, SRefused, SBusy, SProve

\* A host command that writes a record.
LEMMA RecordSteps ==
  ASSUME SetupInv, NEW c \in SCommands,
         \/ SClaim(c) \/ (\E recorded \in BOOLEAN : SClaimDies(c, recorded)) \/ SMarkImported(c)
         \/ SAdmit(c) \/ (\E linked \in BOOLEAN : SAdmitDies(c, linked))
         \/ SReadySnapshot(c) \/ SReady(c)
  PROVE  SetupInv'
<1>0. SCommandsTyped /\ SImportSound /\ SHostSound
  BY DEF SetupInv
<1>1. UNCHANGED <<sReg, sStore, importVars>> /\ UNCHANGED sPlane
  BY DEF SClaim, SClaimDies, SMarkImported, SAdmit, SAdmitDies, SReadySnapshot, SReady
<1>2. SImportSound' /\ \A i : SProven(i)' <=> SProven(i)
  BY <1>0, <1>1, ImportFrame
\* The commands that go on: none of them is told anything.
<1>e. ASSUME SEnds(c)
      PROVE  SCommandsTyped' /\ \A d \in SCommands : sCmd'[d].stage \in {"mark", "ready"} => d # c /\ sCmd'[d] = sCmd[d]
  BY <1>0, <1>1, <1>e, CommandEnds
\* A draft that is not imported becomes another that is not.
<1>d. ASSUME SCommandsTyped', \A d \in SCommands : sCmd'[d].stage \in {"mark", "ready"} => sCmd'[d] = sCmd[d],
             UNCHANGED <<sRecord, sSnapshot>>, sDraft' \in SDraftSet,
             sDraft' = sDraft \/ (sDraft.phase # "root-imported" /\ sDraft'.phase # "root-imported")
      PROVE  SetupInv'
  <2>1. CASE sDraft' = sDraft
    <3>1. UNCHANGED recordVars
      BY <1>d, <2>1
    <3> QED
      BY <1>0, <1>2, <1>d, <3>1, HostFrame DEF SetupInv
  <2>2. CASE sDraft.phase # "root-imported" /\ sDraft'.phase # "root-imported"
    <3>1. \A d \in SCommands : sCmd'[d].stage = "mark" => SProven(sCmd'[d].intent)
      BY <1>0, <1>d DEF SHostSound
    <3>2. sRecord' = "none" /\ \A d \in SCommands : sCmd'[d].stage # "ready"
      BY <1>0, <1>d, <2>2 DEF SHostSound
    <3>3. SHostSound'
      BY <1>2, <1>d, <2>2, <3>1, <3>2 DEF SHostSound
    <3> QED
      BY <1>2, <1>d, <3>3 DEF SetupInv
  <2> QED
    BY <1>d, <2>1, <2>2
<1>3. CASE SClaim(c)
  <2>1. sCmd[c].stage = "claim" /\ UNCHANGED <<sRecord, sSnapshot>>
    BY <1>3 DEF SClaim
  <2>2. CASE SEnds(c) /\ UNCHANGED sDraft
    BY <1>0, <1>d, <1>e, <2>1, <2>2 DEF SHostSound
  <2>3. ASSUME NEW stage \in {"prove", "prepare"}, SGoto(c, stage),
               sDraft' = IF sDraft.phase # "none" THEN sDraft ELSE SDrafted(c)
        PROVE  SetupInv'
    <3>1. stage \in SStageSet \ {"none"} /\ sCmd[c].stage # "none" /\ stage \notin {"mark", "ready"}
      BY <2>1 DEF SStageSet
    <3>2. SCommandsTyped' /\ \A d \in SCommands : sCmd'[d].stage \in {"mark", "ready"} => sCmd'[d] = sCmd[d]
      BY <1>0, <1>1, <2>3, <3>1, CommandGoes
    <3>3. SDrafted(c) \in SDraftSet /\ SDrafted(c).phase = "import-pending"
      BY <1>0 DEF SDrafted, SDraftSet, SCommandsTyped, SCmdRows
    <3>4. sDraft' \in SDraftSet /\ (sDraft' = sDraft \/ (sDraft.phase # "root-imported" /\ sDraft'.phase # "root-imported"))
      BY <1>0, <2>3, <3>3 DEF SHostSound
    <3> QED
      BY <1>d, <2>1, <3>2, <3>4
  <2> QED
    BY <1>3, <2>2, <2>3 DEF SClaim
<1>4. ASSUME NEW recorded \in BOOLEAN, SClaimDies(c, recorded) PROVE SetupInv'
  <2>1. UNCHANGED <<sRecord, sSnapshot>> /\ SEnds(c) /\ sDraft = SNoDraft
    BY <1>4 DEF SClaimDies
  <2>2. sDraft.phase = "none"
    BY <2>1 DEF SNoDraft
  <2>3. sDraft' \in SDraftSet /\ sDraft'.phase # "root-imported"
    BY <1>0, <1>4 DEF SClaimDies, SDraftSet, SCommandsTyped, SCmdRows
  <2> QED
    BY <1>d, <1>e, <2>1, <2>2, <2>3
<1>5. CASE SMarkImported(c)
  <2>1. UNCHANGED <<sRecord, sSnapshot>> /\ SEnds(c) /\ sCmd[c].stage = "mark"
    BY <1>5 DEF SMarkImported
  <2>2. CASE sDraft' = sDraft
    BY <1>0, <1>d, <1>e, <2>1, <2>2 DEF SHostSound
  <2>3. CASE /\ sRecord = "none" /\ sDraft.phase = "import-pending" /\ sDraft.intent = sCmd[c].intent
             /\ sDraft' = [sDraft EXCEPT !.phase = "root-imported"]
    <3>1. sDraft' \in SDraftSet /\ sDraft'.phase = "root-imported" /\ sDraft'.intent = sDraft.intent
      BY <1>0, <2>3 DEF SHostSound, SDraftSet
    <3>2. SProven(sDraft'.intent)
      BY <1>0, <2>1, <2>3, <3>1 DEF SHostSound
    <3>3. \A d \in SCommands : sCmd'[d].stage = "mark" => SProven(sCmd'[d].intent)
      BY <1>0, <1>e, <2>1 DEF SHostSound
    <3>4. \A d \in SCommands : sCmd'[d].stage # "ready"
      BY <1>0, <1>e, <2>1, <2>3 DEF SHostSound
    <3>5. SHostSound'
      BY <1>2, <2>1, <2>3, <3>1, <3>2, <3>3, <3>4 DEF SHostSound
    <3> QED
      BY <1>2, <1>e, <2>1, <3>5 DEF SetupInv
  <2> QED
    BY <1>5, <2>2, <2>3 DEF SMarkImported
<1>6. CASE SAdmit(c) \/ \E linked \in BOOLEAN : SAdmitDies(c, linked)
  <2>1. UNCHANGED <<sDraft, sSnapshot, sCmd>> /\ sDraft.phase = "root-imported" /\ (sRecord' = "ready" => sRecord = "ready")
    BY <1>6 DEF SAdmit, SAdmitDies, SPublished
  <2>2. SCommandsTyped'
    BY <1>0, <1>1, <2>1 DEF SCommandsTyped
  <2>3. SHostSound'
    BY <1>0, <1>2, <2>1 DEF SHostSound
  <2> QED
    BY <1>2, <2>2, <2>3 DEF SetupInv
<1>7. CASE SReadySnapshot(c)
  <2> DEFINE v == [stage |-> "ready", intent |-> sDraft.intent, plane |-> sPlane]
  <2>1. /\ sRecord = "admission-pending" /\ SProven(sDraft.intent) /\ sSnapshot' = sRef /\ sCmd' = [sCmd EXCEPT ![c] = v]
        /\ UNCHANGED <<sDraft, sRecord>>
    BY <1>7 DEF SReadySnapshot, SPending, SReadyProven
  <2>2. sDraft.phase = "root-imported" /\ sSnapshot' = sDraft.intent
    BY <1>0, <2>1 DEF SHostSound, SProven, SRootHeld
  <2>3. v \in SCmdRows /\ v.stage = "ready" /\ v.intent = sDraft.intent
    BY <1>0 DEF SHostSound, SDraftSet, SCmdRows, SStageSet, SCommandsTyped
  <2>4. sDraft.intent \in SIntents
    BY <1>0, <2>1 DEF SProven, SImportSound
  <2> HIDE DEF v
  <2>5. sCmd'[c] = v /\ \A d \in SCommands : d # c => sCmd'[d] = sCmd[d]
    BY <1>0, <2>1 DEF SCommandsTyped
  <2>6. SCommandsTyped'
    BY <1>0, <1>1, <2>1, <2>3, <2>4, <2>5 DEF SCommandsTyped
  <2>7. \A d \in SCommands : sCmd'[d].stage = "mark" => SProven(sCmd'[d].intent)
    BY <1>0, <2>3, <2>5 DEF SHostSound
  <2>8. SHostSound'
    BY <1>0, <1>2, <2>1, <2>2, <2>7 DEF SHostSound
  <2> QED
    BY <1>2, <2>6, <2>8 DEF SetupInv
<1>8. CASE SReady(c)
  <2>1. SEnds(c) /\ UNCHANGED <<sDraft, sSnapshot>> /\ sCmd[c].stage = "ready"
    BY <1>8 DEF SReady
  <2>2. sDraft.phase = "root-imported" /\ sSnapshot = sDraft.intent
    BY <1>0, <2>1 DEF SHostSound
  <2>3. \A d \in SCommands : sCmd'[d].stage = "mark" => SProven(sCmd'[d].intent)
    BY <1>0, <1>e, <2>1 DEF SHostSound
  <2>4. SHostSound'
    BY <1>0, <1>2, <2>1, <2>2, <2>3 DEF SHostSound
  <2> QED
    BY <1>2, <1>e, <2>1, <2>4 DEF SetupInv
<1> QED
  BY <1>3, <1>4, <1>5, <1>6, <1>7, <1>8

\* Once a root is imported nothing of it changes any more.
LEMMA ProvenKept ==
  ASSUME sRow.phase = "root-imported" => UNCHANGED <<sRow, sBundle, sObjects, sRef>>,
         sStore = "repository" => sStore' = "repository"
  PROVE  \A i : SProven(i) => SProven(i)'
BY DEF SProven, SBundleHeld, SRootHeld

\* A step of native Git, from what it does to import and commands.
LEMMA GitSteps ==
  ASSUME SetupInv, UNCHANGED recordVars, SCommandsTyped', SImportSound',
         \A d \in SCommands : sCmd'[d].stage \in {"mark", "ready"} => sCmd'[d] = sCmd[d],
         sRow.phase = "root-imported" => UNCHANGED <<sRow, sBundle, sObjects, sRef>>,
         sStore = "repository" => sStore' = "repository"
  PROVE  SetupInv'
<1>1. \A i : SProven(i) => SProven(i)'
  BY ProvenKept
<1>2. SHostSound'
  BY <1>1, HostFrame DEF SetupInv
<1> QED
  BY <1>2 DEF SetupInv

\* Preparation of the storage.
LEMMA PrepareSteps ==
  ASSUME SetupInv, (\E c \in SCommands : SPrepare(c)) \/ SProvision \/ SPrepared
  PROVE  SetupInv'
<1>0. SCommandsTyped /\ SImportSound
  BY DEF SetupInv
<1>1. UNCHANGED recordVars /\ UNCHANGED importVars /\ UNCHANGED sPlane
  BY DEF SPrepare, SProvision, SPrepared
<1>2. ASSUME NEW c \in SCommands, SPrepare(c) PROVE SetupInv'
  <2>1. sCmd[c].stage = "prepare" /\ UNCHANGED sStore
    BY <1>2 DEF SPrepare
  <2>2. \E stage \in {"upload", "preparing"} : SGoto(c, stage)
    BY <1>2 DEF SPrepare
  <2>3. {"upload", "preparing"} \subseteq SStageSet \ {"none"}
    BY DEF SStageSet
  <2>4. SCommandsTyped' /\ \A d \in SCommands : sCmd'[d].stage \in {"mark", "ready"} => sCmd'[d] = sCmd[d]
    BY <1>0, <1>1, <2>1, <2>2, <2>3, CommandGoes
  <2>5. sReg' = sReg \/ (sReg # "prepared" /\ sReg' = "provisioning")
    BY <1>2 DEF SPrepare
  <2>6. SImportSound'
    BY <1>0, <1>1, <2>1, <2>5 DEF SImportSound
  <2> QED
    BY <1>1, <2>1, <2>4, <2>6, GitSteps
<1>3. CASE SProvision
  <2>1. sStore # "repository" /\ UNCHANGED <<sReg, sCmd>>
    BY <1>3 DEF SProvision
  <2>2. SImportSound'
    BY <1>0, <1>1, <2>1 DEF SImportSound
  <2>3. SCommandsTyped'
    BY <1>0, <1>1, <2>1 DEF SCommandsTyped
  <2> QED
    BY <1>1, <2>1, <2>2, <2>3, GitSteps
<1>4. CASE SPrepared
  <2>1. sStore = "repository" /\ sReg' = "prepared" /\ UNCHANGED sStore /\ SReply(sPrep, "preparing", "upload")
    BY <1>4 DEF SPrepared
  <2>2. SImportSound'
    BY <1>0, <1>1, <2>1 DEF SImportSound
  <2>3. SCommandsTyped' /\ \A d \in SCommands : sCmd'[d].stage \in {"mark", "ready"} => sCmd'[d] = sCmd[d]
    BY <1>0, <1>1, <2>1, CommandAnswered
  <2> QED
    BY <1>1, <2>1, <2>2, <2>3, GitSteps
<1> QED
  BY <1>2, <1>3, <1>4

\* Upload and its publication.
LEMMA UploadSteps ==
  ASSUME SetupInv, (\E c \in SCommands : SUploadBegins(c)) \/ SPublishBundle \/ SMarkDurable
  PROVE  SetupInv'
<1>0. SCommandsTyped /\ SImportSound
  BY DEF SetupInv
<1>1. UNCHANGED recordVars /\ UNCHANGED <<sReg, sStore, sObjects, sRef, sPlane>>
  BY DEF SUploadBegins, SPublishBundle, SMarkDurable
<1>2. ASSUME NEW c \in SCommands, SUploadBegins(c) PROVE SetupInv'
  <2>1. sCmd[c].stage = "upload" /\ sCmd[c].intent \in SIntents /\ UNCHANGED sBundle
    BY <1>0, <1>2 DEF SUploadBegins, SCommandsTyped
  <2>2. CASE SClaims(c)
    <3>0. "uploading" \in SStageSet \ {"none"} /\ SGoto(c, "uploading")
      BY <1>2, <2>2 DEF SUploadBegins, SStageSet
    <3>1. SCommandsTyped' /\ \A d \in SCommands : sCmd'[d].stage \in {"mark", "ready"} => sCmd'[d] = sCmd[d]
      BY <1>0, <1>1, <2>1, <3>0, CommandGoes
    <3>2. sGate' = [kind |-> "upload", stage |-> "received", cmd |-> c, intent |-> sCmd[c].intent]
      BY <1>2, <2>2 DEF SUploadBegins
    <3>3. sGate' \in SGateSet /\ sGate'.kind = "upload" /\ sGate'.stage = "received" /\ sGate'.intent = sCmd[c].intent
      BY <2>1, <3>2 DEF SGateSet
    <3>4. sReg = "prepared"
      BY <2>2 DEF SClaims
    <3>5. CASE sRow.phase # "none"
      <4>1. sRow' = sRow /\ sRow.intent = sCmd[c].intent
        BY <1>2, <2>2, <3>5 DEF SUploadBegins, SClaims
      <4>2. SImportSound'
        BY <1>0, <1>1, <2>1, <3>3, <3>5, <4>1 DEF SImportSound
      <4> QED
        BY <1>1, <2>1, <3>1, <4>1, <4>2, GitSteps
    <3>6. CASE sRow.phase = "none"
      <4>1. sRow' = [phase |-> "intent", intent |-> sCmd[c].intent, plane |-> sPlane]
        BY <1>2, <2>2, <3>6 DEF SUploadBegins
      <4>2. sRow' \in SRowSet /\ sRow'.phase = "intent" /\ sRow'.intent = sCmd[c].intent
        BY <1>0, <2>1, <4>1 DEF SRowSet, SPhaseSet, SCommandsTyped
      <4>3. sBundle = SNone /\ sRef = SNone
        BY <1>0, <3>6 DEF SImportSound, SInstalledPhases
      <4>4. SImportSound'
        BY <1>0, <1>1, <2>1, <3>3, <3>4, <4>2, <4>3 DEF SImportSound, SInstalledPhases, SDurablePhases
      <4> QED
        BY <1>1, <2>1, <3>1, <3>6, <4>4, GitSteps
    <3> QED
      BY <3>5, <3>6
  <2>3. CASE ~SClaims(c)
    <3>1. SEnds(c) /\ UNCHANGED <<sRow, sGate>>
      BY <1>2, <2>3 DEF SUploadBegins
    <3>2. SCommandsTyped' /\ \A d \in SCommands : sCmd'[d].stage \in {"mark", "ready"} => sCmd'[d] = sCmd[d]
      BY <1>0, <1>1, <3>1, CommandEnds
    <3>3. SImportSound'
      BY <1>0, <1>1, <2>1, <3>1 DEF SImportSound
    <3> QED
      BY <1>1, <2>1, <3>1, <3>2, <3>3, GitSteps
  <2> QED
    BY <2>2, <2>3
<1>3. CASE SPublishBundle
  <2>1. sGate.kind = "upload" /\ UNCHANGED <<sRow, sCmd>> /\ sGate' = [sGate EXCEPT !.stage = "published"]
    BY <1>3 DEF SPublishBundle
  <2>2. sBundle' = IF sBundle = SNone THEN sGate.intent ELSE sBundle
    BY <1>3 DEF SPublishBundle, SVerified
  <2>3. /\ sGate' \in SGateSet /\ sGate'.kind = sGate.kind /\ sGate'.stage = "published" /\ sGate'.intent = sGate.intent
    BY <1>0, <2>1 DEF SImportSound, SGateSet
  <2>4. sBundle' = sRow.intent /\ (sBundle # SNone => sBundle' = sBundle)
    BY <1>0, <2>1, <2>2 DEF SImportSound
  <2>5. SImportSound'
    BY <1>0, <1>1, <2>1, <2>3, <2>4 DEF SImportSound
  <2>6. SCommandsTyped'
    BY <1>0, <1>1, <2>1 DEF SCommandsTyped
  <2>7. sRow.phase = "root-imported" => sBundle' = sBundle
    BY <1>0, <2>4 DEF SImportSound, SDurablePhases
  <2> QED
    BY <1>1, <2>1, <2>5, <2>6, <2>7, GitSteps
<1>4. CASE SMarkDurable
  <2>1. /\ sGate.kind = "upload" /\ sGate.stage = "published" /\ sGate' = SFree /\ UNCHANGED sBundle
        /\ sRow' = SDurable(sRow)
    BY <1>4 DEF SMarkDurable
  <2>2. PICK stage \in {"finalize", "none"} : SReply(sGate.cmd, "uploading", stage)
    BY <1>4 DEF SMarkDurable
  <2>3. SCommandsTyped' /\ \A d \in SCommands : sCmd'[d].stage \in {"mark", "ready"} => sCmd'[d] = sCmd[d]
    BY <1>0, <1>1, <2>2, CommandAnswered
  <2>4. sGate' \in SGateSet /\ sGate'.kind = "none" /\ sGate'.stage = "none"
    BY <2>1 DEF SFree, SGateSet
  <2>5. /\ sRow' \in SRowSet /\ sRow'.intent = sRow.intent
        /\ \/ sRow' = sRow
           \/ sRow.phase = "intent" /\ sRow'.phase = "bundle-durable"
    BY <1>0, <2>1 DEF SDurable, SImportSound, SRowSet, SPhaseSet
  <2>6. SImportSound'
    <3>1. CASE sRow' = sRow
      BY <1>0, <1>1, <2>1, <2>4, <3>1 DEF SImportSound
    <3>2. CASE sRow.phase = "intent" /\ sRow'.phase = "bundle-durable"
      BY <1>0, <1>1, <2>1, <2>4, <2>5, <3>2 DEF SImportSound, SInstalledPhases
    <3> QED
      BY <2>5, <3>1, <3>2
  <2> QED
    BY <1>1, <2>1, <2>3, <2>5, <2>6, GitSteps
<1> QED
  BY <1>2, <1>3, <1>4

\* Installation and publication of the root.
LEMMA InstallSteps ==
  ASSUME SetupInv,
         \/ \E c \in SCommands : SFinalizeBegins(c)
         \/ SBeginInstall \/ SUnbundle \/ SMarkInstalled \/ SLeftoverRefused \/ SPublishRef
         \/ SMarkRootImported \/ SFinalized
  PROVE  SetupInv'
<1>0. SCommandsTyped /\ SImportSound
  BY DEF SetupInv
<1>1. UNCHANGED recordVars /\ UNCHANGED <<sReg, sStore, sBundle, sPlane>>
  BY DEF SFinalizeBegins, SBeginInstall, SUnbundle, SMarkInstalled, SLeftoverRefused, SPublishRef,
         SMarkRootImported, SFinalized
<1>2. ASSUME NEW c \in SCommands, SFinalizeBegins(c) PROVE SetupInv'
  <2>1. UNCHANGED <<sRow, sObjects, sRef>> /\ sCmd[c].stage = "finalize" /\ sCmd[c].intent \in SIntents
    BY <1>0, <1>2 DEF SFinalizeBegins, SCommandsTyped
  <2>2. CASE SGoto(c, "finalizing") /\ sGate' = [kind |-> "finalize", stage |-> "checked", cmd |-> c, intent |-> sCmd[c].intent]
    <3>1. "finalizing" \in SStageSet \ {"none"}
      BY DEF SStageSet
    <3>2. SCommandsTyped' /\ \A d \in SCommands : sCmd'[d].stage \in {"mark", "ready"} => sCmd'[d] = sCmd[d]
      BY <1>0, <1>1, <2>1, <2>2, <3>1, CommandGoes
    <3>3. sGate' \in SGateSet /\ sGate'.kind = "finalize" /\ sGate'.stage = "checked"
      BY <2>1, <2>2 DEF SGateSet
    <3>4. SImportSound'
      BY <1>0, <1>1, <2>1, <3>3 DEF SImportSound
    <3> QED
      BY <1>1, <2>1, <3>2, <3>4, GitSteps
  <2>3. CASE SEnds(c) /\ UNCHANGED sGate
    <3>1. SCommandsTyped' /\ \A d \in SCommands : sCmd'[d].stage \in {"mark", "ready"} => sCmd'[d] = sCmd[d]
      BY <1>0, <1>1, <2>3, CommandEnds
    <3>2. SImportSound'
      BY <1>0, <1>1, <2>1, <2>3 DEF SImportSound
    <3> QED
      BY <1>1, <2>1, <3>1, <3>2, GitSteps
  <2> QED
    BY <1>2, <2>2, <2>3 DEF SFinalizeBegins
<1>3. ASSUME UNCHANGED sCmd, SImportSound',
             sRow.phase = "root-imported" => UNCHANGED <<sRow, sObjects, sRef>>
      PROVE  SetupInv'
  <2>1. SCommandsTyped'
    BY <1>0, <1>1, <1>3 DEF SCommandsTyped
  <2> QED
    BY <1>1, <1>3, <2>1, GitSteps
<1>r. ASSUME NEW phase \in SPhaseSet, sRow' = [sRow EXCEPT !.phase = phase]
      PROVE  sRow' \in SRowSet /\ sRow'.phase = phase /\ sRow'.intent = sRow.intent
  BY <1>0, <1>r DEF SImportSound, SRowSet
<1>4. CASE SBeginInstall
  <2>1. /\ sRow.phase = "bundle-durable" /\ sRef = SNone /\ sRow' = [sRow EXCEPT !.phase = "installing"]
        /\ UNCHANGED <<sObjects, sRef, sGate, sCmd>> /\ sGate.kind = "finalize"
    BY <1>4 DEF SBeginInstall, SFinalizing
  <2>2. sRow' \in SRowSet /\ sRow'.phase = "installing" /\ sRow'.intent = sRow.intent
    BY <1>r, <2>1 DEF SPhaseSet
  <2>3. SImportSound'
    BY <1>0, <1>1, <2>1, <2>2 DEF SImportSound, SDurablePhases, SInstalledPhases
  <2> QED
    BY <1>3, <2>1, <2>3
<1>g. ASSUME NEW stage \in {"checked", "unbundled"}, sGate' = [sGate EXCEPT !.stage = stage]
      PROVE  sGate' \in SGateSet /\ sGate'.kind = sGate.kind /\ sGate'.stage = stage
  BY <1>0, <1>g DEF SImportSound, SGateSet
<1>5. CASE SUnbundle
  <2>1. /\ sRow.phase = "installing" /\ sObjects' = TRUE /\ UNCHANGED <<sRow, sRef, sCmd>>
        /\ sGate' = [sGate EXCEPT !.stage = "unbundled"] /\ sGate.kind = "finalize"
    BY <1>5 DEF SUnbundle, SFinalizing
  <2>2. sGate' \in SGateSet /\ sGate'.kind = "finalize"
    BY <1>g, <2>1
  <2>3. SImportSound'
    BY <1>0, <1>1, <2>1, <2>2 DEF SImportSound
  <2> QED
    BY <1>3, <2>1, <2>3
<1>6. CASE SMarkInstalled
  <2>1. /\ sRow.phase = "installing" /\ sRef = SNone /\ sRow' = [sRow EXCEPT !.phase = "objects-installed"]
        /\ UNCHANGED <<sObjects, sRef, sCmd>> /\ sGate.kind = "finalize" /\ sGate.stage = "unbundled"
        /\ sGate' = [sGate EXCEPT !.stage = "checked"]
    BY <1>6 DEF SMarkInstalled, SFinalizing
  <2>2. /\ sRow' \in SRowSet /\ sRow'.phase = "objects-installed" /\ sRow'.intent = sRow.intent
        /\ sGate' \in SGateSet /\ sGate'.kind = "finalize" /\ sGate'.stage = "checked"
    BY <1>r, <1>g, <2>1 DEF SPhaseSet
  <2>3. SImportSound'
    BY <1>0, <1>1, <2>1, <2>2 DEF SImportSound, SDurablePhases, SInstalledPhases
  <2> QED
    BY <1>3, <2>1, <2>3
<1>7. CASE SPublishRef
  <2>1. sRow.phase = "objects-installed" /\ sRef' = sRow.intent /\ UNCHANGED <<sRow, sObjects, sGate, sCmd>>
    BY <1>7 DEF SPublishRef, SMayPublish
  <2>2. SImportSound'
    BY <1>0, <1>1, <2>1 DEF SImportSound, SInstalledPhases
  <2> QED
    BY <1>3, <2>1, <2>2
<1>8. CASE SMarkRootImported
  <2>1. /\ sRow.phase = "objects-installed" /\ sRef = sRow.intent /\ sRow' = [sRow EXCEPT !.phase = "root-imported"]
        /\ UNCHANGED <<sObjects, sRef, sGate, sCmd>> /\ sGate.kind = "finalize"
    BY <1>8 DEF SMarkRootImported, SFinalizing
  <2>2. sRow' \in SRowSet /\ sRow'.phase = "root-imported" /\ sRow'.intent = sRow.intent
    BY <1>r, <2>1 DEF SPhaseSet
  <2>3. SImportSound'
    BY <1>0, <1>1, <2>1, <2>2 DEF SImportSound, SDurablePhases, SInstalledPhases
  <2> QED
    BY <1>3, <2>1, <2>3
<1>9. CASE SLeftoverRefused \/ SFinalized
  <2>1. UNCHANGED <<sRow, sObjects, sRef>> /\ sGate' = SFree
    BY <1>9 DEF SLeftoverRefused, SFinalizeEnds, SFinalized
  <2>a. PICK stage \in {"none", "confirm"} : SReply(sGate.cmd, "finalizing", stage)
    BY <1>9 DEF SLeftoverRefused, SFinalizeEnds, SFinalized
  <2>2. SCommandsTyped' /\ \A d \in SCommands : sCmd'[d].stage \in {"mark", "ready"} => sCmd'[d] = sCmd[d]
    BY <1>0, <1>1, <2>a, CommandAnswered
  <2>3. sGate' \in SGateSet /\ sGate'.kind = "none" /\ sGate'.stage = "none"
    BY <2>1 DEF SFree, SGateSet
  <2>4. SImportSound'
    BY <1>0, <1>1, <2>1, <2>3 DEF SImportSound
  <2> QED
    BY <1>1, <2>1, <2>2, <2>4, GitSteps
<1> QED
  BY <1>2, <1>4, <1>5, <1>6, <1>7, <1>8, <1>9

\* Deadline, crash, new generation, start.
LEMMA ServiceSteps ==
  ASSUME SetupInv, SDownIsFree, SDeadline \/ SCrash \/ SRollover \/ SStart
  PROVE  SetupInv'
<1>0. SCommandsTyped /\ SImportSound
  BY DEF SetupInv
<1>1. UNCHANGED recordVars /\ UNCHANGED <<sReg, sStore, sRow, sRef>>
  BY DEF SDeadline, SCrash, SRollover, SStart
<1>2. SFree \in SGateSet /\ SFree.kind = "none" /\ SFree.stage = "none"
  BY DEF SFree, SGateSet
<1>o. CASE SDeadline \/ SCrash
  <2>1. UNCHANGED <<sBundle, sPlane>> /\ sGate' = SFree
    BY <1>o DEF SDeadline, SCrash
  <2>2. sObjects' \in {sObjects, sObjects \/ SUnbundling}
    BY <1>o DEF SDeadline, SCrash, SGitKilled
  <2>3. sObjects => sObjects'
    BY <2>2
  <2>4. sRow.phase = "root-imported" => UNCHANGED sObjects
    BY <1>0, <2>2, Zenon DEF SUnbundling, SImportSound, SInstalledPhases
  <2>5. SImportSound'
    BY <1>0, <1>1, <1>2, <2>1, <2>3 DEF SImportSound
  <2>6. SCommandsTyped' /\ \A d \in SCommands : sCmd'[d].stage \in {"mark", "ready"} => sCmd'[d] = sCmd[d]
    <3>1. CASE SDeadline
      <4>1. PICK waits \in {"uploading", "finalizing"} : SReply(sGate.cmd, waits, "none")
        BY <3>1 DEF SDeadline
      <4> QED
        BY <1>0, <2>1, <4>1, CommandAnswered
    <3>2. CASE SCrash
      BY <1>0, <2>1, <3>2 DEF SCrash, SCommandsTyped
    <3> QED
      BY <1>o, <3>1, <3>2
  <2> QED
    BY <1>1, <2>1, <2>4, <2>5, <2>6, GitSteps
<1>5. CASE SRollover
  <2>1. sPlane' = sPlane + 1 /\ UNCHANGED <<sBundle, sObjects, sGate, sCmd>>
    BY <1>5 DEF SRollover
  <2>2. SCommandsTyped'
    BY <1>0, <2>1 DEF SCommandsTyped
  <2>3. SImportSound'
    BY <1>0, <1>1, <2>1 DEF SImportSound
  <2> QED
    BY <1>1, <2>1, <2>2, <2>3, GitSteps
<1>6. CASE SStart
  <2>1. UNCHANGED <<sPlane, sCmd, sObjects>> /\ sBundle' = (IF sRow.phase = "intent" THEN SNone ELSE sBundle)
    BY <1>6 DEF SStart, SReconciled
  <2>2. \/ UNCHANGED sGate
        \/ sGate' = [kind |-> "finalize", stage |-> "checked", cmd |-> SNoOne, intent |-> sRow.intent]
    BY <1>6 DEF SStart
  <2>d. sGate.kind = "none"
    BY <1>6 DEF SStart, SDownIsFree
  <2>3. SCommandsTyped'
    BY <1>0, <2>1 DEF SCommandsTyped
  <2>g. sGate' \in SGateSet /\ ((sGate'.kind = "finalize" /\ sGate'.stage = "checked") \/ sGate' = sGate)
    <3>1. CASE UNCHANGED sGate
      BY <1>0, <3>1 DEF SImportSound
    <3>2. CASE sGate' = [kind |-> "finalize", stage |-> "checked", cmd |-> SNoOne, intent |-> sRow.intent]
      BY <1>0, <3>2 DEF SImportSound, SGateSet, SRowSet
    <3> QED
      BY <2>2, <3>1, <3>2
  <2>4. SImportSound'
    BY <1>0, <1>1, <2>1, <2>d, <2>g DEF SImportSound, SDurablePhases
  <2> QED
    BY <1>1, <2>1, <2>3, <2>4, GitSteps
<1> QED
  BY <1>o, <1>5, <1>6

\* The gate is taken by a service that runs, and a crash frees it.
LEMMA GateStep ==
  ASSUME SImportSound, SDownIsFree, [SetupNext]_sVars
  PROVE  SDownIsFree'
<1>1. CASE UNCHANGED <<sServer, sGate>>
  BY <1>1 DEF SDownIsFree
<1>2. ASSUME NEW c \in SCommands,
             \/ \E i \in SIntents : SBootstrap(c, i)
             \/ SClaim(c) \/ (\E recorded \in BOOLEAN : SClaimDies(c, recorded))
             \/ SMarkImported(c) \/ SAbandon(c) \/ SRefused(c) \/ SPrepare(c) \/ SBusy(c) \/ SProve(c)
             \/ SAdmit(c) \/ (\E linked \in BOOLEAN : SAdmitDies(c, linked))
             \/ SReadySnapshot(c) \/ SReady(c)
      PROVE  UNCHANGED <<sServer, sGate>>
  BY <1>2 DEF SBootstrap, SClaim, SClaimDies, SMarkImported, SAbandon, SRefused, SPrepare, SBusy, SProve, SAdmit,
              SAdmitDies, SReadySnapshot, SReady
<1>3. ASSUME NEW c \in SCommands, SUploadBegins(c) \/ SFinalizeBegins(c) PROVE sServer' # "down"
  BY <1>3 DEF SUploadBegins, SFinalizeBegins, SServing
<1>4. CASE SProvision \/ SRollover \/ SBeginInstall \/ SPublishRef \/ SMarkRootImported
  BY <1>1, <1>4 DEF SProvision, SRollover, SBeginInstall, SPublishRef, SMarkRootImported
<1>u. CASE SUnbundle \/ SMarkInstalled
  BY <1>u DEF SUnbundle, SMarkInstalled, SFinalizing, SDownIsFree
<1>5. CASE SPrepared \/ SFinalized
  BY <1>5 DEF SPrepared, SFinalized, SDownIsFree
<1>6. CASE SPublishBundle
  BY <1>6 DEF SPublishBundle, SDownIsFree, SImportSound, SGateSet
<1>7. CASE SMarkDurable \/ SLeftoverRefused \/ SDeadline \/ SCrash
  BY <1>7 DEF SMarkDurable, SLeftoverRefused, SFinalizeEnds, SDeadline, SCrash, SDownIsFree, SFree
<1>8. CASE SStart
  BY <1>8 DEF SStart, SDownIsFree
<1>9. CASE UNCHANGED sVars
  BY <1>1, <1>9
<1> QED
  BY <1>1, <1>2, <1>3, <1>4, <1>u, <1>5, <1>6, <1>7, <1>8, <1>9 DEF SetupNext, SImporting, SDownIsFree

LEMMA SetupStart == SetupInit => SetupInv /\ SDownIsFree
<1> SUFFICES ASSUME SetupInit PROVE SetupInv /\ SDownIsFree
  OBVIOUS
<1>1. SCommandsTyped
  <2>1. SQuiet \in SCmdRows /\ SQuiet.stage = "none"
    BY DEF SQuiet, SCmdRows, SStageSet
  <2> QED
    BY <2>1 DEF SetupInit, SCommandsTyped
<1>2. SImportSound
  BY DEF SetupInit, SImportSound, SNoRow, SFree, SRowSet, SGateSet, SPhaseSet, SDurablePhases, SInstalledPhases
<1>3. SHostSound
  <2>1. \A c \in SCommands : sCmd[c].stage = "none"
    BY DEF SetupInit, SQuiet
  <2>2. sDraft \in SDraftSet /\ sDraft.phase = "none" /\ sRecord = "none"
    BY DEF SetupInit, SNoDraft, SDraftSet
  <2> QED
    BY <2>1, <2>2 DEF SHostSound
<1>4. SDownIsFree
  BY DEF SetupInit, SDownIsFree
<1> QED
  BY <1>1, <1>2, <1>3, <1>4 DEF SetupInv

LEMMA SetupStep == SetupInv /\ SDownIsFree /\ [SetupNext]_sVars => (SetupInv /\ SDownIsFree)'
<1> SUFFICES ASSUME SetupInv, SDownIsFree, [SetupNext]_sVars PROVE SetupInv' /\ SDownIsFree'
  OBVIOUS
<1>1. SDownIsFree'
  BY GateStep DEF SetupInv
<1> SUFFICES SetupInv'
  BY <1>1
<1>2. ASSUME NEW c \in SCommands,
             \/ \E i \in SIntents : SBootstrap(c, i)
             \/ SClaim(c) \/ (\E recorded \in BOOLEAN : SClaimDies(c, recorded))
             \/ SMarkImported(c) \/ SAbandon(c) \/ SRefused(c) \/ SPrepare(c) \/ SBusy(c)
             \/ SUploadBegins(c) \/ SFinalizeBegins(c) \/ SProve(c)
             \/ SAdmit(c) \/ (\E linked \in BOOLEAN : SAdmitDies(c, linked))
             \/ SReadySnapshot(c) \/ SReady(c)
      PROVE  SetupInv'
  <2>1. CASE (\E i \in SIntents : SBootstrap(c, i)) \/ SAbandon(c) \/ SRefused(c) \/ SBusy(c) \/ SProve(c)
    BY <2>1, CommandSteps
  <2>2. CASE \/ SClaim(c) \/ (\E recorded \in BOOLEAN : SClaimDies(c, recorded)) \/ SMarkImported(c)
             \/ SAdmit(c) \/ (\E linked \in BOOLEAN : SAdmitDies(c, linked))
             \/ SReadySnapshot(c) \/ SReady(c)
    BY <2>2, RecordSteps
  <2>3. CASE SPrepare(c)
    BY <2>3, PrepareSteps
  <2>4. CASE SUploadBegins(c)
    BY <2>4, UploadSteps
  <2>5. CASE SFinalizeBegins(c)
    BY <2>5, InstallSteps
  <2> QED
    BY <1>2, <2>1, <2>2, <2>3, <2>4, <2>5
<1>3. CASE SProvision \/ SPrepared
  BY <1>3, PrepareSteps
<1>4. CASE SPublishBundle \/ SMarkDurable
  BY <1>4, UploadSteps
<1>5. CASE \/ SBeginInstall \/ SUnbundle \/ SMarkInstalled \/ SLeftoverRefused \/ SPublishRef
           \/ SMarkRootImported \/ SFinalized
  BY <1>5, InstallSteps
<1>6. CASE SDeadline \/ SCrash \/ SRollover \/ SStart
  BY <1>6, ServiceSteps
<1>7. CASE UNCHANGED sVars
  <2>1. SCommandsTyped'
    BY <1>7 DEF SetupInv, SCommandsTyped
  <2>2. SImportSound'
    BY <1>7, ImportFrame DEF SetupInv
  <2> QED
    BY <1>7, <2>1, <2>2, GitSteps
<1> QED
  BY <1>2, <1>3, <1>4, <1>5, <1>6, <1>7 DEF SetupNext, SImporting

(* The invariant of Project setup, for any number of intents and host      *)
(* commands.                                                               *)
THEOREM SetupInductive == SetupSpec => [](SetupInv /\ SDownIsFree)
BY SetupStart, SetupStep, PTL DEF SetupSpec

(* Every record of an import is backed by the bundle, objects, ref and     *)
(* snapshot it speaks of, whatever crashed, timed out or died in between,  *)
(* since the gate keeps an upload's bytes with the intent of the row and   *)
(* an imported root is final.                                              *)
THEOREM ImportRecordsBacked == SetupSpec => []SRecordsBacked
<1>1. SetupInv => SRecordsBacked
  <2> SUFFICES ASSUME SetupInv PROVE SRecordsBacked
    OBVIOUS
  <2>1. sRow.phase \in SPhaseSet /\ SImportSound /\ SHostSound
    BY DEF SetupInv, SImportSound, SRowSet
  <2>2. /\ SRank(sRow.phase) >= SRank("bundle-durable") => sRow.phase \in SDurablePhases
        /\ SRank(sRow.phase) >= SRank("objects-installed") => sRow.phase \in SInstalledPhases
    BY <2>1, Ranks
  <2>3. SRefBound
    BY <2>1, <2>2 DEF SRefBound, SImportSound, SInstalledPhases
  <2>4. SReceiptTrue
    BY <2>1 DEF SReceiptTrue, SHostSound
  <2> QED
    BY <2>3, <2>4 DEF SRecordsBacked
<1> QED
  BY <1>1, SetupInductive, PTL
-----------------------------------------------------------------------------
(***************************************************************************)
(* Workspaces.  Every operation works on the record under the setup lock,  *)
(* so the invariant says what holds of the one operation that has it, stage *)
(* by stage: how the record it is about to write relates to the record that *)
(* is there, and to what relay and container have been told meanwhile.      *)
(***************************************************************************)

WUnder == {"enter", "inspect", "decide", "select", "notify", "halt", "write", "reconcile", "setting-up",
           "agent", "project-setup", "announce", "revoke", "teardown", "remove"}
WStageSet == {"none", "accepted", "project", "lock"} \cup WUnder
WThens == {"none", "reconcile", "inspect", "decide", "select", "agent", "announce", "revoke", "end", "failed"}
WRecordSet == [phase : WPhases, id : Nat, root : Nat]
WOpRows == [op : WOperations \cup {"none", "shutdown", "hoststart"}, stage : WStageSet, seen : WRecordSet,
            pick : Nat, next : WRecordSet, then : WThens, lenient : BOOLEAN]
WLocks == {"project", "setup", "authority"}

WTyped ==
  /\ wRec \in WRecordSet /\ wIds \in Nat /\ wHead \in Nat /\ wBlind \in Nat
  /\ wBox \in [state : {"none", "stopped", "running"}, root : Nat]
  /\ wOp \in [WWorkers -> WOpRows]
  /\ wLock \in [WLocks -> WWorkers \cup {WNobody, "request"}]
  /\ wReq \in [stage : {"none", "authenticated", "serving"}, kind : {"none", "api", "read", "write"},
               seen : WRecordSet]

\* The relay runs in the container; a relay that is up under a ready record, or
\* that says ready itself, is up where Project setup completed for that record;
\* and only a discard that could not look at the container leaves it saying so.
WRelaySound ==
  /\ wRelay # "down" => wBox.state = "running"
  /\ wRelay = "ready" => wRec.phase = "ready" \/ (wRec.phase = "discarding" /\ wBlind = wRec.id)
  /\ wRelay = "ready" \/ (wRelay # "down" /\ wRec.phase = "ready") =>
       wBox.root = wRec.root /\ wSetup.id = wRec.id /\ wSetup.root = wRec.root

WGrantsSound ==
  /\ wRec.phase = "none" => wGrants = {}
  /\ wReq.stage = "serving" => wLock["authority"] = "request"
  /\ GrantsAreCurrent

\* An operation under way has a name; what must be told to the relay first is not lenient.
WOpNamed(p) ==
  /\ wOp[p].op = "none" => wOp[p].stage = "none"
  /\ wOp[p].op \in {"discard", "shutdown"} => wOp[p].lenient = FALSE

\* What an operation finds: no record only when it creates one, a discard under
\* way only when it is itself to discard, to look or to shut down.
WOpMayWork(p) ==
  /\ wRec.phase = "none" => wOp[p].op = "create" /\ wOp[p].stage = "enter"
  /\ wRec.phase = "discarding" => wOp[p].op \in {"discard", "show", "shutdown"}
  /\ wOp[p].op = "discard" => wOp[p].stage \in {"enter", "notify", "write", "revoke", "teardown", "remove"}
  /\ wOp[p].op = "shutdown" => wOp[p].stage \in {"enter", "notify", "halt", "write"}
  /\ wOp[p].op = "show" => wOp[p].stage \in {"enter", "inspect", "decide", "notify", "write"}

\* What holds of a container for which a record is being set up, if it still exists.
WFits(record) == wBox.state # "none" => wBox.root = record.root
WIsSetUp(record) == wBox.state # "none" => wSetup.id = record.id /\ wSetup.root = record.root

\* A publication under way: the record to be written against the one there is.
WOpPublishes(p) ==
  wOp[p].stage \in {"notify", "halt", "write"} =>
    /\ wOp[p].next.id = wRec.id /\ wOp[p].next.phase # "none" /\ wOp[p].then # "none"
    /\ wRec.phase = "discarding" => wOp[p].next = wRec
    /\ wOp[p].next.phase = "discarding" => wOp[p].op \in {"discard", "shutdown"}
    /\ wOp[p].next.phase = "ready" => wOp[p].next = wRec \/ (wOp[p].stage = "write" /\ wOp[p].then = "announce")
    /\ wOp[p].op = "discard" => wOp[p].then = "revoke" /\ wOp[p].next.phase = "discarding"
    /\ wOp[p].then = "revoke" => wOp[p].op = "discard" /\ wLock["authority"] = p
    /\ wOp[p].op = "shutdown" =>
         /\ wOp[p].then = "end" /\ wOp[p].next.phase # "ready"
         /\ wOp[p].next.phase = "discarding" => wRec.phase = "discarding"
    /\ wOp[p].op = "show" => wOp[p].then \in {"inspect", "decide", "failed"}
    /\ wOp[p].then = "select" => wOp[p].next.phase = "stopped"
    /\ wOp[p].then = "agent" => wOp[p].next.phase = "setting-up" /\ WFits(wOp[p].next)
    /\ wOp[p].then = "announce" => wOp[p].next.phase = "ready" /\ WFits(wOp[p].next) /\ WIsSetUp(wOp[p].next)
    /\ wOp[p].stage = "halt" => wOp[p].next.phase # "ready"
    /\ wOp[p].stage = "write" /\ wRelay = "ready" => wOp[p].next = wRec

\* What the other stages rest on.
WOpRests(p) ==
  /\ wOp[p].stage = "select" => wRec.phase # "ready"
  /\ wOp[p].stage \in {"agent", "project-setup"} => wRec.phase = "setting-up" /\ WFits(wRec)
  /\ wOp[p].stage = "announce" => wRec.phase = "ready"
  /\ wOp[p].stage \in {"revoke", "teardown", "remove"} => wOp[p].op = "discard" /\ wRec.phase = "discarding"
  /\ wOp[p].stage = "revoke" => wLock["authority"] = p
  /\ wOp[p].stage \in {"teardown", "remove"} => wGrants = {}
  /\ wOp[p].stage = "remove" => wRelay = "down"

WOpSound(p) ==
  /\ WOpNamed(p)
  /\ wOp[p].stage \in WUnder =>
       wLock["setup"] = p /\ WOpMayWork(p) /\ WOpPublishes(p) /\ WOpRests(p)

WorkspaceInv == WTyped /\ WRelaySound /\ WGrantsSound /\ \A p \in WWorkers : WOpSound(p)

USE DEF wVars, runtimeVars, worldVars

\* What a step of p leaves as it was: the other operations, and of p's own all but the stage.
WOthersKept(p) == \A q \in WWorkers : q # p => wOp'[q] = wOp[q]
WKeeps(p) ==
  /\ wOp'[p].op = wOp[p].op /\ wOp'[p].next = wOp[p].next
  /\ wOp'[p].then = wOp[p].then /\ wOp'[p].lenient = wOp[p].lenient

\* p goes to another stage.
LEMMA WGoesTo ==
  ASSUME WTyped, NEW p \in WWorkers, NEW s \in WStageSet, WGoes(p, s)
  PROVE  /\ wOp' \in [WWorkers -> WOpRows] /\ WOthersKept(p)
         /\ wOp'[p].stage = s /\ WKeeps(p)
<1> DEFINE o == [wOp[p] EXCEPT !.stage = s]
<1>1. wOp \in [WWorkers -> WOpRows]
  BY DEF WTyped
<1>2. wOp[p] \in WOpRows
  BY <1>1
<1>3. /\ o \in WOpRows /\ o.stage = s /\ o.op = wOp[p].op /\ o.next = wOp[p].next
      /\ o.then = wOp[p].then /\ o.lenient = wOp[p].lenient
  BY <1>2 DEF WOpRows
<1>4. wOp' = [wOp EXCEPT ![p] = o]
  BY <1>1 DEF WGoes
<1> HIDE DEF o
<1>5. wOp' \in [WWorkers -> WOpRows] /\ wOp'[p] = o /\ \A q \in WWorkers : q # p => wOp'[q] = wOp[q]
  BY <1>1, <1>3, <1>4
<1> QED
  BY <1>3, <1>5 DEF WOthersKept, WKeeps

\* p begins to publish a record.
LEMMA WPublishesTo ==
  ASSUME WTyped, NEW p \in WWorkers, NEW record \in WRecordSet, NEW notify \in BOOLEAN,
         NEW then \in WThens, NEW lenient \in BOOLEAN, WPublishes(p, record, notify, then, lenient)
  PROVE  /\ wOp' \in [WWorkers -> WOpRows] /\ WOthersKept(p)
         /\ wOp'[p].stage = (IF notify THEN "notify" ELSE "write") /\ wOp'[p].op = wOp[p].op
         /\ wOp'[p].next = record /\ wOp'[p].then = then /\ wOp'[p].lenient = lenient
<1> DEFINE s == IF notify THEN "notify" ELSE "write"
           o == [wOp[p] EXCEPT !.stage = s, !.next = record, !.then = then, !.lenient = lenient]
<1>1. wOp \in [WWorkers -> WOpRows]
  BY DEF WTyped
<1>2. wOp[p] \in WOpRows /\ s \in WStageSet
  BY <1>1 DEF WStageSet, WUnder
<1>3. wOp' = [wOp EXCEPT ![p] = o]
  BY <1>1 DEF WPublishes
<1> HIDE DEF s
<1>4. /\ o \in WOpRows /\ o.stage = s /\ o.op = wOp[p].op /\ o.next = record
      /\ o.then = then /\ o.lenient = lenient
  BY <1>2 DEF WOpRows
<1> HIDE DEF o
<1>5. wOp' \in [WWorkers -> WOpRows] /\ wOp'[p] = o /\ \A q \in WWorkers : q # p => wOp'[q] = wOp[q]
  BY <1>1, <1>3, <1>4
<1> QED
  BY <1>4, <1>5 DEF WOthersKept, s

\* p ends, and its locks are free.
LEMMA WEndsTo ==
  ASSUME WTyped, NEW p \in WWorkers, NEW ok, WEnds(p, ok)
  PROVE  /\ wOp' \in [WWorkers -> WOpRows] /\ WOthersKept(p) /\ wOp'[p].stage = "none"
         /\ WOpSound(p)'
         /\ wLock' \in [WLocks -> WWorkers \cup {WNobody, "request"}]
         /\ \A l \in WLocks : wLock[l] # p => wLock'[l] = wLock[l]
<1>1. wOp \in [WWorkers -> WOpRows] /\ wLock \in [WLocks -> WWorkers \cup {WNobody, "request"}]
  BY DEF WTyped
<1>2. WIdle \in WOpRows /\ WIdle.stage = "none"
  BY DEF WIdle, WOpRows, WNoRecord, WRecordSet, WPhases, WStageSet, WThens
<1>3. wOp' = [wOp EXCEPT ![p] = WIdle]
  BY DEF WEnds
<1>4. wOp' \in [WWorkers -> WOpRows] /\ wOp'[p] = WIdle /\ \A q \in WWorkers : q # p => wOp'[q] = wOp[q]
  BY <1>1, <1>2, <1>3
<1>5. wLock' = [l \in WLocks |-> IF wLock[l] = p THEN WNobody ELSE wLock[l]]
  BY <1>1 DEF WEnds, WReleased
<1>6. /\ wLock' \in [WLocks -> WWorkers \cup {WNobody, "request"}]
      /\ \A l \in WLocks : wLock[l] # p => wLock'[l] = wLock[l]
  BY <1>1, <1>5
<1>7. WOpSound(p)'
  BY <1>2, <1>4 DEF WOpSound, WOpNamed, WUnder, WIdle
<1> QED
  BY <1>2, <1>4, <1>6, <1>7 DEF WOthersKept

\* Of two operations one has the setup lock: a step under it disturbs no other.
LEMMA WUnderStep ==
  ASSUME WorkspaceInv, NEW p \in WWorkers, wOp[p].stage \in WUnder, WOthersKept(p),
         WTyped', WRelaySound', WGrantsSound', WOpSound(p)'
  PROVE  WorkspaceInv'
<1>1. wLock["setup"] = p
  BY DEF WorkspaceInv, WOpSound
<1>2. ASSUME NEW q \in WWorkers, q # p
      PROVE  WOpSound(q)'
  <2>1. wOp[q].stage \notin WUnder
    BY <1>1, <1>2 DEF WorkspaceInv, WOpSound
  <2>2. wOp'[q] = wOp[q] /\ WOpNamed(q)
    BY <1>2 DEF WOthersKept, WorkspaceInv, WOpSound
  <2> QED
    BY <2>1, <2>2 DEF WOpSound, WOpNamed
<1> QED
  BY <1>2 DEF WorkspaceInv

\* A step of an operation that does not have it, and changes nothing but its stage and its locks.
LEMMA WOutsideStep ==
  ASSUME WorkspaceInv, NEW p \in WWorkers, wOp[p].stage \notin WUnder, WOthersKept(p), WTyped',
         UNCHANGED <<wRec, wBox, wRelay, wSetup, wGrants, wReq, wBlind>>, wLock'["authority"] = wLock["authority"],
         wLock["setup"] # WNobody => wLock'["setup"] = wLock["setup"],
         WOpSound(p)'
  PROVE  WorkspaceInv'
<1>1. WRelaySound' /\ WGrantsSound'
  BY DEF WorkspaceInv, WRelaySound, WGrantsSound, GrantsAreCurrent
<1>2. ASSUME NEW q \in WWorkers, q # p
      PROVE  WOpSound(q)'
  <2>0. wOp'[q] = wOp[q] /\ WOpNamed(q) /\ WOpNamed(q)'
    BY <1>2 DEF WOthersKept, WorkspaceInv, WOpSound, WOpNamed
  <2>1. CASE wOp[q].stage \notin WUnder
    BY <2>0, <2>1 DEF WOpSound
  <2>2. CASE wOp[q].stage \in WUnder
    <3>1. wOp'[q] = wOp[q]
      BY <1>2 DEF WOthersKept
    <3>2. wLock["setup"] = q /\ WOpMayWork(q) /\ WOpPublishes(q) /\ WOpRests(q)
      BY <2>2 DEF WorkspaceInv, WOpSound
    <3>3. wLock'["setup"] = q
      BY <3>2 DEF WWorkers, WNobody
    <3>4. WOpMayWork(q)'
      BY <3>1, <3>2 DEF WOpMayWork
    <3>5. WOpPublishes(q)'
      BY <3>1, <3>2 DEF WOpPublishes, WFits, WIsSetUp
    <3>6. WOpRests(q)'
      BY <3>1, <3>2 DEF WOpRests, WFits
    <3> QED
      BY <2>0, <3>3, <3>4, <3>5, <3>6 DEF WOpSound
  <2> QED
    BY <2>1, <2>2
<1> QED
  BY <1>1, <1>2 DEF WorkspaceInv

\* A step that leaves record, container, relay and requests alone.
LEMMA WQuiet ==
  ASSUME WorkspaceInv, UNCHANGED <<wRec, runtimeVars, wGrants, wReq, wBlind>>,
         wReq.stage = "serving" => wLock'["authority"] = wLock["authority"]
  PROVE  WRelaySound' /\ WGrantsSound'
BY DEF WorkspaceInv, WRelaySound, WGrantsSound, GrantsAreCurrent

\* An operation that ends under the setup lock.
LEMMA WEndsSound ==
  ASSUME WorkspaceInv, NEW p \in WWorkers, wOp[p].stage \in WUnder, NEW ok, WEnds(p, ok),
         wRec' \in WRecordSet, wBox' \in [state : {"none", "stopped", "running"}, root : Nat],
         UNCHANGED <<wHead, wReq, wIds>>, wBlind' \in Nat, WRelaySound',
         wRec'.phase = "none" => wGrants' = {},
         GrantsAreCurrent'
  PROVE  WorkspaceInv'
<1>1. WTyped
  BY DEF WorkspaceInv
<1>2. /\ wOp' \in [WWorkers -> WOpRows] /\ WOthersKept(p) /\ WOpSound(p)'
      /\ wLock' \in [WLocks -> WWorkers \cup {WNobody, "request"}]
      /\ \A l \in WLocks : wLock[l] # p => wLock'[l] = wLock[l]
  BY <1>1, WEndsTo
<1>3. WTyped'
  BY <1>1, <1>2 DEF WTyped
<1>4. WGrantsSound'
  <2>1. wReq.stage = "serving" => wLock["authority"] = "request"
    BY DEF WorkspaceInv, WGrantsSound
  <2>2. wReq.stage = "serving" => wLock'["authority"] = "request"
    BY <1>2, <2>1 DEF WLocks, WWorkers
  <2> QED
    BY <2>2 DEF WGrantsSound
<1> QED
  BY <1>2, <1>3, <1>4, WUnderStep

\* What the invariant says of an operation under the setup lock.
LEMMA WHolder ==
  ASSUME WorkspaceInv, NEW p \in WWorkers, wOp[p].stage \in WUnder
  PROVE  /\ WTyped /\ wLock["setup"] = p /\ WOpNamed(p) /\ wOp[p].op # "none"
         /\ wOp[p] \in WOpRows /\ wRec \in WRecordSet
         /\ WOpMayWork(p) /\ WOpPublishes(p) /\ WOpRests(p)
BY DEF WorkspaceInv, WOpSound, WTyped, WOpNamed, WUnder

\* Another phase or another root makes another record.
LEMMA WRecords ==
  ASSUME WTyped
  PROVE  /\ \A phase \in WPhases : /\ WWith(phase) \in WRecordSet /\ WWith(phase).phase = phase
                                   /\ WWith(phase).id = wRec.id /\ WWith(phase).root = wRec.root
                                   /\ wRec.phase = phase => WWith(phase) = wRec
         /\ \A root \in Nat : LET r == [wRec EXCEPT !.root = root] IN
                r \in WRecordSet /\ r.phase = wRec.phase /\ r.id = wRec.id /\ r.root = root
BY DEF WTyped, WRecordSet, WWith

\* p begins to publish, and nothing else changes but perhaps the authority lock.
LEMMA WPublishQuiet ==
  ASSUME WorkspaceInv, NEW p \in WWorkers, wOp[p].stage \in WUnder,
         NEW record \in WRecordSet, NEW notify \in BOOLEAN, NEW then \in WThens, NEW lenient \in BOOLEAN,
         WPublishes(p, record, notify, then, lenient), WTyped',
         wLock'["setup"] = wLock["setup"], WRelaySound', WGrantsSound',
         lenient => wOp[p].op \notin {"discard", "shutdown"},
         WOpMayWork(p)', WOpPublishes(p)'
  PROVE  WorkspaceInv'
<1>1. WTyped /\ wLock["setup"] = p /\ wOp[p].op # "none"
  BY WHolder
<1>2. /\ wOp' \in [WWorkers -> WOpRows] /\ WOthersKept(p)
      /\ wOp'[p].stage = (IF notify THEN "notify" ELSE "write")
      /\ wOp'[p].op = wOp[p].op /\ wOp'[p].lenient = lenient
  BY <1>1, WPublishesTo
<1>0. WOpNamed(p)'
  BY <1>1, <1>2 DEF WOpNamed
<1>3. WOpRests(p)'
  BY <1>2 DEF WOpRests
<1>4. WOpSound(p)'
  BY <1>0, <1>1, <1>3 DEF WOpSound
<1> QED
  BY <1>2, <1>4, WUnderStep

\* p goes to a stage at which it publishes nothing, and touches nothing but the relay and the world.
LEMMA WGoesOnStep ==
  ASSUME WorkspaceInv, NEW p \in WWorkers, wOp[p].stage \in WUnder,
         NEW s \in WUnder, WGoes(p, s), WTyped', wLock'["setup"] = wLock["setup"],
         WRelaySound', WGrantsSound', WOpMayWork(p)', WOpPublishes(p)', WOpRests(p)'
  PROVE  WorkspaceInv'
<1>1. WTyped /\ wLock["setup"] = p /\ wOp[p].op # "none" /\ WOpNamed(p)
  BY WHolder
<1>2. WOthersKept(p) /\ wOp'[p].stage = s /\ WKeeps(p)
  BY <1>1, WGoesTo DEF WStageSet
<1>3. WOpNamed(p)'
  BY <1>1, <1>2 DEF WOpNamed, WKeeps
<1>4. WOpSound(p)'
  BY <1>1, <1>3 DEF WOpSound
<1> QED
  BY <1>2, <1>4, WUnderStep

-----------------------------------------------------------------------------
\* The operations begin.
LEMMA WBeginStep ==
  ASSUME WorkspaceInv, NEW p \in WWorkers, wOp[p].stage \notin WUnder,
         NEW o \in WOpRows, o.stage \notin WUnder, o.op = "none" => o.stage = "none", o.lenient = FALSE, wOp' = [wOp EXCEPT ![p] = o],
         UNCHANGED <<wRec, runtimeVars, wGrants, worldVars, wLock>>
  PROVE  WorkspaceInv'
<1>1. WTyped
  BY DEF WorkspaceInv
<1>2. wOp' \in [WWorkers -> WOpRows] /\ wOp'[p] = o /\ WOthersKept(p)
  BY <1>1 DEF WTyped, WOthersKept
<1>3. WTyped'
  BY <1>1, <1>2 DEF WTyped
<1>4. WOpSound(p)'
  BY <1>2 DEF WOpSound, WOpNamed
<1> QED
  BY <1>2, <1>3, <1>4, WOutsideStep


LEMMA WSelectRootStep ==
  ASSUME WorkspaceInv, NEW p \in WWorkers, WSelectRoot(p)
  PROVE  WorkspaceInv'
<1>1. WTyped /\ wOp[p].stage = "project" /\ wOp[p] \in WOpRows
  BY DEF WorkspaceInv, WSelectRoot, WIs, WTyped
<1> DEFINE o == [wOp[p] EXCEPT !.stage = "lock", !.pick = wHead]
<1>2. o \in WOpRows /\ o.stage = "lock" /\ o.op = wOp[p].op /\ o.lenient = wOp[p].lenient
  BY <1>1 DEF WOpRows, WTyped, WStageSet
<1>3. wOp' = [wOp EXCEPT ![p] = o]
  BY <1>1 DEF WSelectRoot, WTyped
<1> HIDE DEF o
<1>4. wOp' \in [WWorkers -> WOpRows] /\ wOp'[p] = o /\ WOthersKept(p)
  BY <1>1, <1>2, <1>3 DEF WTyped, WOthersKept
<1>5. /\ wLock' \in [WLocks -> WWorkers \cup {WNobody, "request"}]
      /\ wLock'["authority"] = wLock["authority"] /\ wLock'["setup"] = wLock["setup"]
  BY <1>1 DEF WTyped, WSelectRoot, WLocks
<1>6. WTyped'
  BY <1>1, <1>4, <1>5 DEF WTyped, WSelectRoot
<1>7. WOpSound(p)'
  <2>1. WOpNamed(p)
    BY DEF WorkspaceInv, WOpSound
  <2> QED
    BY <1>1, <1>2, <1>4, <2>1 DEF WOpSound, WUnder, WOpNamed
<1>8. wOp[p].stage \notin WUnder
  BY <1>1 DEF WUnder
<1> QED
  BY <1>4, <1>5, <1>6, <1>7, <1>8, WOutsideStep DEF WSelectRoot

LEMMA WSetupLockStep ==
  ASSUME WorkspaceInv, NEW p \in WWorkers, WSetupLock(p)
  PROVE  WorkspaceInv'
<1>1. /\ WTyped /\ wOp[p].stage = "lock" /\ wOp[p] \in WOpRows /\ wLock["setup"] = WNobody
      /\ UNCHANGED <<wRec, runtimeVars, wGrants, worldVars>>
  BY DEF WorkspaceInv, WSetupLock, WIs, WTyped
<1>2. wOp[p].stage \notin WUnder
  BY <1>1 DEF WUnder
<1>3. CASE WEnds(p, FALSE)
  <2>1. /\ wOp' \in [WWorkers -> WOpRows] /\ WOthersKept(p) /\ WOpSound(p)'
        /\ wLock' \in [WLocks -> WWorkers \cup {WNobody, "request"}]
        /\ \A l \in WLocks : wLock[l] # p => wLock'[l] = wLock[l]
    BY <1>1, <1>3, WEndsTo
  <2>2. WTyped'
    BY <1>1, <2>1 DEF WTyped
  <2>3. WRelaySound'
    BY <1>1 DEF WorkspaceInv, WRelaySound
  <2>4. wReq.stage = "serving" => wLock'["authority"] = wLock["authority"]
    BY <2>1 DEF WorkspaceInv, WGrantsSound, WLocks, WWorkers
  <2>5. WGrantsSound'
    BY <1>1, <2>4, WQuiet
  <2>6. ASSUME NEW q \in WWorkers
        PROVE  WOpSound(q)'
    <3>1. wOp[q].stage \notin WUnder
      BY <1>1 DEF WorkspaceInv, WOpSound, WWorkers, WNobody
    <3>2. CASE q = p
      BY <2>1, <3>2
    <3>3. CASE q # p
      <4>1. wOp'[q] = wOp[q] /\ WOpNamed(q)
        BY <2>1, <3>3 DEF WOthersKept, WorkspaceInv, WOpSound
      <4> QED
        BY <3>1, <4>1 DEF WOpSound, WOpNamed
    <3> QED
      BY <3>2, <3>3
  <2> QED
    BY <2>2, <2>3, <2>5, <2>6 DEF WorkspaceInv
<1>4. CASE ~WEnds(p, FALSE)
  <2>1. /\ wOp[p].op \notin {"create", "discard", "show", "shutdown"} => WActive(wRec)
        /\ wOp[p].op \in {"discard", "show", "shutdown"} => wRec.phase # "none"
        /\ wOp[p].op = "create" => wRec.phase # "discarding"
        /\ wLock' = [wLock EXCEPT !["setup"] = p] /\ WGoes(p, "enter")
    BY <1>4 DEF WSetupLock
  <2>2. /\ wOp' \in [WWorkers -> WOpRows] /\ WOthersKept(p) /\ wOp'[p].stage = "enter" /\ WKeeps(p)
    <3>1. "enter" \in WStageSet
      BY DEF WStageSet, WUnder
    <3> QED
      BY <1>1, <2>1, <3>1, WGoesTo
  <2>3. /\ wLock' \in [WLocks -> WWorkers \cup {WNobody, "request"}]
        /\ wLock'["authority"] = wLock["authority"] /\ wLock'["setup"] = p
    BY <1>1, <2>1 DEF WTyped, WLocks
  <2>4. WTyped'
    BY <1>1, <2>2, <2>3 DEF WTyped
  <2>5. WOpMayWork(p)'
    <3>1. (wRec.phase = "none" => wOp[p].op = "create")
      BY <2>1 DEF WActive
    <3>2. (wRec.phase = "discarding" => wOp[p].op \in {"discard", "show", "shutdown"})
      BY <2>1 DEF WActive
    <3> QED
      BY <1>1, <2>2, <3>1, <3>2 DEF WOpMayWork, WKeeps
  <2>6. WOpPublishes(p)' /\ WOpRests(p)'
    BY <2>2 DEF WOpPublishes, WOpRests
  <2>7. WOpSound(p)'
    <3>1. WOpNamed(p)
      BY DEF WorkspaceInv, WOpSound
    <3>2. WOpNamed(p)'
      BY <1>1, <2>2, <3>1 DEF WOpNamed, WKeeps
    <3> QED
      BY <2>3, <2>5, <2>6, <3>2 DEF WOpSound
  <2> QED
    BY <1>1, <1>2, <2>2, <2>3, <2>4, <2>7, WOutsideStep
<1> QED
  BY <1>3, <1>4

-----------------------------------------------------------------------------
\* What each operation does first under the setup lock.

LEMMA WCreateStep ==
  ASSUME WorkspaceInv, NEW p \in WWorkers, WCreate(p)
  PROVE  WorkspaceInv'
<1>1. wOp[p].stage = "enter" /\ wOp[p].stage \in WUnder /\ wOp[p].op = "create" /\ WGoes(p, "reconcile")
  BY DEF WCreate, WIs, WUnder
<1>2. WTyped /\ WOpMayWork(p) /\ wRec \in WRecordSet
  BY <1>1, WHolder
<1>3. /\ wOp' \in [WWorkers -> WOpRows] /\ WKeeps(p) /\ wOp'[p].stage = "reconcile"
  BY <1>1, <1>2, WGoesTo DEF WStageSet, WUnder
<1>4. wRec.phase # "discarding"
  BY <1>1, <1>2 DEF WOpMayWork
<1>5. CASE wRec.phase # "none"
  <2>1. UNCHANGED <<wRec, wIds, runtimeVars, wGrants, wHead, wReq, wBlind, wLock>>
    BY <1>5 DEF WCreate, WGoesOn
  <2>2. WTyped'
    BY <1>2, <1>3, <2>1 DEF WTyped
  <2>3. WRelaySound' /\ WGrantsSound'
    BY <2>1, WQuiet
  <2>4. WOpMayWork(p)' /\ WOpPublishes(p)' /\ WOpRests(p)'
    BY <1>1, <1>3, <1>4, <1>5, <2>1 DEF WOpMayWork, WOpPublishes, WOpRests, WKeeps
  <2> QED
    BY <1>1, <2>1, <2>2, <2>3, <2>4, WGoesOnStep DEF WUnder
<1>6. CASE wRec.phase = "none"
  <2>1. /\ wIds' = wIds + 1
        /\ wRec' = [phase |-> "creating", id |-> wIds + 1, root |-> wOp[p].pick]
        /\ UNCHANGED <<runtimeVars, wGrants, wHead, wReq, wBlind, wLock>>
    BY <1>6 DEF WCreate, WGoesOn
  <2>2. wRec' \in WRecordSet /\ wRec'.phase = "creating" /\ wIds' \in Nat
    <3>1. wOp[p].pick \in Nat /\ wIds \in Nat
      BY <1>2 DEF WTyped, WOpRows
    <3> QED
      BY <2>1, <3>1 DEF WRecordSet, WPhases
  <2>3. WTyped'
    BY <1>2, <1>3, <2>1, <2>2 DEF WTyped
  <2>4. WRelaySound'
    BY <1>6, <2>1, <2>2 DEF WorkspaceInv, WRelaySound
  <2>5. WGrantsSound'
    BY <1>6, <2>1, <2>2 DEF WorkspaceInv, WGrantsSound, GrantsAreCurrent
  <2>6. WOpMayWork(p)' /\ WOpPublishes(p)' /\ WOpRests(p)'
    BY <1>1, <1>3, <2>2 DEF WOpMayWork, WOpPublishes, WOpRests, WKeeps
  <2> QED
    BY <1>1, <2>1, <2>3, <2>4, <2>5, <2>6, WGoesOnStep DEF WUnder
<1> QED
  BY <1>5, <1>6

LEMMA WSetupBeginsStep ==
  ASSUME WorkspaceInv, NEW p \in WWorkers, WSetupBegins(p)
  PROVE  WorkspaceInv'
<1> DEFINE r == WWith("setting-up")
           n == wRec.phase = "ready" /\ WRunning
<1>1. /\ wOp[p].stage \in WUnder /\ wOp[p].op = "setup" /\ WPublishes(p, r, n, "reconcile", TRUE)
      /\ UNCHANGED <<wRec, runtimeVars, wGrants, worldVars, wLock>>
  BY DEF WSetupBegins, WIs, WUnder, WGoesOn
<1>2. WTyped /\ WOpMayWork(p)
  BY <1>1, WHolder
<1>3. r \in WRecordSet /\ r.phase = "setting-up" /\ r.id = wRec.id
  BY <1>2, WRecords DEF WPhases
<1>4. "reconcile" \in WThens
  BY DEF WThens
<1>5. n \in BOOLEAN /\ (n = FALSE => wRelay # "ready")
  BY <1>1, <1>2 DEF WorkspaceInv, WRelaySound, WRunning, WOpMayWork
<1> HIDE DEF r, n
<1>6. /\ wOp' \in [WWorkers -> WOpRows] /\ wOp'[p].stage = (IF n THEN "notify" ELSE "write")
      /\ wOp'[p].op = "setup" /\ wOp'[p].next = r /\ wOp'[p].then = "reconcile"
  <2>1. CASE n = TRUE
    <3>1. WPublishes(p, r, TRUE, "reconcile", TRUE)
      BY <1>1, <1>2, <1>3, <1>4, <1>5, <2>1
    <3> QED
      BY <1>1, <1>2, <1>3, <1>4, <1>5, <2>1, <3>1, WPublishesTo
  <2>2. CASE n = FALSE
    <3>1. WPublishes(p, r, FALSE, "reconcile", TRUE)
      BY <1>1, <1>2, <1>3, <1>4, <1>5, <2>2
    <3> QED
      BY <1>1, <1>2, <1>3, <1>4, <1>5, <2>2, <3>1, WPublishesTo
  <2> QED
    BY <1>1, <1>2, <1>3, <1>4, <1>5, <2>1, <2>2
<1>7. WTyped' /\ WRelaySound' /\ WGrantsSound'
  BY <1>1, <1>2, <1>6, WQuiet DEF WTyped
<1>8. wRec.phase \notin {"none", "discarding"}
  BY <1>1, <1>2 DEF WOpMayWork
<1>9. WOpMayWork(p)'
  BY <1>1, <1>6, <1>8 DEF WOpMayWork
<1>10. WOpPublishes(p)'
  BY <1>1, <1>3, <1>5, <1>6, <1>8 DEF WOpPublishes
<1> QED
  BY <1>1, <1>3, <1>4, <1>5, <1>7, <1>9, <1>10, WPublishQuiet

LEMMA WUpdateBeginsStep ==
  ASSUME WorkspaceInv, NEW p \in WWorkers, WUpdateBegins(p)
  PROVE  WorkspaceInv'
<1> DEFINE r == [WWith("setting-up") EXCEPT !.root = wOp[p].pick]
<1>1. /\ wOp[p].stage \in WUnder /\ wOp[p].op = "update"
      /\ UNCHANGED <<wRec, runtimeVars, wGrants, worldVars>>
  BY DEF WUpdateBegins, WIs, WUnder
<1>2. WTyped /\ WOpMayWork(p) /\ wOp[p] \in WOpRows /\ wRec \in WRecordSet
  BY <1>1, WHolder
<1>3. CASE WPublishes(p, r, TRUE, "reconcile", FALSE) /\ WGoesOn
  <2>1. r \in WRecordSet /\ r.phase = "setting-up" /\ r.id = wRec.id
    BY <1>2 DEF WRecordSet, WWith, WPhases, WOpRows
  <2>2. "reconcile" \in WThens
    BY DEF WThens
  <2> HIDE DEF r
  <2>3. /\ wOp' \in [WWorkers -> WOpRows] /\ wOp'[p].stage = "notify"
        /\ wOp'[p].op = "update" /\ wOp'[p].next = r /\ wOp'[p].then = "reconcile"
    BY <1>1, <1>2, <1>3, <2>1, <2>2, WPublishesTo
  <2>4. WTyped' /\ WRelaySound' /\ WGrantsSound' /\ wLock' = wLock
    BY <1>1, <1>2, <1>3, <2>3, WQuiet DEF WTyped, WGoesOn
  <2>5. wRec.phase \notin {"none", "discarding"}
    BY <1>1, <1>2 DEF WOpMayWork
  <2>6. WOpMayWork(p)'
    BY <1>1, <2>3, <2>5 DEF WOpMayWork
  <2>7. WOpPublishes(p)'
    BY <1>1, <2>1, <2>3, <2>5 DEF WOpPublishes
  <2> QED
    BY <1>1, <1>3, <2>1, <2>2, <2>4, <2>6, <2>7, WPublishQuiet
<1>4. CASE WEnds(p, FALSE)
  BY <1>1, <1>2, <1>4, WEndsSound DEF WorkspaceInv, WTyped, WRelaySound, WGrantsSound, GrantsAreCurrent
<1> QED
  BY <1>3, <1>4 DEF WUpdateBegins

LEMMA WStopBeginsStep ==
  ASSUME WorkspaceInv, NEW p \in WWorkers, WStopBegins(p)
  PROVE  WorkspaceInv'
<1> DEFINE r == IF wRec.phase = "discarding" THEN wRec ELSE WWith("stopped")
           s == IF WRunning THEN "notify" ELSE "halt"
           o == [wOp[p] EXCEPT !.stage = s, !.then = "end", !.next = r]
<1>1. /\ wOp[p].stage = "enter" /\ wOp[p].stage \in WUnder /\ wOp[p].op \in {"stop", "shutdown"}
      /\ UNCHANGED <<wRec, runtimeVars, wGrants, worldVars, wLock>>
  BY DEF WStopBegins, WIs, WUnder, WGoesOn
<1>2. /\ WTyped /\ WOpMayWork(p) /\ wOp[p] \in WOpRows /\ wRec \in WRecordSet
      /\ WOpNamed(p) /\ wLock["setup"] = p /\ wOp[p].op # "none"
  BY <1>1, WHolder
<1>3. /\ r \in WRecordSet /\ r.id = wRec.id /\ r.phase \in {"stopped", "discarding"}
      /\ wRec.phase = "discarding" => r = wRec
      /\ r.phase = "discarding" => wRec.phase = "discarding"
  BY <1>2, WRecords DEF WPhases
<1>4. s \in {"notify", "halt"} /\ s \in WStageSet
  BY DEF WStageSet, WUnder
<1>5. wOp' = [wOp EXCEPT ![p] = o]
  BY <1>2 DEF WStopBegins, WTyped
<1> HIDE DEF r, s
<1>6. /\ o \in WOpRows /\ o.stage = s /\ o.op = wOp[p].op /\ o.next = r /\ o.then = "end"
      /\ o.lenient = wOp[p].lenient
  BY <1>2, <1>3, <1>4 DEF WOpRows, WThens
<1> HIDE DEF o
<1>7. wOp' \in [WWorkers -> WOpRows] /\ wOp'[p] = o /\ WOthersKept(p)
  BY <1>2, <1>5, <1>6 DEF WTyped, WOthersKept
<1>8. WTyped' /\ WRelaySound' /\ WGrantsSound'
  BY <1>1, <1>2, <1>7, WQuiet DEF WTyped
<1>9. wRec.phase # "none" /\ (wOp[p].op = "stop" => wRec.phase # "discarding")
  BY <1>1, <1>2 DEF WOpMayWork
<1>10. WOpMayWork(p)'
  BY <1>1, <1>2, <1>4, <1>6, <1>7, <1>9 DEF WOpMayWork
<1>11. WOpPublishes(p)'
  BY <1>1, <1>3, <1>4, <1>6, <1>7, <1>9 DEF WOpPublishes
<1>12. WOpRests(p)' /\ WOpNamed(p)'
  BY <1>2, <1>4, <1>6, <1>7 DEF WOpRests, WOpNamed
<1>13. WOpSound(p)'
  BY <1>1, <1>2, <1>10, <1>11, <1>12 DEF WOpSound
<1> QED
  BY <1>1, <1>7, <1>8, <1>13, WUnderStep

LEMMA WInspectStep ==
  ASSUME WorkspaceInv, NEW p \in WWorkers, WInspect(p)
  PROVE  WorkspaceInv'
<1>1. /\ wOp[p].stage \in WUnder /\ wOp[p].op \in {"show", "start", "restart", "hoststart"}
      /\ UNCHANGED <<wRec, runtimeVars, wGrants, worldVars, wLock>>
  BY DEF WInspect, WIs, WUnder, WGoesOn
<1>2. WTyped /\ WOpMayWork(p) /\ wRec \in WRecordSet
  BY <1>1, WHolder
<1>3. /\ wRec.phase # "none" /\ (wRec.phase = "discarding" => wOp[p].op = "show")
  BY <1>1, <1>2 DEF WOpMayWork
<1>4. CASE wRec.phase = "stopped" /\ WPublishes(p, wRec, TRUE, "inspect", FALSE)
  <2>1. "inspect" \in WThens
    BY DEF WThens
  <2>2. /\ wOp' \in [WWorkers -> WOpRows] /\ wOp'[p].stage = "notify"
        /\ wOp'[p].op = wOp[p].op /\ wOp'[p].next = wRec /\ wOp'[p].then = "inspect"
    BY <1>1, <1>2, <1>4, <2>1, WPublishesTo
  <2>3. WTyped' /\ WRelaySound' /\ WGrantsSound'
    BY <1>1, <1>2, <2>2, WQuiet DEF WTyped
  <2>4. WOpMayWork(p)'
    BY <1>1, <1>4, <2>2 DEF WOpMayWork
  <2>5. WOpPublishes(p)'
    BY <1>1, <1>4, <2>2 DEF WOpPublishes
  <2> QED
    BY <1>1, <1>2, <1>4, <2>1, <2>3, <2>4, <2>5, WPublishQuiet
<1>5. CASE WGoes(p, "inspect")
  <2>1. wOp' \in [WWorkers -> WOpRows] /\ WKeeps(p) /\ wOp'[p].stage = "inspect"
    BY <1>2, <1>5, WGoesTo DEF WStageSet, WUnder
  <2>2. WTyped' /\ WRelaySound' /\ WGrantsSound'
    BY <1>1, <1>2, <2>1, WQuiet DEF WTyped
  <2>3. WOpMayWork(p)' /\ WOpPublishes(p)' /\ WOpRests(p)'
    BY <1>1, <1>3, <2>1 DEF WOpMayWork, WOpPublishes, WOpRests, WKeeps
  <2> QED
    BY <1>1, <1>5, <2>2, <2>3, WGoesOnStep DEF WUnder
<1> QED
  BY <1>4, <1>5 DEF WInspect

LEMMA WReconcileRuntimeStep ==
  ASSUME WorkspaceInv, NEW p \in WWorkers, WReconcileRuntime(p)
  PROVE  WorkspaceInv'
<1> DEFINE found == WFound(wRec, wBox, wAgent')
<1>1. /\ wOp[p].stage = "inspect" /\ wOp[p].stage \in WUnder
      /\ UNCHANGED <<wRec, wBox, wRelay, wSetup, wGrants, worldVars, wLock>>
  BY DEF WReconcileRuntime, WIs, WUnder, WGoesOn
<1>2. WTyped /\ WOpMayWork(p) /\ wRec \in WRecordSet
  BY <1>1, WHolder
<1>3. wRec.phase # "none" /\ wOp[p].op \notin {"discard", "shutdown"}
  BY <1>1, <1>2 DEF WOpMayWork
<1>4. wRec.phase = "discarding" => found = wRec.phase
  BY DEF WFound
<1>5. found \in WPhases \ {"none"} /\ (found = "discarding" => wRec.phase = "discarding")
  BY <1>2, <1>3 DEF WFound, WPhases, WRecordSet
<1>6. found = "ready" => wRec.phase = "ready"
  BY DEF WFound
<1>7. WRelaySound' /\ WGrantsSound'
  BY <1>1 DEF WorkspaceInv, WRelaySound, WGrantsSound, GrantsAreCurrent
<1>8. "decide" \in WThens /\ WRunning \in BOOLEAN /\ "decide" \in WUnder
  BY DEF WThens, WRunning, WUnder
<1>14. (found = "ready" /\ WPublishes(p, wRec, TRUE, "decide", FALSE))
       \/ (found = wRec.phase /\ WGoes(p, "decide"))
       \/ (found # wRec.phase /\ found # "ready" /\ WPublishes(p, WWith(found), WRunning, "decide", TRUE))
  BY DEF WReconcileRuntime
<1> HIDE DEF found
<1>9. CASE found = "ready" /\ WPublishes(p, wRec, TRUE, "decide", FALSE)
  <2>1. /\ wOp' \in [WWorkers -> WOpRows] /\ wOp'[p].stage = "notify"
        /\ wOp'[p].op = wOp[p].op /\ wOp'[p].next = wRec /\ wOp'[p].then = "decide"
    BY <1>2, <1>8, <1>9, WPublishesTo
  <2>2. WTyped'
    BY <1>1, <1>2, <2>1 DEF WTyped
  <2>3. WOpMayWork(p)'
    BY <1>1, <1>2, <1>3, <1>6, <1>9, <2>1 DEF WOpMayWork
  <2>4. WOpPublishes(p)'
    BY <1>1, <1>3, <1>6, <1>9, <2>1 DEF WOpPublishes
  <2> QED
    BY <1>1, <1>2, <1>7, <1>8, <1>9, <2>2, <2>3, <2>4, WPublishQuiet
<1>10. CASE found = wRec.phase /\ WGoes(p, "decide")
  <2>1. wOp' \in [WWorkers -> WOpRows] /\ WKeeps(p) /\ wOp'[p].stage = "decide"
    BY <1>2, <1>8, <1>10, WGoesTo DEF WStageSet
  <2>2. WTyped'
    BY <1>1, <1>2, <2>1 DEF WTyped
  <2>3. WOpMayWork(p)' /\ WOpPublishes(p)' /\ WOpRests(p)'
    BY <1>1, <1>2, <1>3, <2>1 DEF WOpMayWork, WOpPublishes, WOpRests, WKeeps
  <2> QED
    BY <1>1, <1>7, <1>8, <1>10, <2>2, <2>3, WGoesOnStep
<1>11. CASE found # wRec.phase /\ found # "ready" /\ WPublishes(p, WWith(found), WRunning, "decide", TRUE)
  <2> DEFINE r == WWith(found)
             n == WRunning
  <2>1. r \in WRecordSet /\ r.phase = found /\ r.id = wRec.id
    BY <1>2, <1>5, WRecords
  <2>2. n \in BOOLEAN /\ (n = FALSE => wRelay # "ready") /\ WPublishes(p, r, n, "decide", TRUE)
    BY <1>8, <1>11 DEF WorkspaceInv, WRelaySound, WRunning
  <2> HIDE DEF r, n
  <2>3. /\ wOp' \in [WWorkers -> WOpRows] /\ wOp'[p].stage = (IF n THEN "notify" ELSE "write")
        /\ wOp'[p].op = wOp[p].op /\ wOp'[p].next = r /\ wOp'[p].then = "decide"
    <3>1. CASE n = TRUE
      <4>1. WPublishes(p, r, TRUE, "decide", TRUE)
        BY <1>2, <1>8, <2>1, <2>2, <3>1
      <4> QED
        BY <1>2, <1>8, <2>1, <2>2, <3>1, <4>1, WPublishesTo
    <3>2. CASE n = FALSE
      <4>1. WPublishes(p, r, FALSE, "decide", TRUE)
        BY <1>2, <1>8, <2>1, <2>2, <3>2
      <4> QED
        BY <1>2, <1>8, <2>1, <2>2, <3>2, <4>1, WPublishesTo
    <3> QED
      BY <1>2, <1>8, <2>1, <2>2, <3>1, <3>2
  <2>4. WTyped'
    BY <1>1, <1>2, <2>3 DEF WTyped
  <2>5. WOpMayWork(p)'
    BY <1>1, <1>2, <1>3, <1>4, <1>11, <2>3 DEF WOpMayWork
  <2>6. WOpPublishes(p)'
    BY <1>1, <1>3, <1>4, <1>5, <1>11, <2>1, <2>2, <2>3 DEF WOpPublishes
  <2> QED
    BY <1>1, <1>3, <1>7, <1>8, <2>1, <2>2, <2>4, <2>5, <2>6, WPublishQuiet
<1> QED
  BY <1>9, <1>10, <1>11, <1>14

LEMMA WDecideStep ==
  ASSUME WorkspaceInv, NEW p \in WWorkers, WDecide(p)
  PROVE  WorkspaceInv'
<1>1. /\ wOp[p].stage = "decide" /\ wOp[p].stage \in WUnder
      /\ UNCHANGED <<wRec, runtimeVars, wGrants, worldVars>>
  BY DEF WDecide, WIs, WUnder
<1>2. /\ WTyped /\ WOpMayWork(p) /\ wRec \in WRecordSet /\ wOp[p] \in WOpRows
      /\ wLock["setup"] = p /\ WOpNamed(p)
  BY <1>1, WHolder
<1>3. wRec.phase # "none" /\ wOp[p].op \notin {"discard", "shutdown"}
  BY <1>1, <1>2 DEF WOpMayWork
<1>4. ASSUME NEW ok, WEnds(p, ok)
      PROVE  WorkspaceInv'
  BY <1>1, <1>2, <1>4, WEndsSound DEF WorkspaceInv, WTyped, WRelaySound, WGrantsSound, GrantsAreCurrent
<1>5. CASE WMayGoOn(wOp[p].op)
  <2>1. wOp[p].op \in {"start", "hoststart", "restart"} /\ wRec.phase # "discarding"
    BY <1>2, <1>5 DEF WMayGoOn, WOpMayWork
  <2>2. wOp[p].op # "restart" => wRec.phase # "ready"
    BY <1>5, <2>1 DEF WMayGoOn
  <2>3. wLock' = wLock /\ WTyped
    BY <1>2, <1>5 DEF WDecide, WGoesOn
  <2>4. WRelaySound' /\ WGrantsSound'
    BY <1>1, <2>3, WQuiet
  <2>5. CASE wOp[p].op = "restart" /\ wRec.phase # "stopped"
    <3> DEFINE r == WWith("stopped")
               o == [wOp[p] EXCEPT !.stage = "notify", !.next = r, !.then = "select", !.lenient = FALSE]
    <3>1. r \in WRecordSet /\ r.phase = "stopped" /\ r.id = wRec.id
      BY <1>2, WRecords DEF WPhases
    <3>2. wOp' = [wOp EXCEPT ![p] = o]
      BY <1>2, <1>5, <2>5 DEF WDecide, WTyped
    <3>9. "notify" \in WStageSet /\ "select" \in WThens
      BY DEF WThens, WStageSet, WUnder
    <3> HIDE DEF r
    <3>3. /\ o \in WOpRows /\ o.stage = "notify" /\ o.op = wOp[p].op /\ o.next = r /\ o.then = "select"
          /\ o.lenient = FALSE
      BY <1>2, <3>1, <3>9 DEF WOpRows
    <3> HIDE DEF o
    <3>4. wOp' \in [WWorkers -> WOpRows] /\ wOp'[p] = o /\ WOthersKept(p)
      BY <1>2, <3>2, <3>3 DEF WTyped, WOthersKept
    <3>5. WTyped'
      BY <1>1, <1>2, <2>3, <3>4 DEF WTyped
    <3>6. WOpMayWork(p)' /\ WOpRests(p)' /\ WOpNamed(p)'
      BY <1>1, <1>3, <2>1, <3>3, <3>4 DEF WOpMayWork, WOpRests, WOpNamed
    <3>7. WOpPublishes(p)'
      BY <1>1, <1>3, <2>1, <3>1, <3>3, <3>4 DEF WOpPublishes
    <3>8. WOpSound(p)'
      BY <1>2, <2>3, <3>6, <3>7 DEF WOpSound
    <3> QED
      BY <1>1, <2>4, <3>4, <3>5, <3>8, WUnderStep
  <2>6. CASE ~(wOp[p].op = "restart" /\ wRec.phase # "stopped")
    <3>1. WGoes(p, "select")
      BY <1>5, <2>6 DEF WDecide
    <3>2. wOp' \in [WWorkers -> WOpRows] /\ WKeeps(p) /\ wOp'[p].stage = "select"
      BY <1>2, <3>1, WGoesTo DEF WStageSet, WUnder
    <3>3. WTyped'
      BY <1>1, <1>2, <2>3, <3>2 DEF WTyped
    <3>4. wRec.phase # "ready"
      BY <2>2, <2>6
    <3>5. WOpMayWork(p)' /\ WOpPublishes(p)' /\ WOpRests(p)'
      BY <1>1, <1>3, <2>1, <3>2, <3>4 DEF WOpMayWork, WOpPublishes, WOpRests, WKeeps
    <3> QED
      BY <1>1, <2>3, <2>4, <3>1, <3>3, <3>5, WGoesOnStep DEF WUnder
  <2> QED
    BY <2>5, <2>6
<1>6. CASE ~WMayGoOn(wOp[p].op)
  <2>1. WEnds(p, wOp[p].op = "show" \/ wRec.phase = "ready")
    BY <1>6 DEF WDecide
  <2> QED
    BY <1>4, <2>1
<1> QED
  BY <1>5, <1>6

LEMMA WApplySelectionStep ==
  ASSUME WorkspaceInv, NEW p \in WWorkers, WApplySelection(p)
  PROVE  WorkspaceInv'
<1> DEFINE r == [wRec EXCEPT !.root = wOp[p].pick]
<1>1. /\ wOp[p].stage = "select" /\ wOp[p].stage \in WUnder
      /\ WPublishes(p, r, FALSE, "reconcile", FALSE)
      /\ UNCHANGED <<wRec, runtimeVars, wGrants, worldVars, wLock>>
  BY DEF WApplySelection, WIs, WUnder, WGoesOn
<1>2. /\ WTyped /\ WOpMayWork(p) /\ WOpRests(p) /\ wOp[p] \in WOpRows
  BY <1>1, WHolder
<1>3. r \in WRecordSet /\ r.phase = wRec.phase /\ r.id = wRec.id
  BY <1>2, WRecords DEF WOpRows
<1>4. "reconcile" \in WThens
  BY DEF WThens
<1> HIDE DEF r
<1>5. /\ wOp' \in [WWorkers -> WOpRows] /\ wOp'[p].stage = "write"
      /\ wOp'[p].op = wOp[p].op /\ wOp'[p].next = r /\ wOp'[p].then = "reconcile"
  <2>1. WPublishes(p, r, FALSE, "reconcile", FALSE)
    BY <1>1
  <2>2. /\ wOp' \in [WWorkers -> WOpRows] /\ wOp'[p].op = wOp[p].op /\ wOp'[p].next = r
        /\ wOp'[p].then = "reconcile" /\ wOp'[p].stage = (IF FALSE THEN "notify" ELSE "write")
    BY <1>2, <1>3, <1>4, <2>1, WPublishesTo, Zenon
  <2> QED
    BY <2>2
<1>6. WTyped' /\ WRelaySound' /\ WGrantsSound'
  BY <1>1, <1>2, <1>5, WQuiet DEF WTyped
<1>7. /\ wRec.phase \notin {"none", "discarding", "ready"} /\ wOp[p].op \notin {"discard", "shutdown", "show"}
  BY <1>1, <1>2 DEF WOpMayWork, WOpRests
<1>8. wRelay # "ready"
  BY <1>7 DEF WorkspaceInv, WRelaySound
<1>9. WOpMayWork(p)'
  BY <1>1, <1>5, <1>7 DEF WOpMayWork
<1>10. WOpPublishes(p)'
  BY <1>1, <1>3, <1>5, <1>7, <1>8 DEF WOpPublishes
<1> QED
  BY <1>1, <1>3, <1>4, <1>6, <1>9, <1>10, WPublishQuiet

-----------------------------------------------------------------------------
\* Publication.

LEMMA WNotifyStep ==
  ASSUME WorkspaceInv, NEW p \in WWorkers, WNotify(p)
  PROVE  WorkspaceInv'
<1> DEFINE s == IF WHalts(p) THEN "halt" ELSE "write"
<1>1. /\ wOp[p].stage = "notify" /\ wOp[p].stage \in WUnder /\ wRelay # "down"
      /\ wRelay' = wOp[p].next.phase /\ WGoes(p, s)
      /\ UNCHANGED <<wRec, wBox, wAgent, wSetup, wGrants, worldVars, wLock>>
  BY DEF WNotify, WIs, WUnder, WGoesOn
<1>2. /\ WTyped /\ WOpMayWork(p) /\ WOpPublishes(p) /\ wOp[p] \in WOpRows
  BY <1>1, WHolder
<1>3. s \in {"halt", "write"} /\ s \in WStageSet /\ s \in WUnder
  BY DEF WStageSet, WUnder
<1>4. s = "halt" => wOp[p].next.phase # "ready" /\ wOp[p].op \notin {"discard", "show"}
  BY <1>1, <1>2 DEF WHalts, WOpPublishes
<1> HIDE DEF s
<1>5. wOp' \in [WWorkers -> WOpRows] /\ WKeeps(p) /\ wOp'[p].stage = s
  BY <1>1, <1>2, <1>3, WGoesTo
<1>6. WTyped'
  BY <1>1, <1>2, <1>5 DEF WTyped
<1>7. wOp[p].next.phase = "ready" => wOp[p].next = wRec
  BY <1>1, <1>2 DEF WOpPublishes
<1>8. WRelaySound'
  BY <1>1, <1>7 DEF WorkspaceInv, WRelaySound
<1>9. WGrantsSound'
  BY <1>1 DEF WorkspaceInv, WGrantsSound, GrantsAreCurrent
<1>10. WOpMayWork(p)'
  BY <1>1, <1>2, <1>3, <1>4, <1>5 DEF WOpMayWork, WKeeps
<1>11. WOpPublishes(p)'
  BY <1>1, <1>2, <1>3, <1>4, <1>5, <1>7 DEF WOpPublishes, WKeeps, WFits, WIsSetUp
<1>12. WOpRests(p)'
  BY <1>3, <1>5 DEF WOpRests
<1> QED
  BY <1>1, <1>3, <1>6, <1>8, <1>9, <1>10, <1>11, <1>12, WGoesOnStep

LEMMA WHaltStep ==
  ASSUME WorkspaceInv, NEW p \in WWorkers, WHalt(p)
  PROVE  WorkspaceInv'
<1>1. /\ wOp[p].stage = "halt" /\ wOp[p].stage \in WUnder
      /\ wRelay' = "down" /\ WGoes(p, "write") /\ wBox' = WStopped(wBox)
      /\ UNCHANGED <<wRec, wSetup, wGrants, worldVars, wLock>>
  BY DEF WHalt, WIs, WUnder, WGoesOn
<1>2. /\ WTyped /\ WOpMayWork(p) /\ WOpPublishes(p) /\ wOp[p] \in WOpRows
  BY <1>1, WHolder
<1>3. /\ wBox' \in [state : {"none", "stopped", "running"}, root : Nat]
      /\ wBox'.root = wBox.root /\ (wBox'.state # "none" => wBox.state # "none")
  BY <1>1, <1>2 DEF WTyped, WStopped
<1>4. wOp' \in [WWorkers -> WOpRows] /\ WKeeps(p) /\ wOp'[p].stage = "write"
  BY <1>1, <1>2, WGoesTo DEF WStageSet, WUnder
<1>5. WTyped'
  BY <1>1, <1>2, <1>3, <1>4 DEF WTyped
<1>6. WRelaySound'
  BY <1>1 DEF WRelaySound
<1>7. WGrantsSound'
  BY <1>1 DEF WorkspaceInv, WGrantsSound, GrantsAreCurrent
<1>8. WOpMayWork(p)'
  BY <1>1, <1>2, <1>4 DEF WOpMayWork, WKeeps
<1>9. WOpPublishes(p)'
  BY <1>1, <1>2, <1>3, <1>4 DEF WOpPublishes, WKeeps, WFits, WIsSetUp
<1>10. WOpRests(p)'
  BY <1>4 DEF WOpRests
<1> QED
  BY <1>1, <1>5, <1>6, <1>7, <1>8, <1>9, <1>10, WGoesOnStep DEF WUnder

LEMMA WHaltFailsStep ==
  ASSUME WorkspaceInv, NEW p \in WWorkers, WHaltFails(p)
  PROVE  WorkspaceInv'
<1>1. /\ wOp[p].stage \in WUnder /\ WEnds(p, FALSE)
      /\ UNCHANGED <<wRec, wBox, wRelay, wSetup, wGrants, worldVars>>
  BY DEF WHaltFails, WIs, WUnder
<1> QED
  BY <1>1, WEndsSound DEF WorkspaceInv, WTyped, WRelaySound, WGrantsSound, GrantsAreCurrent

LEMMA WNotifyFailsStep ==
  ASSUME WorkspaceInv, NEW p \in WWorkers, WNotifyFails(p)
  PROVE  WorkspaceInv'
<1>1. /\ wOp[p].stage = "notify" /\ wOp[p].stage \in WUnder
      /\ wRelay' = "down" /\ wBox' = WStopped(wBox)
      /\ UNCHANGED <<wRec, wSetup, wGrants, worldVars>>
  BY DEF WNotifyFails, WIs, WUnder
<1>2. /\ WTyped /\ WOpMayWork(p) /\ WOpPublishes(p) /\ wOp[p] \in WOpRows
      /\ wLock["setup"] = p /\ WOpNamed(p) /\ wOp[p].op # "none"
  BY <1>1, WHolder
<1>3. /\ wBox' \in [state : {"none", "stopped", "running"}, root : Nat]
      /\ wBox'.root = wBox.root /\ (wBox'.state # "none" => wBox.state # "none")
  BY <1>1, <1>2 DEF WTyped, WStopped
<1>4. WRelaySound'
  BY <1>1 DEF WRelaySound
<1>5. CASE wOp[p].lenient
  <2> DEFINE o == [wOp[p] EXCEPT !.stage = "write", !.then = "failed"]
  <2>1. wOp' = [wOp EXCEPT ![p] = o] /\ wLock' = wLock
    BY <1>2, <1>5 DEF WNotifyFails, WTyped, WGoesOn
  <2>10. "write" \in WStageSet /\ "failed" \in WThens
    BY DEF WThens, WStageSet, WUnder
  <2>2. /\ o \in WOpRows /\ o.stage = "write" /\ o.op = wOp[p].op /\ o.next = wOp[p].next /\ o.then = "failed"
        /\ o.lenient = wOp[p].lenient
    BY <1>2, <2>10 DEF WOpRows
  <2> HIDE DEF o
  <2>3. wOp' \in [WWorkers -> WOpRows] /\ wOp'[p] = o /\ WOthersKept(p)
    BY <1>2, <2>1, <2>2 DEF WTyped, WOthersKept
  <2>4. WTyped'
    BY <1>1, <1>2, <1>3, <2>1, <2>3 DEF WTyped
  <2>5. WGrantsSound'
    BY <1>1, <2>1 DEF WorkspaceInv, WGrantsSound, GrantsAreCurrent
  <2>6. wOp[p].op \notin {"discard", "shutdown"}
    BY <1>2, <1>5 DEF WOpNamed
  <2>7. WOpMayWork(p)' /\ WOpRests(p)' /\ WOpNamed(p)'
    BY <1>1, <1>2, <2>2, <2>3, <2>6 DEF WOpMayWork, WOpRests, WOpNamed
  <2>8. WOpPublishes(p)'
    BY <1>1, <1>2, <2>2, <2>3, <2>6 DEF WOpPublishes
  <2>9. WOpSound(p)'
    BY <1>2, <2>1, <2>7, <2>8 DEF WOpSound
  <2> QED
    BY <1>1, <1>4, <2>3, <2>4, <2>5, <2>9, WUnderStep
<1>6. CASE ~wOp[p].lenient
  <2>1. WEnds(p, FALSE)
    BY <1>6 DEF WNotifyFails
  <2> QED
    BY <1>1, <1>2, <1>3, <1>4, <2>1, WEndsSound DEF WorkspaceInv, WTyped, WGrantsSound, GrantsAreCurrent
<1> QED
  BY <1>5, <1>6

LEMMA WWriteStep ==
  ASSUME WorkspaceInv, NEW p \in WWorkers, WWrite(p)
  PROVE  WorkspaceInv'
<1>1. /\ wOp[p].stage = "write" /\ wOp[p].stage \in WUnder /\ wRec' = wOp[p].next
      /\ UNCHANGED <<wBox, wRelay, wSetup, wGrants, worldVars>>
  BY DEF WWrite, WIs, WUnder
<1>2. /\ WTyped /\ WOpMayWork(p) /\ WOpPublishes(p) /\ wOp[p] \in WOpRows
  BY <1>1, WHolder
<1>3. wRec' \in WRecordSet /\ wRec'.phase # "none" /\ wRec'.id = wRec.id
  BY <1>1, <1>2 DEF WOpPublishes, WOpRows
<1>4. WRelaySound'
  <2>1. wRelay = "ready" => wRec' = wRec
    BY <1>1, <1>2 DEF WOpPublishes
  <2>2. wRec'.phase = "ready" => wRec' = wRec \/ (WFits(wOp[p].next) /\ WIsSetUp(wOp[p].next))
    BY <1>1, <1>2 DEF WOpPublishes
  <2> QED
    BY <1>1, <2>1, <2>2 DEF WorkspaceInv, WRelaySound, WFits, WIsSetUp
<1>5. GrantsAreCurrent'
  <2>1. wReq.stage = "serving" => wRec'.phase # "discarding"
    <3>1. SUFFICES ASSUME wReq.stage = "serving", wRec'.phase = "discarding" PROVE FALSE
      OBVIOUS
    <3>2. wRec.phase # "discarding" /\ wLock["authority"] = "request"
      BY <3>1 DEF WorkspaceInv, WGrantsSound, GrantsAreCurrent
    <3>3. wOp[p].op = "discard"
      BY <1>1, <1>2, <3>1, <3>2 DEF WOpPublishes
    <3>4. wLock["authority"] = p
      BY <1>1, <1>2, <3>3 DEF WOpPublishes
    <3> QED
      BY <3>2, <3>4 DEF WWorkers
  <2> QED
    BY <1>1, <1>3, <2>1 DEF WorkspaceInv, WGrantsSound, GrantsAreCurrent
<1>6. CASE wOp[p].then \in {"end", "failed"}
  <2>1. WEnds(p, wOp[p].then = "end")
    BY <1>6 DEF WWrite
  <2> QED
    BY <1>1, <1>2, <1>3, <1>4, <1>5, <2>1, WEndsSound DEF WTyped
<1>7. CASE wOp[p].then \notin {"end", "failed"}
  <2>1. WGoes(p, wOp[p].then) /\ wLock' = wLock
    BY <1>7 DEF WWrite, WGoesOn
  <2>2. wOp[p].then \in {"reconcile", "inspect", "decide", "select", "agent", "announce", "revoke"}
    BY <1>1, <1>2, <1>7 DEF WOpPublishes, WOpRows, WThens
  <2>3. wOp[p].then \in WUnder /\ wOp[p].then \in WStageSet
    BY <2>2 DEF WUnder, WStageSet
  <2>4. wOp' \in [WWorkers -> WOpRows] /\ WKeeps(p) /\ wOp'[p].stage = wOp[p].then
    BY <1>2, <2>1, <2>3, WGoesTo
  <2>5. WTyped'
    BY <1>1, <1>2, <1>3, <2>1, <2>4 DEF WTyped
  <2>6. WGrantsSound'
    BY <1>1, <1>3, <1>5, <2>1 DEF WorkspaceInv, WGrantsSound
  <2>7. WOpMayWork(p)'
    BY <1>1, <1>2, <1>3, <2>2, <2>4 DEF WOpMayWork, WOpPublishes, WKeeps
  <2>8. WOpPublishes(p)'
    BY <2>2, <2>4 DEF WOpPublishes
  <2>9. WOpRests(p)'
    <3>1. wOp'[p].stage = "select" => wRec'.phase # "ready"
      BY <1>1, <1>2, <2>4 DEF WOpPublishes
    <3>2. wOp'[p].stage \in {"agent", "project-setup"} => wRec'.phase = "setting-up" /\ WFits(wRec)'
      BY <1>1, <1>2, <2>2, <2>4 DEF WOpPublishes, WFits
    <3>3. wOp'[p].stage = "announce" => wRec'.phase = "ready"
      BY <1>1, <1>2, <2>4 DEF WOpPublishes
    <3>4. /\ wOp'[p].stage \notin {"teardown", "remove"}
          /\ wOp'[p].stage = "revoke" => wOp'[p].op = "discard" /\ wRec'.phase = "discarding" /\ wLock'["authority"] = p
      BY <1>1, <1>2, <2>1, <2>2, <2>4 DEF WOpPublishes, WKeeps
    <3> QED
      BY <3>1, <3>2, <3>3, <3>4 DEF WOpRests
  <2> QED
    BY <1>1, <1>4, <2>1, <2>3, <2>5, <2>6, <2>7, <2>8, <2>9, WGoesOnStep
<1> QED
  BY <1>6, <1>7

-----------------------------------------------------------------------------
\* Reconciliation and setup.

\* After the step, the container fits this record, and is set up for it.
WWillFit(record) == wBox'.state # "none" => wBox'.root = record.root
WWillBeSetUp(record) == wBox'.state # "none" => wSetup'.id = record.id /\ wSetup'.root = record.root

\* A publication that tells the relay when notify says so, whatever else it does.
LEMMA WPublishStep ==
  ASSUME WorkspaceInv, NEW p \in WWorkers, wOp[p].stage \in WUnder, wOp[p].op \notin {"discard", "shutdown", "show"},
         NEW record \in WRecordSet, NEW notify \in BOOLEAN, NEW then \in {"agent", "announce", "failed"},
         NEW lenient \in BOOLEAN,
         WPublishes(p, record, notify, then, lenient), UNCHANGED <<wRec, worldVars, wLock>>,
         wBox' \in [state : {"none", "stopped", "running"}, root : Nat],
         WRelaySound', GrantsAreCurrent', wRec.phase \notin {"none", "discarding"},
         record.id = wRec.id, record.phase \in {"setting-up", "ready", "error", "setup-error"},
         record.phase = "ready" => notify = FALSE /\ then = "announce",
         then = "agent" => record.phase = "setting-up" /\ WWillFit(record),
         then = "announce" => record.phase = "ready" /\ WWillFit(record) /\ WWillBeSetUp(record),
         notify = FALSE => wRelay' # "ready"
  PROVE  WorkspaceInv'
<1>1. WTyped /\ wLock["setup"] = p /\ WOpMayWork(p)
  BY WHolder
<1>2. then \in WThens
  BY DEF WThens
<1>3. /\ wOp' \in [WWorkers -> WOpRows]
      /\ wOp'[p].stage = (IF notify THEN "notify" ELSE "write") /\ wOp'[p].op = wOp[p].op
      /\ wOp'[p].next = record /\ wOp'[p].then = then
  BY <1>1, <1>2, WPublishesTo
<1>4. WTyped'
  BY <1>1, <1>3 DEF WTyped
<1>5. WGrantsSound'
  BY DEF WorkspaceInv, WGrantsSound
<1>6. WOpMayWork(p)'
  BY <1>1, <1>3 DEF WOpMayWork
<1>7. WOpPublishes(p)'
  <2>1. CASE notify = TRUE
    BY <1>3, <2>1 DEF WOpPublishes, WFits, WIsSetUp, WWillFit, WWillBeSetUp
  <2>2. CASE notify = FALSE
    BY <1>3, <2>2 DEF WOpPublishes, WFits, WIsSetUp, WWillFit, WWillBeSetUp
  <2> QED
    BY <2>1, <2>2
<1> QED
  BY <1>2, <1>4, <1>5, <1>6, <1>7, WPublishQuiet

\* An operation that reconciles or sets up has a workspace, and no discard of it is published.
LEMMA WSettlesUp ==
  ASSUME WorkspaceInv, NEW p \in WWorkers,
         wOp[p].stage \in {"reconcile", "setting-up", "agent", "project-setup", "announce"}
  PROVE  /\ WTyped /\ wRec \in WRecordSet /\ wOp[p].stage \in WUnder /\ WOpRests(p) /\ WOpMayWork(p)
         /\ wRec.phase \notin {"none", "discarding"} /\ wOp[p].op \notin {"discard", "shutdown", "show"}
<1>1. wOp[p].stage \in WUnder
  BY DEF WUnder
<1>2. WTyped /\ WOpMayWork(p) /\ WOpRests(p) /\ wRec \in WRecordSet
  BY <1>1, WHolder
<1> QED
  BY <1>1, <1>2 DEF WOpMayWork

LEMMA WReconcileStep ==
  ASSUME WorkspaceInv, NEW p \in WWorkers, WReconcile(p)
  PROVE  WorkspaceInv'
<1>1. /\ wOp[p].stage = "reconcile" /\ WGoes(p, "setting-up")
      /\ UNCHANGED <<wRec, worldVars, wLock>>
      /\ wGrants' = WGranted(wRec) /\ wBox' = WBoxFor(wRec.root)
      /\ wRelay' = (IF WSameBox /\ WRunning THEN wRelay ELSE "down")
      /\ wSetup' = (IF WSameBox THEN wSetup ELSE WNoRecord)
  BY DEF WReconcile, WIs, WGoesOn
<1>2. /\ WTyped /\ wRec \in WRecordSet /\ wOp[p].stage \in WUnder /\ WOpMayWork(p)
      /\ wRec.phase \notin {"none", "discarding"} /\ wOp[p].op \notin {"discard", "shutdown", "show"}
  BY <1>1, WSettlesUp
<1>3. wOp' \in [WWorkers -> WOpRows] /\ WKeeps(p) /\ wOp'[p].stage = "setting-up"
  BY <1>1, <1>2, WGoesTo DEF WStageSet, WUnder
<1>4. wBox' \in [state : {"none", "stopped", "running"}, root : Nat] /\ wBox'.state = "running" /\ wBox'.root = wRec.root
  BY <1>1, <1>2 DEF WBoxFor, WRecordSet
<1>5. WTyped'
  BY <1>1, <1>2, <1>3, <1>4 DEF WTyped
<1>6. WRelaySound'
  BY <1>1, <1>4 DEF WorkspaceInv, WRelaySound
<1>7. WGrantsSound'
  BY <1>1, <1>2 DEF WorkspaceInv, WGrantsSound, GrantsAreCurrent, WGranted
<1>8. WOpMayWork(p)' /\ WOpPublishes(p)' /\ WOpRests(p)'
  BY <1>1, <1>2, <1>3 DEF WOpMayWork, WOpPublishes, WOpRests, WKeeps
<1> QED
  BY <1>1, <1>2, <1>5, <1>6, <1>7, <1>8, WGoesOnStep DEF WUnder

LEMMA WReconcileFailsStep ==
  ASSUME WorkspaceInv, NEW p \in WWorkers, WReconcileFails(p)
  PROVE  WorkspaceInv'
<1> DEFINE r == WWith("error")
           n == wBox'.state = "running"
<1>1. /\ wOp[p].stage = "reconcile" /\ WPublishes(p, r, n, "failed", TRUE)
      /\ UNCHANGED <<wRec, worldVars, wLock>>
      /\ wGrants' \in {wGrants, WGranted(wRec)}
  BY DEF WReconcileFails, WIs, WGoesOn
<1>2. \/ UNCHANGED <<wBox, wRelay, wSetup>>
      \/ wBox' \in {WNoBox, WBoxFor(wRec.root)} /\ wRelay' = "down"
  BY DEF WReconcileFails
<1>3. /\ WTyped /\ wRec \in WRecordSet /\ wOp[p].stage \in WUnder
      /\ wRec.phase \notin {"none", "discarding"} /\ wOp[p].op \notin {"discard", "shutdown", "show"}
  BY <1>1, WSettlesUp
<1>4. r \in WRecordSet /\ r.phase = "error" /\ r.id = wRec.id
  BY <1>3, WRecords DEF WPhases
<1>5. wBox' \in [state : {"none", "stopped", "running"}, root : Nat]
  BY <1>2, <1>3 DEF WTyped, WNoBox, WBoxFor, WRecordSet
<1>6. WRelaySound'
  BY <1>1, <1>2 DEF WorkspaceInv, WRelaySound
<1>7. GrantsAreCurrent'
  BY <1>1, <1>3 DEF WorkspaceInv, WGrantsSound, GrantsAreCurrent, WGranted
<1>8. n \in BOOLEAN /\ (n = FALSE => wRelay' # "ready")
  BY <1>6 DEF WRelaySound
<1> HIDE DEF r, n
<1> QED
  BY <1>1, <1>3, <1>4, <1>5, <1>6, <1>7, <1>8, WPublishStep, Zenon

LEMMA WSettingUpStep ==
  ASSUME WorkspaceInv, NEW p \in WWorkers, WSettingUp(p)
  PROVE  WorkspaceInv'
<1> DEFINE r == WWith("setting-up")
           n == wRec.phase = "ready"
<1>1. wOp[p].stage = "setting-up" /\ UNCHANGED <<wRec, runtimeVars, wGrants, worldVars>>
  BY DEF WSettingUp, WIs
<1>2. /\ WTyped /\ wRec \in WRecordSet /\ wOp[p].stage \in WUnder
      /\ wRec.phase \notin {"none", "discarding"} /\ wOp[p].op \notin {"discard", "shutdown", "show"}
  BY <1>1, WSettlesUp
<1>3. WRelaySound' /\ GrantsAreCurrent'
  BY <1>1 DEF WorkspaceInv, WRelaySound, WGrantsSound, GrantsAreCurrent
<1>4. CASE WRunning /\ wBox.root = wRec.root
  <2>1. WPublishes(p, r, n, "agent", FALSE) /\ wLock' = wLock
    BY <1>4 DEF WSettingUp, WGoesOn
  <2>2. r \in WRecordSet /\ r.phase = "setting-up" /\ r.id = wRec.id /\ r.root = wRec.root
    BY <1>2, WRecords DEF WPhases
  <2>3. n \in BOOLEAN /\ (n = FALSE => wRelay' # "ready")
    BY <1>1, <1>2, <1>3 DEF WRelaySound
  <2>4. wBox' \in [state : {"none", "stopped", "running"}, root : Nat]
    BY <1>1, <1>2 DEF WTyped
  <2>5. WWillFit(r)
    BY <1>1, <1>4, <2>2 DEF WWillFit
  <2> HIDE DEF r, n
  <2> QED
    BY <1>1, <1>2, <1>3, <2>1, <2>2, <2>3, <2>4, <2>5, WPublishStep, Zenon
<1>5. CASE WEnds(p, FALSE)
  BY <1>1, <1>2, <1>3, <1>5, WEndsSound DEF WTyped
<1> QED
  BY <1>4, <1>5 DEF WSettingUp

LEMMA WAgentReadyStep ==
  ASSUME WorkspaceInv, NEW p \in WWorkers, WAgentReady(p)
  PROVE  WorkspaceInv'
<1>1. /\ wOp[p].stage = "agent" /\ WRunning /\ wRelay' = "setting-up" /\ WGoes(p, "project-setup")
      /\ UNCHANGED <<wRec, wBox, wSetup, wGrants, worldVars, wLock>>
  BY DEF WAgentReady, WIs, WGoesOn, WRelayStarts
<1>2. /\ WTyped /\ wRec \in WRecordSet /\ wOp[p].stage \in WUnder /\ WOpRests(p) /\ WOpMayWork(p)
      /\ wRec.phase \notin {"none", "discarding"} /\ wOp[p].op \notin {"discard", "shutdown", "show"}
  BY <1>1, WSettlesUp
<1>3. wOp' \in [WWorkers -> WOpRows] /\ WKeeps(p) /\ wOp'[p].stage = "project-setup"
  BY <1>1, <1>2, WGoesTo DEF WStageSet, WUnder
<1>4. WTyped'
  BY <1>1, <1>2, <1>3 DEF WTyped
<1>5. wRec.phase = "setting-up" /\ WFits(wRec)
  BY <1>1, <1>2 DEF WOpRests
<1>6. WRelaySound' /\ WGrantsSound'
  BY <1>1, <1>5 DEF WorkspaceInv, WRelaySound, WGrantsSound, GrantsAreCurrent, WRunning
<1>7. WOpMayWork(p)' /\ WOpPublishes(p)' /\ WOpRests(p)'
  BY <1>1, <1>2, <1>3, <1>5 DEF WOpMayWork, WOpPublishes, WOpRests, WKeeps, WFits
<1> QED
  BY <1>1, <1>2, <1>4, <1>6, <1>7, WGoesOnStep DEF WUnder

LEMMA WAgentFailsStep ==
  ASSUME WorkspaceInv, NEW p \in WWorkers, WAgentFails(p)
  PROVE  WorkspaceInv'
<1> DEFINE r == WWith("setup-error")
<1>1. /\ wOp[p].stage = "agent"
      /\ UNCHANGED <<wRec, wBox, wSetup, wGrants, worldVars, wLock>>
  BY DEF WAgentFails, WIs, WGoesOn
<1>2. PICK started \in {FALSE} \cup {WRunning /\ wAgent' = "running"} :
         /\ wRelay' = IF started THEN WRelayStarts ELSE wRelay
         /\ WPublishes(p, r, started, "failed", TRUE)
  BY DEF WAgentFails
<1>3. /\ WTyped /\ wRec \in WRecordSet /\ wOp[p].stage \in WUnder /\ WOpRests(p)
      /\ wRec.phase \notin {"none", "discarding"} /\ wOp[p].op \notin {"discard", "shutdown", "show"}
  BY <1>1, WSettlesUp
<1>4. wRec.phase = "setting-up"
  BY <1>1, <1>3 DEF WOpRests
<1>5. r \in WRecordSet /\ r.phase = "setup-error" /\ r.id = wRec.id
  BY <1>3, WRecords DEF WPhases
<1>6. started \in BOOLEAN
  OBVIOUS
<1>7. WRelaySound' /\ GrantsAreCurrent' /\ wRelay' # "ready"
  BY <1>1, <1>2, <1>4 DEF WorkspaceInv, WRelaySound, WGrantsSound, GrantsAreCurrent, WRelayStarts, WRunning
<1>8. wBox' \in [state : {"none", "stopped", "running"}, root : Nat]
  BY <1>1, <1>3 DEF WTyped
<1> HIDE DEF r
<1> QED
  BY <1>1, <1>2, <1>3, <1>5, <1>6, <1>7, <1>8, WPublishStep, Zenon

LEMMA WProjectSetupStep ==
  ASSUME WorkspaceInv, NEW p \in WWorkers, WProjectSetup(p)
  PROVE  WorkspaceInv'
<1> DEFINE r == WWith("ready")
<1>1. /\ wOp[p].stage = "project-setup" /\ wSetup' = wRec
      /\ WPublishes(p, r, FALSE, "announce", FALSE)
      /\ UNCHANGED <<wRec, wBox, wRelay, wGrants, worldVars, wLock>>
  BY DEF WProjectSetup, WIs, WGoesOn
<1>2. /\ WTyped /\ wRec \in WRecordSet /\ wOp[p].stage \in WUnder /\ WOpRests(p)
      /\ wRec.phase \notin {"none", "discarding"} /\ wOp[p].op \notin {"discard", "shutdown", "show"}
  BY <1>1, WSettlesUp
<1>3. wRec.phase = "setting-up" /\ WFits(wRec)
  BY <1>1, <1>2 DEF WOpRests
<1>4. r \in WRecordSet /\ r.phase = "ready" /\ r.id = wRec.id /\ r.root = wRec.root
  BY <1>2, WRecords DEF WPhases
<1>5. WRelaySound' /\ GrantsAreCurrent' /\ wRelay' # "ready"
  BY <1>1, <1>3 DEF WorkspaceInv, WRelaySound, WGrantsSound, GrantsAreCurrent
<1>6. WWillFit(r) /\ WWillBeSetUp(r)
  BY <1>1, <1>3, <1>4 DEF WFits, WWillFit, WWillBeSetUp
<1>7. wBox' \in [state : {"none", "stopped", "running"}, root : Nat]
  BY <1>1, <1>2 DEF WTyped
<1> HIDE DEF r
<1> QED
  BY <1>1, <1>2, <1>4, <1>5, <1>6, <1>7, WPublishStep, Zenon

LEMMA WProjectSetupFailsStep ==
  ASSUME WorkspaceInv, NEW p \in WWorkers, WProjectSetupFails(p)
  PROVE  WorkspaceInv'
<1> DEFINE r == WWith("setup-error")
<1>1. /\ wOp[p].stage = "project-setup" /\ WPublishes(p, r, TRUE, "failed", FALSE)
      /\ UNCHANGED <<wRec, runtimeVars, wGrants, worldVars, wLock>>
  BY DEF WProjectSetupFails, WIs, WGoesOn
<1>2. /\ WTyped /\ wRec \in WRecordSet /\ wOp[p].stage \in WUnder
      /\ wRec.phase \notin {"none", "discarding"} /\ wOp[p].op \notin {"discard", "shutdown", "show"}
  BY <1>1, WSettlesUp
<1>3. r \in WRecordSet /\ r.phase = "setup-error" /\ r.id = wRec.id
  BY <1>2, WRecords DEF WPhases
<1>4. WRelaySound' /\ GrantsAreCurrent'
  BY <1>1 DEF WorkspaceInv, WRelaySound, WGrantsSound, GrantsAreCurrent
<1>5. wBox' \in [state : {"none", "stopped", "running"}, root : Nat]
  BY <1>1, <1>2 DEF WTyped
<1> HIDE DEF r
<1> QED
  BY <1>1, <1>2, <1>3, <1>4, <1>5, WPublishStep, Zenon

LEMMA WAnnounceStep ==
  ASSUME WorkspaceInv, NEW p \in WWorkers, WAnnounce(p)
  PROVE  WorkspaceInv'
<1>1. /\ wOp[p].stage = "announce" /\ wRelay # "down" /\ wRelay' = "ready" /\ WEnds(p, TRUE)
      /\ UNCHANGED <<wRec, wBox, wSetup, wGrants, worldVars>>
  BY DEF WAnnounce, WIs
<1>2. WTyped /\ wOp[p].stage \in WUnder /\ WOpRests(p) /\ wRec.phase # "none"
  BY <1>1, WSettlesUp
<1>3. wRec.phase = "ready"
  BY <1>1, <1>2 DEF WOpRests
<1>4. WRelaySound' /\ GrantsAreCurrent'
  BY <1>1, <1>3 DEF WorkspaceInv, WRelaySound, WGrantsSound, GrantsAreCurrent
<1> QED
  BY <1>1, <1>2, <1>4, WEndsSound DEF WTyped

LEMMA WAnnounceFailsStep ==
  ASSUME WorkspaceInv, NEW p \in WWorkers, WAnnounceFails(p)
  PROVE  WorkspaceInv'
<1> DEFINE r == WWith("setup-error")
<1>1. /\ wOp[p].stage = "announce" /\ WPublishes(p, r, FALSE, "failed", FALSE)
      /\ wBox' = WStopped(wBox) /\ wRelay' = "down"
      /\ UNCHANGED <<wRec, wSetup, wGrants, worldVars, wLock>>
  BY DEF WAnnounceFails, WIs, WGoesOn
<1>2. /\ WTyped /\ wRec \in WRecordSet /\ wOp[p].stage \in WUnder
      /\ wRec.phase \notin {"none", "discarding"} /\ wOp[p].op \notin {"discard", "shutdown", "show"}
  BY <1>1, WSettlesUp
<1>3. r \in WRecordSet /\ r.phase = "setup-error" /\ r.id = wRec.id
  BY <1>2, WRecords DEF WPhases
<1>4. WRelaySound' /\ GrantsAreCurrent' /\ wRelay' # "ready"
  BY <1>1 DEF WorkspaceInv, WRelaySound, WGrantsSound, GrantsAreCurrent
<1>5. wBox' \in [state : {"none", "stopped", "running"}, root : Nat]
  BY <1>1, <1>2 DEF WTyped, WStopped
<1> HIDE DEF r
<1> QED
  BY <1>1, <1>2, <1>3, <1>4, <1>5, WPublishStep, Zenon

-----------------------------------------------------------------------------
\* Discard.

LEMMA WDiscardBeginsStep ==
  ASSUME WorkspaceInv, NEW p \in WWorkers, WDiscardBegins(p)
  PROVE  WorkspaceInv'
<1> DEFINE r == WWith("discarding")
           n == WRunning
<1>1. /\ wOp[p].stage = "enter" /\ wOp[p].stage \in WUnder /\ wOp[p].op = "discard"
      /\ wLock["authority"] = WNobody
      /\ UNCHANGED <<wRec, runtimeVars, wGrants, worldVars>>
  BY DEF WDiscardBegins, WIs, WUnder
<1>2. WTyped /\ WOpMayWork(p) /\ wRec \in WRecordSet /\ wLock["setup"] = p
  BY <1>1, WHolder
<1>3. WRelaySound'
  BY <1>1 DEF WorkspaceInv, WRelaySound
<1>4. GrantsAreCurrent' /\ wReq.stage # "serving"
  BY <1>1 DEF WorkspaceInv, WGrantsSound, GrantsAreCurrent, WNobody
<1>5. CASE WEnds(p, FALSE)
  BY <1>1, <1>2, <1>3, <1>4, <1>5, WEndsSound DEF WTyped, WorkspaceInv, WGrantsSound
<1>6. CASE wLock' = [wLock EXCEPT !["authority"] = p] /\ WPublishes(p, r, n, "revoke", FALSE)
  <2>1. /\ wLock' \in [WLocks -> WWorkers \cup {WNobody, "request"}]
        /\ wLock'["authority"] = p /\ wLock'["setup"] = wLock["setup"]
    BY <1>2, <1>6 DEF WTyped, WLocks
  <2>2. /\ r \in WRecordSet /\ r.phase = "discarding" /\ r.id = wRec.id
        /\ wRec.phase = "discarding" => r = wRec
    BY <1>2, WRecords DEF WPhases
  <2>3. n \in BOOLEAN /\ (n = FALSE => wRelay # "ready")
    BY DEF WorkspaceInv, WRelaySound, WRunning
  <2>4. "revoke" \in WThens
    BY DEF WThens
  <2>5. WPublishes(p, r, n, "revoke", FALSE)
    BY <1>6
  <2> HIDE DEF r, n
  <2>6. /\ wOp' \in [WWorkers -> WOpRows]
        /\ wOp'[p].stage = (IF n THEN "notify" ELSE "write") /\ wOp'[p].op = wOp[p].op
        /\ wOp'[p].next = r /\ wOp'[p].then = "revoke"
    <3>1. CASE n = TRUE
      <4>1. WPublishes(p, r, TRUE, "revoke", FALSE)
        BY <2>5, <3>1
      <4> QED
        BY <1>2, <2>2, <2>4, <3>1, <4>1, WPublishesTo
    <3>2. CASE n = FALSE
      <4>1. WPublishes(p, r, FALSE, "revoke", FALSE)
        BY <2>5, <3>2
      <4>2. /\ wOp' \in [WWorkers -> WOpRows]
            /\ wOp'[p].stage = (IF FALSE THEN "notify" ELSE "write") /\ wOp'[p].op = wOp[p].op
            /\ wOp'[p].next = r /\ wOp'[p].then = "revoke"
        BY <1>2, <2>2, <2>4, <4>1, WPublishesTo, Zenon
      <4> QED
        BY <3>2, <4>2
    <3> QED
      BY <2>3, <3>1, <3>2
  <2>7. WTyped'
    BY <1>1, <1>2, <2>1, <2>6 DEF WTyped
  <2>8. WGrantsSound'
    BY <1>1, <1>4 DEF WorkspaceInv, WGrantsSound
  <2>9. WOpMayWork(p)'
    BY <1>1, <1>2, <2>6 DEF WOpMayWork
  <2>10. WOpPublishes(p)'
    BY <1>1, <2>1, <2>2, <2>3, <2>6 DEF WOpPublishes
  <2> QED
    BY <1>3, <1>1, <2>1, <2>2, <2>3, <2>4, <2>5, <2>7, <2>8, <2>9, <2>10, WPublishQuiet
<1> QED
  BY <1>5, <1>6 DEF WDiscardBegins

LEMMA WDiscardBlindStep ==
  ASSUME WorkspaceInv, NEW p \in WWorkers, WDiscardBlind(p)
  PROVE  WorkspaceInv'
<1>1. /\ wOp[p].stage = "enter" /\ wOp[p].stage \in WUnder /\ wOp[p].op = "discard"
      /\ wLock["authority"] = WNobody /\ WEnds(p, FALSE)
      /\ wRec' = WWith("discarding") /\ wBlind' = wRec.id
      /\ UNCHANGED <<runtimeVars, wGrants, wHead, wReq, wIds>>
  BY DEF WDiscardBlind, WIs, WUnder
<1>2. WTyped /\ WOpMayWork(p)
  BY <1>1, WHolder
<1>3. /\ wRec' \in WRecordSet /\ wRec'.phase = "discarding" /\ wRec'.id = wRec.id /\ wRec'.root = wRec.root
      /\ wBlind' \in Nat
  BY <1>1, <1>2, WRecords DEF WPhases, WTyped, WRecordSet
<1>4. WRelaySound'
  BY <1>1, <1>3 DEF WorkspaceInv, WRelaySound
<1>5. GrantsAreCurrent'
  BY <1>1, <1>3 DEF WorkspaceInv, WGrantsSound, GrantsAreCurrent, WNobody
<1> QED
  BY <1>1, <1>2, <1>3, <1>4, <1>5, WEndsSound DEF WTyped

LEMMA WRevokeStep ==
  ASSUME WorkspaceInv, NEW p \in WWorkers, WRevoke(p)
  PROVE  WorkspaceInv'
<1>1. /\ wOp[p].stage = "revoke" /\ wOp[p].stage \in WUnder /\ WGoes(p, "teardown")
      /\ wGrants' = wGrants \ {wRec.id} /\ wLock' = [wLock EXCEPT !["authority"] = WNobody]
      /\ UNCHANGED <<wRec, runtimeVars, worldVars>>
  BY DEF WRevoke, WIs, WUnder
<1>2. WTyped /\ WOpMayWork(p) /\ WOpRests(p)
  BY <1>1, WHolder
<1>3. wOp[p].op = "discard" /\ wRec.phase = "discarding"
  BY <1>1, <1>2 DEF WOpRests
<1>4. wGrants' = {} /\ wReq.stage # "serving"
  BY <1>1, <1>3 DEF WorkspaceInv, WGrantsSound, GrantsAreCurrent
<1>5. wOp' \in [WWorkers -> WOpRows] /\ WKeeps(p) /\ wOp'[p].stage = "teardown"
  BY <1>1, <1>2, WGoesTo DEF WStageSet, WUnder
<1>6. /\ wLock' \in [WLocks -> WWorkers \cup {WNobody, "request"}] /\ wLock'["setup"] = wLock["setup"]
  BY <1>1, <1>2 DEF WTyped, WLocks
<1>7. WTyped'
  BY <1>1, <1>2, <1>5, <1>6 DEF WTyped
<1>8. WRelaySound' /\ WGrantsSound'
  BY <1>1, <1>4 DEF WorkspaceInv, WRelaySound, WGrantsSound, GrantsAreCurrent
<1>9. WOpMayWork(p)' /\ WOpPublishes(p)' /\ WOpRests(p)'
  BY <1>1, <1>3, <1>4, <1>5 DEF WOpMayWork, WOpPublishes, WOpRests, WKeeps
<1> QED
  BY <1>1, <1>6, <1>7, <1>8, <1>9, WGoesOnStep DEF WUnder

LEMMA WTeardownStep ==
  ASSUME WorkspaceInv, NEW p \in WWorkers, WTeardown(p)
  PROVE  WorkspaceInv'
<1>1. /\ wOp[p].stage = "teardown" /\ wOp[p].stage \in WUnder /\ WGoes(p, "remove")
      /\ wBox' = WNoBox /\ wRelay' = "down"
      /\ UNCHANGED <<wRec, wGrants, worldVars, wLock>>
  BY DEF WTeardown, WIs, WUnder, WGoesOn
<1>2. WTyped /\ WOpMayWork(p) /\ WOpRests(p)
  BY <1>1, WHolder
<1>3. wOp[p].op = "discard" /\ wRec.phase = "discarding" /\ wGrants = {}
  BY <1>1, <1>2 DEF WOpRests
<1>4. wOp' \in [WWorkers -> WOpRows] /\ WKeeps(p) /\ wOp'[p].stage = "remove"
  BY <1>1, <1>2, WGoesTo DEF WStageSet, WUnder
<1>5. WTyped'
  BY <1>1, <1>2, <1>4 DEF WTyped, WNoBox
<1>6. WRelaySound' /\ WGrantsSound'
  BY <1>1 DEF WorkspaceInv, WRelaySound, WGrantsSound, GrantsAreCurrent
<1>7. WOpMayWork(p)' /\ WOpPublishes(p)' /\ WOpRests(p)'
  BY <1>1, <1>3, <1>4 DEF WOpMayWork, WOpPublishes, WOpRests, WKeeps
<1> QED
  BY <1>1, <1>5, <1>6, <1>7, WGoesOnStep DEF WUnder

LEMMA WTeardownFailsStep ==
  ASSUME WorkspaceInv, NEW p \in WWorkers, WTeardownFails(p)
  PROVE  WorkspaceInv'
<1>1. /\ wOp[p].stage \in WUnder /\ WEnds(p, FALSE)
      /\ wBox' \in {wBox, [wBox EXCEPT !.state = IF wAgent' = "none" /\ @ = "stopped" THEN "running" ELSE @]}
      /\ UNCHANGED <<wRec, wRelay, wSetup, wGrants, worldVars>>
  BY DEF WTeardownFails, WIs, WUnder
<1>2. WTyped
  BY DEF WorkspaceInv
<1>3. /\ wBox' \in [state : {"none", "stopped", "running"}, root : Nat] /\ wBox'.root = wBox.root
      /\ wBox.state = "running" => wBox'.state = "running"
  BY <1>1, <1>2 DEF WTyped
<1>4. WRelaySound' /\ GrantsAreCurrent'
  BY <1>1, <1>3 DEF WorkspaceInv, WRelaySound, WGrantsSound, GrantsAreCurrent
<1> QED
  BY <1>1, <1>2, <1>3, <1>4, WEndsSound DEF WTyped, WorkspaceInv, WGrantsSound

LEMMA WRemoveStep ==
  ASSUME WorkspaceInv, NEW p \in WWorkers, WRemove(p)
  PROVE  WorkspaceInv'
<1>1. /\ wOp[p].stage = "remove" /\ wOp[p].stage \in WUnder /\ WEnds(p, TRUE) /\ wRec' = WNoRecord
      /\ UNCHANGED <<runtimeVars, wGrants, worldVars>>
  BY DEF WRemove, WIs, WUnder
<1>2. WTyped /\ WOpRests(p)
  BY <1>1, WHolder
<1>3. wRec.phase = "discarding" /\ wGrants = {} /\ wRelay = "down"
  BY <1>1, <1>2 DEF WOpRests
<1>4. wRec' \in WRecordSet /\ wRec'.phase = "none"
  BY <1>1 DEF WNoRecord, WRecordSet, WPhases
<1>5. WRelaySound' /\ GrantsAreCurrent'
  BY <1>1, <1>3, <1>4 DEF WorkspaceInv, WRelaySound, WGrantsSound, GrantsAreCurrent
<1> QED
  BY <1>1, <1>2, <1>3, <1>4, <1>5, WEndsSound DEF WTyped

-----------------------------------------------------------------------------
\* Operations begin, requests are served, the world moves.

\* A step that leaves every operation as it is.
LEMMA WWorldStep ==
  ASSUME WorkspaceInv, UNCHANGED <<wRec, wGrants, wOp>>, wLock' = wLock \/ wLock["authority"] \in {WNobody, "request"},
         wLock'["setup"] = wLock["setup"], WTyped', WRelaySound', WGrantsSound',
         wRelay' \in {wRelay, "down"},
         wBox'.state # "none" => wBox.state # "none" /\ wBox'.root = wBox.root /\ wSetup' = wSetup
  PROVE  WorkspaceInv'
<1> SUFFICES ASSUME NEW p \in WWorkers
             PROVE  WOpSound(p)'
  BY DEF WorkspaceInv
<1>1. WOpNamed(p) /\ WOpNamed(p)'
  BY DEF WorkspaceInv, WOpSound, WOpNamed
<1>2. CASE wOp[p].stage \notin WUnder
  BY <1>1, <1>2 DEF WOpSound
<1>3. CASE wOp[p].stage \in WUnder
  <2>1. wLock["setup"] = p /\ WOpMayWork(p) /\ WOpPublishes(p) /\ WOpRests(p)
    BY <1>3, WHolder
  <2>2. wLock["authority"] = p => wLock' = wLock
    BY DEF WWorkers, WNobody
  <2>3. WOpMayWork(p)'
    BY <2>1 DEF WOpMayWork
  <2>4. WOpPublishes(p)'
    BY <2>1, <2>2 DEF WOpPublishes, WFits, WIsSetUp
  <2>5. WOpRests(p)'
    BY <2>1, <2>2 DEF WOpRests, WFits
  <2> QED
    BY <1>1, <2>1, <2>3, <2>4, <2>5 DEF WOpSound
<1> QED
  BY <1>2, <1>3

\* A row with a name and a first stage.
LEMMA WFirstRows ==
  ASSUME WTyped, NEW op \in WOperations \cup {"shutdown", "hoststart"},
         NEW stage \in {"accepted", "project", "lock"}, NEW seen \in {wRec, WNoRecord}
  PROVE  LET o == [WIdle EXCEPT !.op = op, !.stage = stage, !.seen = seen] IN
         /\ o \in WOpRows /\ o.op # "none" /\ o.lenient = FALSE /\ o.stage \notin WUnder
<1>1. seen \in WRecordSet /\ WNoRecord \in WRecordSet
  BY DEF WTyped, WNoRecord, WRecordSet, WPhases
<1>2. "none" \in WThens /\ stage \in WStageSet /\ stage \notin WUnder
  BY DEF WThens, WStageSet, WUnder
<1>3. op # "none" /\ op \in WOperations \cup {"none", "shutdown", "hoststart"}
  BY DEF WOperations
<1>4. WIdle \in WOpRows /\ WIdle.lenient = FALSE
  BY DEF WIdle, WOpRows, WNoRecord, WRecordSet, WPhases, WStageSet, WThens
<1> DEFINE o == [WIdle EXCEPT !.op = op, !.stage = stage, !.seen = seen]
<1>5. o \in WOpRows /\ o.op = op /\ o.lenient = FALSE /\ o.stage = stage
  BY <1>1, <1>2, <1>3, <1>4 DEF WOpRows
<1> QED
  BY <1>2, <1>3, <1>5

\* An operation that has not begun, or was only accepted, is not under the lock.
LEMMA WFreeWorker ==
  ASSUME WorkspaceInv, NEW p \in WWorkers, wOp[p].op = "none" \/ wOp[p].stage = "accepted"
  PROVE  wOp[p].stage \notin WUnder
BY DEF WorkspaceInv, WOpSound, WOpNamed, WUnder

LEMMA WBeginSteps ==
  ASSUME WorkspaceInv,
         (\E op \in WOperations : WBegin(op)) \/ WAsksRestart \/ WSelfRestart \/ WShutdown \/ WHostStart
  PROVE  WorkspaceInv'
<1>1. WTyped /\ "admin" \in WWorkers /\ "self" \in WWorkers
  BY DEF WorkspaceInv, WWorkers
<1>2. ASSUME NEW op \in WOperations, WBegin(op)
      PROVE  WorkspaceInv'
  <2>1. PICK stage \in {"project", "lock"} :
          wOp' = [wOp EXCEPT !["admin"] = [WIdle EXCEPT !.op = op, !.stage = stage, !.seen = wRec]]
    <3> DEFINE s == IF op \in WTransitions \cup {"create"} THEN "project" ELSE "lock"
    <3>1. wOp' = [wOp EXCEPT !["admin"] = [WIdle EXCEPT !.op = op, !.seen = wRec, !.stage = s]]
      BY <1>2 DEF WBegin
    <3>2. s \in {"project", "lock"}
      OBVIOUS
    <3> HIDE DEF s
    <3> QED
      BY <3>1, <3>2 DEF WIdle
  <2> DEFINE o == [WIdle EXCEPT !.op = op, !.stage = stage, !.seen = wRec]
  <2>2. o \in WOpRows /\ o.op # "none" /\ o.lenient = FALSE /\ o.stage \notin WUnder
    BY <1>1, WFirstRows
  <2>3. wOp' = [wOp EXCEPT !["admin"] = o]
    BY <2>1
  <2> HIDE DEF o
  <2>4. wOp["admin"].stage \notin WUnder /\ UNCHANGED <<wRec, runtimeVars, wGrants, worldVars, wLock>>
    BY <1>1, <1>2, WFreeWorker DEF WBegin
  <2> QED
    BY <1>1, <2>2, <2>3, <2>4, WBeginStep
<1>3. CASE WAsksRestart
  <2> DEFINE o == [WIdle EXCEPT !.op = "restart", !.stage = "accepted", !.seen = wRec]
  <2>1. o \in WOpRows /\ o.op # "none" /\ o.lenient = FALSE /\ o.stage \notin WUnder
    BY <1>1, WFirstRows DEF WOperations
  <2>2. wOp' = [wOp EXCEPT !["self"] = o]
    BY <1>3 DEF WAsksRestart
  <2> HIDE DEF o
  <2>3. wOp["self"].stage \notin WUnder /\ UNCHANGED <<wRec, runtimeVars, wGrants, worldVars, wLock>>
    BY <1>1, <1>3, WFreeWorker DEF WAsksRestart
  <2> QED
    BY <1>1, <2>1, <2>2, <2>3, WBeginStep
<1>4. CASE WSelfRestart
  <2>1. /\ wOp["self"].stage = "accepted" /\ wOp["self"].stage \notin WUnder /\ wOp["self"] \in WOpRows
        /\ UNCHANGED <<wRec, runtimeVars, wGrants, worldVars, wLock>>
    BY <1>1, <1>4, WFreeWorker DEF WSelfRestart, WIs, WGoesOn, WTyped
  <2>2. CASE wOp' = [wOp EXCEPT !["self"].stage = "project", !["self"].seen = wRec]
    <3> DEFINE o == [wOp["self"] EXCEPT !.stage = "project", !.seen = wRec]
    <3>1. wOp' = [wOp EXCEPT !["self"] = o]
      BY <1>1, <2>2 DEF WTyped
    <3>2. WOpNamed("self")
      BY <1>1 DEF WorkspaceInv, WOpSound
    <3>3. "project" \in WStageSet /\ "project" \notin WUnder /\ wRec \in WRecordSet
      BY <1>1 DEF WStageSet, WUnder, WTyped
    <3>4. /\ o \in WOpRows /\ o.stage = "project" /\ o.op = wOp["self"].op
          /\ o.lenient = wOp["self"].lenient
      BY <2>1, <3>3 DEF WOpRows
    <3> HIDE DEF o
    <3>5. wOp' \in [WWorkers -> WOpRows] /\ wOp'["self"] = o /\ WOthersKept("self")
      BY <1>1, <3>1, <3>4 DEF WTyped, WOthersKept
    <3>6. WTyped'
      BY <1>1, <2>1, <3>5 DEF WTyped
    <3>7. WOpSound("self")'
      BY <2>1, <3>2, <3>3, <3>4, <3>5 DEF WOpSound, WOpNamed
    <3> QED
      BY <1>1, <2>1, <3>5, <3>6, <3>7, WOutsideStep
  <2>3. CASE wOp' = [wOp EXCEPT !["self"] = WIdle]
    <3>1. WIdle \in WOpRows /\ WIdle.stage \notin WUnder /\ WIdle.stage = "none" /\ WIdle.lenient = FALSE
      BY DEF WIdle, WOpRows, WNoRecord, WRecordSet, WPhases, WStageSet, WThens, WUnder
    <3> QED
      BY <1>1, <2>1, <2>3, <3>1, WBeginStep
  <2> QED
    BY <1>4, <2>2, <2>3 DEF WSelfRestart
<1>5. CASE WShutdown
  <2>1. wOp["admin"].stage \notin WUnder /\ UNCHANGED <<wRec, runtimeVars, wGrants, worldVars, wLock>>
    BY <1>1, <1>5, WFreeWorker DEF WShutdown
  <2>2. CASE wOp' = wOp
    BY <1>1, <2>1, <2>2, WWorldStep DEF WorkspaceInv, WTyped, WRelaySound, WGrantsSound, GrantsAreCurrent
  <2>3. CASE wOp' = [wOp EXCEPT !["admin"] = [WIdle EXCEPT !.op = "shutdown", !.stage = "lock"]]
    <3> DEFINE o == [WIdle EXCEPT !.op = "shutdown", !.stage = "lock"]
    <3>3. WIdle \in WOpRows /\ WIdle.lenient = FALSE /\ "lock" \in WStageSet /\ "lock" \notin WUnder
      BY DEF WIdle, WOpRows, WNoRecord, WRecordSet, WPhases, WStageSet, WThens, WUnder
    <3>1. o \in WOpRows /\ o.op # "none" /\ o.lenient = FALSE /\ o.stage \notin WUnder
      BY <3>3 DEF WOpRows
    <3>2. wOp' = [wOp EXCEPT !["admin"] = o]
      BY <2>3
    <3> HIDE DEF o
    <3> QED
      BY <1>1, <2>1, <3>1, <3>2, WBeginStep
  <2> QED
    BY <1>5, <2>2, <2>3 DEF WShutdown
<1>6. CASE WHostStart
  <2>1. wOp["admin"].stage \notin WUnder /\ UNCHANGED <<wRec, runtimeVars, wGrants, worldVars, wLock>>
    BY <1>1, <1>6, WFreeWorker DEF WHostStart
  <2>2. CASE wOp' = wOp
    BY <1>1, <2>1, <2>2, WWorldStep DEF WorkspaceInv, WTyped, WRelaySound, WGrantsSound, GrantsAreCurrent
  <2>3. CASE wOp' = [wOp EXCEPT !["admin"] = [WIdle EXCEPT !.op = "hoststart", !.stage = "project", !.seen = wRec]]
    <3> DEFINE o == [WIdle EXCEPT !.op = "hoststart", !.stage = "project", !.seen = wRec]
    <3>1. o \in WOpRows /\ o.op # "none" /\ o.lenient = FALSE /\ o.stage \notin WUnder
      BY <1>1, WFirstRows
    <3>2. wOp' = [wOp EXCEPT !["admin"] = o]
      BY <2>3
    <3> HIDE DEF o
    <3> QED
      BY <1>1, <2>1, <3>1, <3>2, WBeginStep
  <2> QED
    BY <1>6, <2>2, <2>3 DEF WHostStart
<1> QED
  BY <1>2, <1>3, <1>4, <1>5, <1>6

LEMMA WRequestSteps ==
  ASSUME WorkspaceInv, (\E kind \in {"api", "read", "write"} : WAuthenticate(kind)) \/ WServe \/ WServed
  PROVE  WorkspaceInv'
<1>1. WTyped
  BY DEF WorkspaceInv
<1>2. ASSUME NEW kind \in {"api", "read", "write"}, WAuthenticate(kind)
      PROVE  WorkspaceInv'
  <2>1. /\ UNCHANGED <<wRec, wIds, wHead, wBlind, runtimeVars, wGrants, wOp, wLock>>
        /\ wReq' = [stage |-> "authenticated", kind |-> kind, seen |-> wRec]
    BY <1>2 DEF WAuthenticate
  <2>2. WTyped' /\ wReq'.stage = "authenticated"
    BY <1>1, <2>1 DEF WTyped
  <2> QED
    BY <2>1, <2>2, WWorldStep DEF WorkspaceInv, WRelaySound, WGrantsSound, GrantsAreCurrent
<1>3. CASE WServe
  <2>1. /\ UNCHANGED <<wRec, wIds, wHead, wBlind, runtimeVars, wGrants, wOp>> /\ wLock["authority"] = WNobody
    BY <1>3 DEF WServe
  <2>2. WRelaySound'
    BY <2>1 DEF WorkspaceInv, WRelaySound
  <2>3. CASE /\ wRec.id = wReq.seen.id /\ WActive(wRec)
             /\ wReq' = [wReq EXCEPT !.stage = "serving"] /\ wLock' = [wLock EXCEPT !["authority"] = "request"]
    <3>1. /\ wLock' \in [WLocks -> WWorkers \cup {WNobody, "request"}]
          /\ wLock'["authority"] = "request" /\ wLock'["setup"] = wLock["setup"]
      BY <1>1, <2>3 DEF WTyped, WLocks
    <3>2. /\ wReq' \in [stage : {"none", "authenticated", "serving"}, kind : {"none", "api", "read", "write"},
                        seen : WRecordSet]
          /\ wReq'.seen = wReq.seen
      BY <1>1, <2>3 DEF WTyped
    <3>3. WTyped'
      BY <1>1, <2>1, <3>1, <3>2 DEF WTyped
    <3>4. WGrantsSound'
      BY <2>1, <2>3, <3>1, <3>2 DEF WorkspaceInv, WGrantsSound, GrantsAreCurrent, WActive
    <3> QED
      BY <2>1, <2>2, <3>1, <3>3, <3>4, WWorldStep
  <2>4. CASE wReq' = WNoRequest /\ UNCHANGED wLock
    <3>1. WTyped'
      BY <1>1, <2>1, <2>4 DEF WTyped, WNoRequest, WNoRecord, WRecordSet, WPhases
    <3>2. WGrantsSound'
      BY <2>1, <2>4 DEF WorkspaceInv, WGrantsSound, GrantsAreCurrent, WNoRequest
    <3> QED
      BY <2>1, <2>2, <2>4, <3>1, <3>2, WWorldStep
  <2> QED
    BY <1>3, <2>3, <2>4 DEF WServe
<1>4. CASE WServed
  <2>1. /\ UNCHANGED <<wRec, wIds, wHead, wBlind, runtimeVars, wGrants, wOp>> /\ wReq.stage = "serving"
        /\ wLock' = [wLock EXCEPT !["authority"] = WNobody] /\ wReq' = WNoRequest
    BY <1>4 DEF WServed
  <2>2. wLock["authority"] = "request"
    BY <2>1 DEF WorkspaceInv, WGrantsSound
  <2>3. /\ wLock' \in [WLocks -> WWorkers \cup {WNobody, "request"}] /\ wLock'["setup"] = wLock["setup"]
    BY <1>1, <2>1 DEF WTyped, WLocks
  <2>4. WTyped'
    BY <1>1, <2>1, <2>3 DEF WTyped, WNoRequest, WNoRecord, WRecordSet, WPhases
  <2>5. WRelaySound' /\ WGrantsSound'
    BY <2>1 DEF WorkspaceInv, WRelaySound, WGrantsSound, GrantsAreCurrent, WNoRequest
  <2> QED
    BY <2>1, <2>2, <2>3, <2>4, <2>5, WWorldStep
<1> QED
  BY <1>2, <1>3, <1>4

LEMMA WWorldSteps ==
  ASSUME WorkspaceInv, WPromotes \/ WDockerActs \/ WControllerDies
  PROVE  WorkspaceInv'
<1>1. WTyped
  BY DEF WorkspaceInv
<1>2. CASE WPromotes
  <2>1. UNCHANGED <<wRec, wIds, wBlind, runtimeVars, wGrants, wOp, wLock, wReq>> /\ wHead' = wHead + 1
    BY <1>2 DEF WPromotes
  <2>2. WTyped'
    BY <1>1, <2>1 DEF WTyped
  <2> QED
    BY <2>1, <2>2, WWorldStep DEF WorkspaceInv, WRelaySound, WGrantsSound, GrantsAreCurrent
<1>3. CASE WDockerActs
  <2>1. /\ UNCHANGED <<wRec, wIds, wBlind, wGrants, wHead, wOp, wLock, wReq>> /\ wRelay' = "down"
        /\ wBox.state # "none"
    BY <1>3 DEF WDockerActs
  <2>2. /\ wBox' \in [state : {"none", "stopped", "running"}, root : Nat]
        /\ wBox'.state # "none" => wBox'.root = wBox.root /\ wSetup' = wSetup
    BY <1>1, <1>3 DEF WDockerActs, WStopped, WNoBox, WTyped
  <2>3. WTyped'
    BY <1>1, <2>1, <2>2 DEF WTyped
  <2> QED
    BY <2>1, <2>2, <2>3, WWorldStep DEF WorkspaceInv, WRelaySound, WGrantsSound, GrantsAreCurrent
<1>4. CASE WControllerDies
  <2>1. /\ UNCHANGED <<wRec, wIds, wBlind, runtimeVars, wGrants, wHead>>
        /\ wOp' = [p \in WWorkers |-> WIdle] /\ wLock' = [l \in WLocks |-> WNobody] /\ wReq' = WNoRequest
    BY <1>1, <1>4 DEF WControllerDies, WTyped
  <2>2. WIdle \in WOpRows /\ WIdle.stage = "none" /\ WIdle.op = "none" /\ WIdle.lenient = FALSE
    BY DEF WIdle, WOpRows, WNoRecord, WRecordSet, WPhases, WStageSet, WThens, WUnder
  <2>3. WTyped'
    BY <1>1, <2>1, <2>2 DEF WTyped, WNoRequest, WNoRecord, WRecordSet, WPhases
  <2>4. WRelaySound' /\ WGrantsSound'
    BY <2>1 DEF WorkspaceInv, WRelaySound, WGrantsSound, GrantsAreCurrent, WNoRequest
  <2>5. \A p \in WWorkers : WOpSound(p)'
    BY <2>1, <2>2 DEF WOpSound, WOpNamed, WUnder
  <2> QED
    BY <2>3, <2>4, <2>5 DEF WorkspaceInv
<1> QED
  BY <1>2, <1>3, <1>4

-----------------------------------------------------------------------------
(***************************************************************************)
(* Whatever the operations, requests, failures and deaths of the           *)
(* controller, and in whatever order they come, the invariant holds.       *)
(***************************************************************************)
THEOREM WorkspaceInductive == WorkspaceSpec => []WorkspaceInv
<1>1. WorkspaceInit => WorkspaceInv
  <2> SUFFICES ASSUME WorkspaceInit PROVE WorkspaceInv
    OBVIOUS
  <2>1. WIdle \in WOpRows /\ WIdle.stage = "none" /\ WIdle.op = "none" /\ WIdle.lenient = FALSE
    BY DEF WIdle, WOpRows, WNoRecord, WRecordSet, WPhases, WStageSet, WThens, WUnder
  <2>2. WTyped
    <3>1. wRec \in WRecordSet /\ wIds \in Nat /\ wHead \in Nat /\ wBlind \in Nat
      BY DEF WorkspaceInit, WNoRecord, WRecordSet, WPhases
    <3>2. wBox \in [state : {"none", "stopped", "running"}, root : Nat]
      BY DEF WorkspaceInit, WNoBox
    <3>3. wOp \in [WWorkers -> WOpRows]
      BY <2>1 DEF WorkspaceInit
    <3>4. wLock \in [WLocks -> WWorkers \cup {WNobody, "request"}]
      BY DEF WorkspaceInit, WLocks
    <3>5. wReq \in [stage : {"none", "authenticated", "serving"}, kind : {"none", "api", "read", "write"},
                    seen : WRecordSet]
      BY DEF WorkspaceInit, WNoRequest, WNoRecord, WRecordSet, WPhases
    <3> QED
      BY <3>1, <3>2, <3>3, <3>4, <3>5 DEF WTyped
  <2>3. WRelaySound /\ WGrantsSound
    BY DEF WorkspaceInit, WRelaySound, WGrantsSound, GrantsAreCurrent, WNoRequest
  <2>4. \A p \in WWorkers : WOpSound(p)
    BY <2>1 DEF WorkspaceInit, WOpSound, WOpNamed, WUnder
  <2> QED
    BY <2>2, <2>3, <2>4 DEF WorkspaceInv
<1>2. WorkspaceInv /\ [WorkspaceNext]_wVars => WorkspaceInv'
  <2> SUFFICES ASSUME WorkspaceInv, [WorkspaceNext]_wVars PROVE WorkspaceInv'
    OBVIOUS
  <2>1. ASSUME NEW p \in WWorkers, WWork(p)
        PROVE  WorkspaceInv'
    BY <2>1, WSelectRootStep, WSetupLockStep, WCreateStep, WSetupBeginsStep, WUpdateBeginsStep,
       WStopBeginsStep, WInspectStep, WReconcileRuntimeStep, WDecideStep, WApplySelectionStep,
       WNotifyStep, WHaltStep, WWriteStep, WReconcileStep, WSettingUpStep, WAgentReadyStep,
       WProjectSetupStep, WAnnounceStep, WDiscardBeginsStep, WRevokeStep, WTeardownStep, WRemoveStep,
       WNotifyFailsStep, WHaltFailsStep, WReconcileFailsStep, WAgentFailsStep, WProjectSetupFailsStep,
       WAnnounceFailsStep, WTeardownFailsStep, WDiscardBlindStep DEF WWork
  <2>2. CASE UNCHANGED wVars
    <3>1. UNCHANGED <<wRec, runtimeVars, wGrants, worldVars, wLock, wOp>>
      BY <2>2
    <3> QED
      BY <3>1, WWorldStep DEF WorkspaceInv, WTyped, WRelaySound, WGrantsSound, GrantsAreCurrent
  <2> QED
    BY <2>1, <2>2, WBeginSteps, WRequestSteps, WWorldSteps DEF WorkspaceNext
<1> QED
  BY <1>1, <1>2, PTL DEF WorkspaceSpec

(***************************************************************************)
(* An agent whose relay says ready is in a container set up for the root   *)
(* and the workspace of the record, which says ready too unless a discard  *)
(* was published without a look at the container; and a request is served  *)
(* only in the workspace it was authenticated for, and in none that is     *)
(* being discarded (workspacePhasePublication.ts, workspaceSetup.ts,       *)
(* workspaceDiscard.ts, controller.ts).                                    *)
(***************************************************************************)
THEOREM EntryStaysCurrent == WorkspaceSpec => []EntryIsCurrent
<1>1. WorkspaceInv => EntryIsCurrent
  BY DEF WorkspaceInv, WRelaySound, WGrantsSound, EntryIsCurrent, RelayReadyIsSetUp
<1> QED
  BY <1>1, WorkspaceInductive, PTL

(***************************************************************************)
(* A published discard is never undone, by whatever operation was waiting  *)
(* for the setup lock meanwhile (workspaceDiscard.ts): only a discard, a   *)
(* look or a shutdown works on such a record, and none of them writes      *)
(* another.                                                                *)
(***************************************************************************)
THEOREM DiscardStaysFinal == WorkspaceSpec => DiscardIsFinal
<1>1. WorkspaceInv /\ [WorkspaceNext]_wVars
        => [wRec.phase = "discarding" => wRec' \in {wRec, WNoRecord}]_wVars
  <2> SUFFICES ASSUME WorkspaceInv, WorkspaceNext, wRec.phase = "discarding", wRec' # wRec
               PROVE  wRec' = WNoRecord
    OBVIOUS
  <2>1. PICK p \in WWorkers : WCreate(p) \/ WWrite(p) \/ WRemove(p) \/ WDiscardBlind(p)
    BY DEF WorkspaceNext, WBegin, WAsksRestart, WSelfRestart, WShutdown, WHostStart, WAuthenticate, WServe,
       WServed, WPromotes, WDockerActs, WControllerDies, WWork, WSelectRoot, WSetupLock, WSetupBegins,
       WUpdateBegins, WStopBegins, WInspect, WReconcileRuntime, WDecide, WApplySelection, WNotify, WHalt,
       WReconcile, WSettingUp, WAgentReady, WProjectSetup, WAnnounce, WDiscardBegins, WRevoke, WTeardown,
       WNotifyFails, WHaltFails, WReconcileFails, WAgentFails, WProjectSetupFails, WAnnounceFails,
       WTeardownFails
  <2>2. CASE WCreate(p)
    <3>1. wOp[p].stage \in WUnder /\ wOp[p].op = "create"
      BY <2>2 DEF WCreate, WIs, WUnder
    <3>2. WOpMayWork(p)
      BY <3>1, WHolder
    <3> QED
      BY <3>1, <3>2 DEF WOpMayWork
  <2>3. CASE WWrite(p)
    <3>1. wOp[p].stage = "write" /\ wOp[p].stage \in WUnder /\ wRec' = wOp[p].next
      BY <2>3 DEF WWrite, WIs, WUnder
    <3>2. WOpPublishes(p)
      BY <3>1, WHolder
    <3> QED
      BY <3>1, <3>2 DEF WOpPublishes
  <2>4. CASE WRemove(p)
    BY <2>4 DEF WRemove
  <2>5. CASE WDiscardBlind(p)
    <3>1. WWith("discarding") = wRec
      BY WRecords DEF WorkspaceInv, WPhases
    <3> QED
      BY <2>5, <3>1 DEF WDiscardBlind
  <2> QED
    BY <2>1, <2>2, <2>3, <2>4, <2>5
<1> QED
  BY <1>1, WorkspaceInductive, PTL DEF WorkspaceSpec, DiscardIsFinal
=============================================================================
