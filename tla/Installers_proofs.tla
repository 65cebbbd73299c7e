-------------------------- MODULE Installers_proofs --------------------------
(***************************************************************************)
(* Proofs about the two installers: of the control-plane services and of   *)
(* the CLI runtime.  Both write several files one after the other and may  *)
(* fail or die between any two of them, so their invariants say, for each  *)
(* stage of a run, what the files and services hold at that moment.        *)
(***************************************************************************)
EXTENDS ControlPlaneInstall, RuntimeInstall, FiniteSetTheorems, TLAPS

-----------------------------------------------------------------------------
(***************************************************************************)
(* Control plane.                                                          *)
(***************************************************************************)

CStages == {"none", "no-op", "stage", "preflight", "finalize", "journal", "establish",
            "replace ordinary-ci", "replace native-git", "publish", "compose", "record",
            "activate ordinary-ci", "activate native-git", "complete",
            "restore ordinary-ci", "restore native-git", "restore compose", "restore record",
            "reactivate ordinary-ci", "reactivate native-git", "rolled back",
            "forward ordinary-ci", "forward native-git", "forwarded"}

CServiceState == [generation : Nat, active : BOOLEAN]

CTyped ==
  /\ cJournal \in [phase : {"none", "staging", "generation", "publishing", "failed-first-install"},
                   candidate : Nat, prior : Nat]
  /\ cRecord \in Nat /\ cCompose \in Nat
  /\ \E k \in Nat : DOMAIN cMade = 1 .. k
  /\ cService \in [CServices -> CServiceState]
  /\ cRun \in [stage : CStages, input : CInputs \cup {"none"}, prior : Nat, candidate : Nat]
  /\ cBound \in SUBSET Nat

\* No file, service, run or activation knows a generation that was not made, and the
\* candidate of a run is not activated before its container stands.
CKnown ==
  /\ \E k \in Nat : DOMAIN cMade = 1 .. k
  /\ cBound \subseteq CGenerations
  /\ {cRecord, cCompose, cJournal.candidate, cJournal.prior, cRun.prior, cRun.candidate} \subseteq {0} \cup CGenerations
  /\ \A s \in CServices : cService[s].generation \in {0} \cup CGenerations
  /\ cRun.stage \in {"journal", "establish", "replace ordinary-ci", "replace native-git"} =>
       cRun.candidate \notin cBound

COrdinaryIs(g, active) == cService["ordinary-ci"] = [generation |-> g, active |-> active]
CNativeIs(g, active) == cService["native-git"] = [generation |-> g, active |-> active]
CNativeOf(g) == cService["native-git"].generation = g

\* Nothing is installed, or both services are active in the generation the files name.
CWhole ==
  \/ CRuns(0) /\ cRecord = 0 /\ cCompose = 0
  \/ /\ cRecord # 0 /\ cCompose = cRecord
     /\ \A s \in CServices : cService[s] = [generation |-> cRecord, active |-> TRUE]

\* Whatever changes files or services, other than the last step of a run, does so
\* under a journal.
CJournaled ==
  /\ cRun.stage \in {"no-op", "stage"} => cJournal = CNoJournal
  /\ cRun.stage \notin {"none", "no-op", "stage"} => cJournal.phase # "none" /\ cJournal.prior = cRun.prior

\* What an installation has done so far.
CInstallSound ==
  /\ cRun.stage \in {"no-op", "stage", "preflight", "finalize", "journal", "establish", "replace ordinary-ci"} =>
       CWhole /\ CNamed(cRun.prior)
  /\ cRun.stage \in {"replace native-git", "publish", "compose", "record"} =>
       cRecord = cRun.prior /\ COrdinaryIs(cRun.candidate, FALSE)
  /\ cRun.stage \in {"replace native-git", "publish", "compose"} => cCompose = cRun.prior
  /\ cRun.stage \in {"publish", "compose", "record"} => CNativeIs(cRun.candidate, FALSE)
  /\ cRun.stage = "record" => cCompose = cRun.candidate
  /\ cRun.stage = "activate ordinary-ci" => COrdinaryIs(cRun.candidate, FALSE)
  /\ cRun.stage \in {"activate ordinary-ci", "activate native-git"} => CNativeIs(cRun.candidate, FALSE)
  /\ cRun.stage \in {"activate native-git", "complete"} => COrdinaryIs(cRun.candidate, TRUE)
  /\ cRun.stage = "complete" => CNativeIs(cRun.candidate, TRUE)
  /\ cRun.stage \in {"activate ordinary-ci", "activate native-git", "complete"} => CNamed(cRun.candidate)
  /\ cRun.stage \in {"journal", "establish", "replace ordinary-ci", "replace native-git", "publish", "compose",
                     "record", "activate ordinary-ci", "activate native-git", "complete"} => cRun.candidate # 0

\* What a rollback has done so far.
CRollbackSound ==
  /\ cRun.stage \in {"restore ordinary-ci", "restore native-git", "restore compose"} => cRecord = cRun.prior
  /\ cRun.stage \in {"restore native-git", "restore compose", "restore record", "reactivate ordinary-ci"} =>
       COrdinaryIs(cRun.prior, FALSE)
  /\ cRun.stage \in {"restore compose", "restore record", "reactivate ordinary-ci", "reactivate native-git"} =>
       CNativeOf(cRun.prior)
  /\ cRun.stage = "restore record" => cCompose = cRun.prior
  /\ cRun.stage \in {"reactivate native-git", "rolled back"} => COrdinaryIs(cRun.prior, TRUE)
  /\ cRun.stage = "rolled back" => CNativeIs(cRun.prior, TRUE)
  /\ cRun.stage \in {"reactivate ordinary-ci", "reactivate native-git", "rolled back"} => CNamed(cRun.prior)
  /\ cRun.stage \in {"restore ordinary-ci", "restore native-git", "restore compose", "restore record",
                     "reactivate ordinary-ci", "reactivate native-git", "rolled back"} => cRun.prior # 0

\* What a roll-forward has done so far.
CForwardSound ==
  /\ cRun.stage \in {"forward ordinary-ci", "forward native-git", "forwarded"} =>
       CNamed(cRun.candidate) /\ CRuns(cRun.candidate) /\ cRun.candidate # 0
  /\ cRun.stage \in {"forward native-git", "forwarded"} => COrdinaryIs(cRun.candidate, TRUE)
  /\ cRun.stage = "forwarded" => CNativeIs(cRun.candidate, TRUE)

InstallInv ==
  CTyped /\ CJournaled /\ CInstallSound /\ CRollbackSound /\ CForwardSound /\ StateIsTrue

USE DEF cVars, stateVars, dockerVars, CAt, CServices

LEMMA QuietRun ==
  /\ CQuiet \in [stage : CStages, input : CInputs \cup {"none"}, prior : Nat, candidate : Nat]
  /\ CQuiet.stage = "none"
BY DEF CQuiet, CStages

LEMMA StageGoes ==
  ASSUME CTyped, NEW stage \in CStages, CGoes(stage)
  PROVE  /\ cRun' \in [stage : CStages, input : CInputs \cup {"none"}, prior : Nat, candidate : Nat]
         /\ cRun'.stage = stage /\ cRun'.prior = cRun.prior /\ cRun'.candidate = cRun.candidate
BY DEF CTyped, CGoes

LEMMA JournalKinds ==
  /\ CNoJournal \in [phase : {"none", "staging", "generation", "publishing", "failed-first-install"},
                     candidate : Nat, prior : Nat]
  /\ CNoJournal.phase = "none"
BY DEF CNoJournal

\* Between runs only the state itself has to be true.
LEMMA RunEnds ==
  ASSUME CTyped', cRun'.stage = "none", StateIsTrue'
  PROVE  InstallInv'
BY DEF InstallInv, CJournaled, CInstallSound, CRollbackSound, CForwardSound

\* Under a journal a step may stop a service, or start native Git in the generation the
\* journal would go back to; what else is active was so before.
LEMMA ActiveKept ==
  ASSUME ActiveIsRecorded, UNCHANGED <<cRecord, cCompose>>,
         cJournal'.phase # "none", cJournal'.prior = cJournal.prior,
         \A s \in CServices : \/ cService'[s] = cService[s]
                              \/ ~cService'[s].active
                              \/ CNamed(cService'[s].generation)
                              \/ (s = "native-git" /\ cService'[s].generation = cJournal.prior)
  PROVE  ActiveIsRecorded'
<1> SUFFICES ASSUME NEW s \in CServices, cService'[s].active
             PROVE  \/ CNamed(cService[s].generation)'
                    \/ s = "native-git" /\ cJournal' # CNoJournal /\ cService'[s].generation = cJournal'.prior
  BY DEF ActiveIsRecorded
<1>1. cJournal' # CNoJournal
  BY JournalKinds
<1>2. CASE cService'[s] = cService[s]
  BY <1>1, <1>2 DEF ActiveIsRecorded, CNamed
<1>3. CASE CNamed(cService'[s].generation)
  BY <1>3 DEF CNamed
<1>4. CASE s = "native-git" /\ cService'[s].generation = cJournal.prior
  BY <1>1, <1>4
<1> QED
  BY <1>2, <1>3, <1>4

LEMMA NoneActive ==
  ASSUME NEW g, COrdinaryIs(g, FALSE)', CNativeIs(g, FALSE)'
  PROVE  ActiveIsRecorded'
BY DEF ActiveIsRecorded, COrdinaryIs, CNativeIs

\* Under a journal the state is true when the active services are the recorded ones.
LEMMA JournalCovers ==
  ASSUME cJournal'.phase # "none", ActiveIsRecorded'
  PROVE  StateIsTrue'
BY JournalKinds DEF StateIsTrue, UnjournaledIsWhole

\* What is installed by both services together.
LEMMA BothActive ==
  ASSUME NEW g \in Nat, g # 0, COrdinaryIs(g, TRUE)', CNativeIs(g, TRUE)', CNamed(g)'
  PROVE  StateIsTrue'
<1>1. \A s \in CServices : cService'[s] = [generation |-> g, active |-> TRUE]
  BY DEF COrdinaryIs, CNativeIs
<1>2. cRecord' = g /\ cCompose' = g
  BY DEF CNamed
<1>3. UnjournaledIsWhole'
  BY <1>1, <1>2 DEF UnjournaledIsWhole
<1>4. ActiveIsRecorded'
  BY <1>1, <1>2 DEF ActiveIsRecorded
<1> QED
  BY <1>3, <1>4 DEF StateIsTrue

\* A service is replaced: it is of the generation, active only when that is native Git
\* in a generation it was activated in, and the other stays.
LEMMA ReplaceEffect ==
  ASSUME CTyped, NEW s \in CServices, NEW g \in Nat, cService' = [cService EXCEPT ![s] = CStarted(s, g)]
  PROVE  /\ cService' \in [CServices -> CServiceState]
         /\ cService'[s].generation = g
         /\ s = "ordinary-ci" \/ g \notin cBound => cService'[s] = [generation |-> g, active |-> FALSE]
         /\ \A t \in CServices : t # s => cService'[t] = cService[t]
         /\ s = "ordinary-ci" => ~cService'[s].active
<1> DEFINE v == CStarted(s, g)
<1>1. v \in CServiceState /\ v.generation = g
  BY DEF CStarted, CServiceState
<1>2. s = "ordinary-ci" \/ g \notin cBound => v = [generation |-> g, active |-> FALSE] /\ ~v.active
  BY DEF CStarted
<1> HIDE DEF v
<1>3. cService \in [CServices -> CServiceState] /\ cService' = [cService EXCEPT ![s] = v]
  BY DEF CTyped, v
<1> QED
  BY <1>1, <1>2, <1>3

LEMMA ServiceRecord ==
  ASSUME NEW r \in CServiceState
  PROVE  r = [generation |-> r.generation, active |-> r.active]
BY DEF CServiceState

\* A service of generation g is activated.
LEMMA ActivateEffect ==
  ASSUME CTyped, NEW s \in CServices, NEW g \in Nat, CIsOf(s, g),
         cService' = [cService EXCEPT ![s].active = TRUE]
  PROVE  /\ cService' \in [CServices -> CServiceState]
         /\ cService'[s] = [generation |-> g, active |-> TRUE] /\ cService'[s].generation = g
         /\ \A t \in CServices : t # s => cService'[t] = cService[t]
<1> DEFINE v == [cService[s] EXCEPT !.active = TRUE]
<1>1. cService[s] \in CServiceState /\ cService[s].generation = g
  BY DEF CTyped, CIsOf
<1>2. v \in CServiceState /\ v.generation = g /\ v.active = TRUE
  BY <1>1 DEF CServiceState
<1>3. cService' = [cService EXCEPT ![s] = v]
  BY DEF CTyped
<1> HIDE DEF v
<1>4. v = [generation |-> g, active |-> TRUE]
  BY <1>2, ServiceRecord
<1>5. cService \in [CServices -> CServiceState]
  BY DEF CTyped
<1>6. cService' \in [CServices -> CServiceState] /\ cService'[s] = v
      /\ \A t \in CServices : t # s => cService'[t] = cService[t]
  BY <1>2, <1>3, <1>5
<1> QED
  BY <1>2, <1>4, <1>6

\* What a step that fails may have done to the services: one is gone, or of the generation
\* it was to be replaced or activated in.
LEMMA MayReplaceEffect ==
  ASSUME CTyped, NEW s \in CServices, NEW g \in Nat, CMayReplace(s, g)
  PROVE  /\ cService' \in [CServices -> CServiceState] /\ cBound' = cBound
         /\ \A t \in CServices : \/ cService'[t] = cService[t]
                                 \/ ~cService'[t].active /\ cService'[t].generation \in {0, g}
                                 \/ t = "native-git" /\ g \in cBound /\ cService'[t].generation = g
<1>1. PICK v \in {cService[s], CAbsent, CStarted(s, g)} : cService' = [cService EXCEPT ![s] = v]
  BY DEF CMayReplace
<1>2. cService \in [CServices -> CServiceState] /\ cBound' = cBound
  BY DEF CTyped, CMayReplace
<1>3. CAbsent \in CServiceState /\ CAbsent.generation = 0 /\ ~CAbsent.active
  BY DEF CAbsent, CServiceState
<1>4. CStarted(s, g) \in CServiceState /\ CStarted(s, g).generation = g
      /\ (CStarted(s, g).active => s = "native-git" /\ g \in cBound)
  BY DEF CStarted, CServiceState
<1>5. v \in CServiceState
  BY <1>1, <1>2, <1>3, <1>4
<1>6. /\ cService' \in [CServices -> CServiceState] /\ cService'[s] = v
      /\ \A t \in CServices : t # s => cService'[t] = cService[t]
  BY <1>1, <1>2, <1>5
<1>7. \/ v = cService[s]
      \/ ~v.active /\ v.generation \in {0, g}
      \/ s = "native-git" /\ g \in cBound /\ v.generation = g
  BY <1>1, <1>3, <1>4
<1> SUFFICES ASSUME NEW t \in CServices
             PROVE  \/ cService'[t] = cService[t]
                    \/ ~cService'[t].active /\ cService'[t].generation \in {0, g}
                    \/ t = "native-git" /\ g \in cBound /\ cService'[t].generation = g
  BY <1>2, <1>6
<1>8. CASE t = s
  BY <1>6, <1>7, <1>8
<1>9. CASE t # s
  BY <1>6, <1>9
<1> QED
  BY <1>8, <1>9

LEMMA MayActivateEffect ==
  ASSUME CTyped, NEW s \in CServices, NEW g \in Nat, CMayActivate(s, g)
  PROVE  /\ cService' \in [CServices -> CServiceState] /\ cBound' \in SUBSET Nat
         /\ cBound' = cBound \/ (cService[s].generation = g /\ g # 0 /\ cBound' = cBound \cup {g})
         /\ \A t \in CServices : cService'[t] = cService[t]
                                \/ (cService'[t].generation = g /\ cService[t].generation = g)
<1>1. CASE UNCHANGED <<cService, cBound>>
  BY <1>1 DEF CTyped
<1>2. CASE COwned /\ CIsOf(s, g) /\ CBinds(s, g)
           /\ cService' \in {cService, [cService EXCEPT ![s].active = TRUE]}
  <2>1. cService[s].generation = g /\ g # 0
    BY <1>2 DEF CIsOf, COwned
  <2>2. cBound' \in SUBSET Nat /\ (cBound' = cBound \/ cBound' = cBound \cup {g})
    BY <1>2 DEF CBinds, CTyped
  <2>3. CASE cService' = cService
    BY <2>1, <2>2, <2>3 DEF CTyped
  <2>4. CASE cService' = [cService EXCEPT ![s].active = TRUE]
    BY <1>2, <2>1, <2>2, <2>4, ActivateEffect
  <2> QED
    BY <1>2, <2>3, <2>4
<1> QED
  BY <1>1, <1>2 DEF CMayActivate

\* Stages at which a Docker command replaces or activates a service, and the generation
\* it is about.
CReplacing == {"replace ordinary-ci", "replace native-git"}
CRestoring == {"restore ordinary-ci", "restore native-git"}
CActivating == {"activate ordinary-ci", "forward ordinary-ci", "activate native-git", "forward native-git"}
CReactivating == {"reactivate ordinary-ci", "reactivate native-git"}

LEMMA HalfDoneEffect ==
  ASSUME CTyped, CHalfDone
  PROVE  /\ cService' \in [CServices -> CServiceState] /\ cBound' \in SUBSET Nat
         /\ \/ UNCHANGED <<cService, cBound>>
            \/ \E g \in Nat :
                 /\ \/ cRun.stage \in CReplacing /\ g = cRun.candidate
                    \/ cRun.stage \in CRestoring /\ g = cRun.prior
                 /\ cBound' = cBound
                 /\ \A t \in CServices : \/ cService'[t] = cService[t]
                                         \/ ~cService'[t].active /\ cService'[t].generation \in {0, g}
                                         \/ t = "native-git" /\ g \in cBound /\ cService'[t].generation = g
            \/ \E g \in Nat :
                 /\ \/ cRun.stage \in CActivating /\ g = cRun.candidate
                    \/ cRun.stage \in CReactivating /\ g = cRun.prior
                 /\ \/ cBound' = cBound
                    \/ cBound' = cBound \cup {g} /\ g # 0 /\ \E t \in CServices : cService[t].generation = g
                 /\ \A t \in CServices : cService'[t] = cService[t]
                                        \/ (cService'[t].generation = g /\ cService[t].generation = g)
<1>0. cRun.candidate \in Nat /\ cRun.prior \in Nat
  BY DEF CTyped
<1>1. CASE cRun.stage = "replace ordinary-ci"
  <2>1. CMayReplace("ordinary-ci", cRun.candidate)
    BY <1>1 DEF CHalfDone
  <2> QED
    BY <1>0, <1>1, <2>1, MayReplaceEffect DEF CReplacing, CTyped
<1>2. CASE cRun.stage = "replace native-git"
  <2>1. CMayReplace("native-git", cRun.candidate)
    BY <1>2 DEF CHalfDone
  <2> QED
    BY <1>0, <1>2, <2>1, MayReplaceEffect DEF CReplacing, CTyped
<1>3. CASE cRun.stage = "restore ordinary-ci"
  <2>1. CMayReplace("ordinary-ci", cRun.prior)
    BY <1>3 DEF CHalfDone
  <2> QED
    BY <1>0, <1>3, <2>1, MayReplaceEffect DEF CRestoring, CTyped
<1>4. CASE cRun.stage = "restore native-git"
  <2>1. CMayReplace("native-git", cRun.prior)
    BY <1>4 DEF CHalfDone
  <2> QED
    BY <1>0, <1>4, <2>1, MayReplaceEffect DEF CRestoring, CTyped
<1>5. CASE cRun.stage \in {"activate ordinary-ci", "forward ordinary-ci"}
  <2>1. CMayActivate("ordinary-ci", cRun.candidate)
    BY <1>5 DEF CHalfDone
  <2> QED
    BY <1>0, <1>5, <2>1, MayActivateEffect DEF CActivating
<1>6. CASE cRun.stage \in {"activate native-git", "forward native-git"}
  <2>1. CMayActivate("native-git", cRun.candidate)
    BY <1>6 DEF CHalfDone
  <2> QED
    BY <1>0, <1>6, <2>1, MayActivateEffect DEF CActivating
<1>7. CASE cRun.stage = "reactivate ordinary-ci"
  <2>1. CMayActivate("ordinary-ci", cRun.prior)
    BY <1>7 DEF CHalfDone
  <2> QED
    BY <1>0, <1>7, <2>1, MayActivateEffect DEF CReactivating
<1>8. CASE cRun.stage = "reactivate native-git"
  <2>1. CMayActivate("native-git", cRun.prior)
    BY <1>8 DEF CHalfDone
  <2> QED
    BY <1>0, <1>8, <2>1, MayActivateEffect DEF CReactivating
<1>9. CASE cRun.stage \notin CReplacing \cup CRestoring \cup CActivating \cup CReactivating
  <2>1. UNCHANGED <<cService, cBound>>
    BY <1>9 DEF CHalfDone, CReplacing, CRestoring, CActivating, CReactivating
  <2> QED
    BY <2>1 DEF CTyped
<1> QED
  BY <1>1, <1>2, <1>3, <1>4, <1>5, <1>6, <1>7, <1>8, <1>9 DEF CReplacing, CRestoring, CActivating, CReactivating

\* An installation up to the files.
LEMMA InstallSteps ==
  ASSUME InstallInv, \/ \E input \in CInputs : CInstall(input)
                     \/ CNoOp \/ CStage \/ CPreflight \/ CPreflightFails \/ CFinalize
                     \/ CJournalGeneration \/ CEstablish
  PROVE  InstallInv'
<1>0. CTyped /\ CJournaled /\ CInstallSound /\ StateIsTrue /\ ActiveIsRecorded
  BY DEF InstallInv, StateIsTrue
<1>w. cJournal = CNoJournal => CWhole
  BY <1>0 DEF StateIsTrue, UnjournaledIsWhole, CWhole
<1>u. ASSUME UNCHANGED <<cRecord, cCompose, cService>> PROVE CWhole' = CWhole
  BY <1>0, <1>u DEF CWhole, CRuns, CIsOf
<1>t. ASSUME CWhole' PROVE StateIsTrue'
  <2>1. CASE CRuns(0)' /\ cRecord' = 0 /\ cCompose' = 0
    BY <2>1 DEF StateIsTrue, UnjournaledIsWhole, ActiveIsRecorded, CRuns, CIsOf, CNamed
  <2>2. CASE /\ cRecord' # 0 /\ cCompose' = cRecord'
             /\ \A s \in CServices : cService'[s] = [generation |-> cRecord', active |-> TRUE]
    <3>1. UnjournaledIsWhole'
      BY <2>2 DEF UnjournaledIsWhole
    <3>2. \A s \in CServices : cService'[s].generation = cRecord'
      BY <2>2
    <3>3. ActiveIsRecorded'
      BY <2>2, <3>2 DEF ActiveIsRecorded, CNamed
    <3> QED
      BY <3>1, <3>3 DEF StateIsTrue
  <2> QED
    BY <1>t, <2>1, <2>2 DEF CWhole
<1>1. ASSUME NEW input \in CInputs, CInstall(input) PROVE InstallInv'
  <2>1. CASE ~CReadable
    BY <1>0, <1>1, <2>1, QuietRun, RunEnds DEF CInstall, CTyped, StateIsTrue, UnjournaledIsWhole,
       ActiveIsRecorded, CRuns, CIsOf, CNamed
  <2>2. CASE CReadable
    <3>1. PICK stage \in {"no-op", "stage"} :
            cRun' = [stage |-> stage, input |-> input, prior |-> cRecord, candidate |-> 0]
      BY <1>1, <2>2 DEF CInstall
    <3>2. cRun'.stage = stage /\ cRun'.prior = cRecord
          /\ cRun' \in [stage : CStages, input : CInputs \cup {"none"}, prior : Nat, candidate : Nat]
      BY <1>0, <3>1 DEF CStages, CTyped
    <3>3. UNCHANGED <<cJournal, cRecord, cCompose, cMade, cService, cBound>> /\ cJournal = CNoJournal
          /\ CNamed(cRecord)
      BY <1>1, <2>2 DEF CInstall, CReadable
    <3>4. CWhole' /\ CNamed(cRun.prior)'
      BY <1>u, <1>w, <3>2, <3>3 DEF CNamed
    <3>5. CTyped'
      BY <1>0, <3>2, <3>3 DEF CTyped
    <3> QED
      BY <1>t, <3>2, <3>3, <3>4, <3>5 DEF InstallInv, CJournaled, CInstallSound, CRollbackSound, CForwardSound,
         StateIsTrue
  <2> QED
    BY <2>1, <2>2
<1>2. CASE CNoOp
  BY <1>0, <1>2, QuietRun, RunEnds DEF CNoOp, CEnds, CTyped, StateIsTrue, UnjournaledIsWhole,
     ActiveIsRecorded, CRuns, CIsOf, CNamed
<1>3. ASSUME NEW stage \in {"preflight", "finalize", "journal", "establish", "replace ordinary-ci"},
             cRun' \in [stage : CStages, input : CInputs \cup {"none"}, prior : Nat, candidate : Nat],
             cRun'.stage = stage, cRun'.prior = cRun.prior,
             cRun.stage \in {"stage", "preflight", "finalize", "journal", "establish"},
             stage \in {"journal", "establish", "replace ordinary-ci"} => cRun'.candidate # 0,
             cJournal' \in [phase : {"staging", "generation", "publishing", "failed-first-install"},
                           candidate : Nat, prior : Nat],
             \E k \in Nat : DOMAIN cMade' = 1 .. k,
             UNCHANGED <<cRecord, cCompose, cService, cBound>>,
             cJournal'.prior = cRun.prior
      PROVE  InstallInv'
  <2>1. CTyped'
    BY <1>0, <1>3 DEF CTyped
  <2>2. CWhole' /\ CNamed(cRun.prior)'
    BY <1>0, <1>u, <1>3 DEF CInstallSound, CNamed
  <2>3. cJournal'.phase # "none"
    BY <1>3
  <2>4. StateIsTrue'
    BY <1>t, <2>2
  <2> QED
    BY <1>3, <2>1, <2>2, <2>3, <2>4 DEF InstallInv, CJournaled, CInstallSound, CRollbackSound, CForwardSound
<1>4. CASE CStage
  <2>1. "preflight" \in CStages /\ CGoes("preflight")
    BY <1>4 DEF CStage, CStages
  <2>2. cJournal' \in [phase : {"staging", "generation", "publishing", "failed-first-install"},
                       candidate : Nat, prior : Nat]
    BY <1>0, <1>4 DEF CStage, CTyped
  <2>3. (\E k \in Nat : DOMAIN cMade' = 1 .. k) /\ cJournal'.prior = cRun.prior
    BY <1>0, <1>4 DEF CStage, CTyped
  <2> QED
    BY <1>0, <1>3, <1>4, <2>1, <2>2, <2>3, StageGoes DEF CStage
<1>j. ASSUME cRun.stage \in {"preflight", "finalize", "journal", "establish"}
      PROVE  cJournal.prior = cRun.prior /\ cJournal \in [phase : {"staging", "generation", "publishing", "failed-first-install"},
                           candidate : Nat, prior : Nat]
  BY <1>0, <1>j DEF CJournaled, CTyped
<1>5. CASE CPreflight
  <2>1. "finalize" \in CStages /\ CGoes("finalize")
    BY <1>5 DEF CPreflight, CStages
  <2>2. \E k \in Nat : DOMAIN cMade' = 1 .. k
    BY <1>0, <1>5 DEF CPreflight, CTyped
  <2> QED
    BY <1>0, <1>3, <1>5, <1>j, <2>1, <2>2, StageGoes DEF CPreflight
<1>6. CASE CPreflightFails
  <2>1. CTyped' /\ cRun'.stage = "none"
    BY <1>0, <1>6, QuietRun, JournalKinds DEF CPreflightFails, CEnds, CTyped
  <2>2. CWhole
    BY <1>0, <1>6 DEF CPreflightFails, CInstallSound
  <2>3. StateIsTrue'
    BY <1>6, <1>u, <1>t, <2>2 DEF CPreflightFails
  <2> QED
    BY <2>1, <2>3, RunEnds
<1>7. CASE CFinalize
  <2>1. PICK k \in Nat : DOMAIN cMade = 1 .. k
    BY <1>0 DEF CTyped
  <2>2. Cardinality(CGenerations) = k
    BY <2>1, FS_Interval DEF CGenerations
  <2>3. k + 1 \in Nat /\ k + 1 # 0
    OBVIOUS
  <2>4. DOMAIN cMade' = 1 .. (k + 1)
    BY <1>7, <2>2 DEF CFinalize
  <2>5. cRun' = [cRun EXCEPT !.stage = "journal", !.candidate = k + 1]
    BY <1>7, <2>2 DEF CFinalize
  <2>6. /\ cRun' \in [stage : CStages, input : CInputs \cup {"none"}, prior : Nat, candidate : Nat]
        /\ cRun'.stage = "journal" /\ cRun'.prior = cRun.prior /\ cRun'.candidate = k + 1
    BY <1>0, <2>3, <2>5 DEF CTyped, CStages
  <2>7. cRun.stage = "finalize" /\ UNCHANGED <<cJournal, cRecord, cCompose, cService, cBound>>
    BY <1>7 DEF CFinalize
  <2> QED
    BY <1>3, <1>j, <2>3, <2>4, <2>6, <2>7
<1>8. CASE CJournalGeneration
  <2>1. PICK stage \in {"establish", "replace ordinary-ci"} : CGoes(stage)
    BY <1>8 DEF CJournalGeneration
  <2>2. stage \in CStages
    BY DEF CStages
  <2>3. cRun.stage = "journal" /\ cRun.candidate \in Nat /\ cRun.candidate # 0
    BY <1>0, <1>8 DEF CJournalGeneration, CInstallSound, CTyped
  <2>4. cJournal' \in [phase : {"staging", "generation", "publishing", "failed-first-install"},
                       candidate : Nat, prior : Nat]
    BY <1>8, <1>j, <2>3 DEF CJournalGeneration
  <2>5. \E k \in Nat : DOMAIN cMade' = 1 .. k
    BY <1>0, <1>8 DEF CJournalGeneration, CTyped
  <2>6. UNCHANGED <<cRecord, cCompose, cService, cBound>> /\ cJournal'.prior = cRun.prior
    BY <1>8, <1>j DEF CJournalGeneration
  <2> QED
    BY <1>0, <1>3, <2>1, <2>2, <2>3, <2>4, <2>5, <2>6, StageGoes
<1>9. CASE CEstablish
  <2>1. "replace ordinary-ci" \in CStages /\ CGoes("replace ordinary-ci")
    BY <1>9 DEF CEstablish, CStages
  <2>2. \E k \in Nat : DOMAIN cMade' = 1 .. k
    BY <1>0, <1>9 DEF CEstablish, CTyped
  <2>3. cRun.stage = "establish" /\ cRun.candidate # 0
        /\ UNCHANGED <<cJournal, cRecord, cCompose, cService, cBound>>
    BY <1>0, <1>9 DEF CEstablish, CInstallSound
  <2> QED
    BY <1>0, <1>3, <1>j, <2>1, <2>2, <2>3, StageGoes
<1> QED
  BY <1>1, <1>2, <1>4, <1>5, <1>6, <1>7, <1>8, <1>9

\* The services are replaced under the journal, and the files name them.
LEMMA DeploySteps ==
  ASSUME InstallInv, CKnown, \/ CReplaceOrdinary \/ CReplaceNative
                     \/ CMarkPublishing \/ CPublishCompose \/ CPublishRecord
  PROVE  InstallInv'
<1>0. CTyped /\ CJournaled /\ CInstallSound /\ StateIsTrue /\ ActiveIsRecorded
  BY DEF InstallInv, StateIsTrue
<1>n. cRun.prior \in Nat /\ cRun.candidate \in Nat
  BY <1>0 DEF CTyped
<1>j. cRun.stage \in {"replace ordinary-ci", "replace native-git", "publish", "compose", "record"} =>
        cJournal.phase # "none" /\ cJournal.prior = cRun.prior
  BY <1>0 DEF CJournaled
<1>1. CASE CReplaceOrdinary
  <2>1. "replace native-git" \in CStages /\ CGoes("replace native-git")
        /\ cService' = [cService EXCEPT !["ordinary-ci"] = CStarted("ordinary-ci", cRun.candidate)]
        /\ UNCHANGED <<cJournal, cRecord, cCompose, cMade, cBound>> /\ cRun.stage = "replace ordinary-ci"
    BY <1>1 DEF CReplaceOrdinary, CReplaceService, CStages
  <2>2. /\ cRun' \in [stage : CStages, input : CInputs \cup {"none"}, prior : Nat, candidate : Nat]
        /\ cRun'.stage = "replace native-git" /\ cRun'.prior = cRun.prior /\ cRun'.candidate = cRun.candidate
    BY <1>0, <2>1, StageGoes
  <2>3. /\ cService' \in [CServices -> CServiceState]
        /\ cService'["ordinary-ci"] = [generation |-> cRun.candidate, active |-> FALSE]
        /\ \A t \in CServices : cService'[t] = cService[t] \/ ~cService'[t].active
        /\ cService'["native-git"] = cService["native-git"]
    BY <1>0, <1>n, <2>1, ReplaceEffect
  <2>4. CTyped'
    BY <1>0, <2>1, <2>2, <2>3 DEF CTyped
  <2>5. StateIsTrue'
    BY <1>0, <1>j, <2>1, <2>3, ActiveKept, JournalCovers
  <2>6. COrdinaryIs(cRun.candidate, FALSE)'
    BY <2>2, <2>3 DEF COrdinaryIs
  <2>7. cRecord' = cRun'.prior /\ cCompose' = cRun'.prior /\ cRun'.candidate # 0
    BY <1>0, <2>1, <2>2 DEF CInstallSound, CNamed
  <2> QED
    BY <1>j, <2>1, <2>2, <2>4, <2>5, <2>6, <2>7
    DEF InstallInv, CJournaled, CInstallSound, CRollbackSound, CForwardSound
<1>2. CASE CReplaceNative
  <2>1. "publish" \in CStages /\ CGoes("publish")
        /\ cService' = [cService EXCEPT !["native-git"] = CStarted("native-git", cRun.candidate)]
        /\ UNCHANGED <<cJournal, cRecord, cCompose, cMade, cBound>> /\ cRun.stage = "replace native-git"
    BY <1>2 DEF CReplaceNative, CReplaceService, CStages
  <2>2. /\ cRun' \in [stage : CStages, input : CInputs \cup {"none"}, prior : Nat, candidate : Nat]
        /\ cRun'.stage = "publish" /\ cRun'.prior = cRun.prior /\ cRun'.candidate = cRun.candidate
    BY <1>0, <2>1, StageGoes
  <2>3. /\ cService' \in [CServices -> CServiceState]
        /\ cService'["native-git"] = [generation |-> cRun.candidate, active |-> FALSE]
        /\ cService'["ordinary-ci"] = cService["ordinary-ci"]
        /\ \A t \in CServices : cService'[t] = cService[t] \/ ~cService'[t].active
    <3>1. cRun.candidate \notin cBound
      BY <2>1 DEF CKnown
    <3> QED
      <4>1. /\ cService' \in [CServices -> CServiceState]
            /\ "native-git" = "ordinary-ci" \/ cRun.candidate \notin cBound
                 => cService'["native-git"] = [generation |-> cRun.candidate, active |-> FALSE]
            /\ \A t \in CServices : t # "native-git" => cService'[t] = cService[t]
        BY <1>0, <1>n, <2>1, ReplaceEffect
      <4>2. cService'["native-git"] = [generation |-> cRun.candidate, active |-> FALSE]
        BY <3>1, <4>1
      <4>3. ~cService'["native-git"].active
        BY <4>2
      <4> QED
        BY <4>1, <4>2, <4>3
  <2>4. CTyped'
    BY <1>0, <2>1, <2>2, <2>3 DEF CTyped
  <2>5. StateIsTrue'
    BY <1>0, <1>j, <2>1, <2>3, ActiveKept, JournalCovers
  <2>6. CNativeIs(cRun.candidate, FALSE)' /\ COrdinaryIs(cRun.candidate, FALSE)'
    BY <1>0, <2>1, <2>2, <2>3 DEF COrdinaryIs, CNativeIs, CInstallSound
  <2>7. cRecord' = cRun'.prior /\ cCompose' = cRun'.prior /\ cRun'.candidate # 0
    BY <1>0, <2>1, <2>2 DEF CInstallSound
  <2> QED
    BY <1>j, <2>1, <2>2, <2>4, <2>5, <2>6, <2>7
    DEF InstallInv, CJournaled, CInstallSound, CRollbackSound, CForwardSound
<1>s. ASSUME UNCHANGED cService, NEW g \in Nat, COrdinaryIs(g, FALSE), CNativeIs(g, FALSE)
      PROVE  /\ ActiveIsRecorded' /\ cService' \in [CServices -> CServiceState]
             /\ \A h : (h = g => cService'["ordinary-ci"] = [generation |-> h, active |-> FALSE]
                                 /\ cService'["native-git"] = [generation |-> h, active |-> FALSE])
  BY <1>0, <1>s, NoneActive DEF COrdinaryIs, CNativeIs, CTyped
<1>3. CASE CMarkPublishing
  <2>1. "compose" \in CStages /\ CGoes("compose") /\ cJournal' = [cJournal EXCEPT !.phase = "publishing"]
        /\ UNCHANGED <<cRecord, cCompose, cMade, cService, cBound>> /\ cRun.stage = "publish"
    BY <1>3 DEF CMarkPublishing, CStages
  <2>2. /\ cRun' \in [stage : CStages, input : CInputs \cup {"none"}, prior : Nat, candidate : Nat]
        /\ cRun'.stage = "compose" /\ cRun'.prior = cRun.prior /\ cRun'.candidate = cRun.candidate
    BY <1>0, <2>1, StageGoes
  <2>3. COrdinaryIs(cRun.candidate, FALSE) /\ CNativeIs(cRun.candidate, FALSE)
    BY <1>0, <2>1 DEF CInstallSound
  <2>4. ActiveIsRecorded' /\ COrdinaryIs(cRun.candidate, FALSE)' /\ CNativeIs(cRun.candidate, FALSE)'
        /\ cService' \in [CServices -> CServiceState]
    BY <1>n, <1>s, <2>1, <2>2, <2>3 DEF COrdinaryIs, CNativeIs
  <2>5. CTyped' /\ cJournal'.phase = "publishing" /\ cJournal'.prior = cRun'.prior
    BY <1>0, <1>j, <2>1, <2>2, <2>4 DEF CTyped
  <2>6. StateIsTrue'
    BY <2>4, <2>5, JournalCovers
  <2>7. cRecord' = cRun'.prior /\ cCompose' = cRun'.prior /\ cRun'.candidate # 0
    BY <1>0, <2>1, <2>2 DEF CInstallSound
  <2> QED
    BY <2>2, <2>4, <2>5, <2>6, <2>7
    DEF InstallInv, CJournaled, CInstallSound, CRollbackSound, CForwardSound
<1>4. CASE CPublishCompose
  <2>1. "record" \in CStages /\ CGoes("record") /\ cCompose' = cRun.candidate
        /\ UNCHANGED <<cJournal, cRecord, cMade, cService, cBound>> /\ cRun.stage = "compose"
    BY <1>4 DEF CPublishCompose, CStages
  <2>2. /\ cRun' \in [stage : CStages, input : CInputs \cup {"none"}, prior : Nat, candidate : Nat]
        /\ cRun'.stage = "record" /\ cRun'.prior = cRun.prior /\ cRun'.candidate = cRun.candidate
    BY <1>0, <2>1, StageGoes
  <2>3. COrdinaryIs(cRun.candidate, FALSE) /\ CNativeIs(cRun.candidate, FALSE)
    BY <1>0, <2>1 DEF CInstallSound
  <2>4. ActiveIsRecorded' /\ COrdinaryIs(cRun.candidate, FALSE)' /\ CNativeIs(cRun.candidate, FALSE)'
        /\ cService' \in [CServices -> CServiceState]
    BY <1>n, <1>s, <2>1, <2>2, <2>3 DEF COrdinaryIs, CNativeIs
  <2>5. CTyped' /\ cJournal'.phase # "none" /\ cJournal'.prior = cRun'.prior
    BY <1>0, <1>j, <1>n, <2>1, <2>2, <2>4 DEF CTyped
  <2>6. StateIsTrue'
    BY <2>4, <2>5, JournalCovers
  <2>7. cRecord' = cRun'.prior /\ cCompose' = cRun'.candidate /\ cRun'.candidate # 0
    BY <1>0, <2>1, <2>2 DEF CInstallSound
  <2> QED
    BY <2>2, <2>4, <2>5, <2>6, <2>7
    DEF InstallInv, CJournaled, CInstallSound, CRollbackSound, CForwardSound
<1>5. CASE CPublishRecord
  <2>1. "activate ordinary-ci" \in CStages /\ CGoes("activate ordinary-ci") /\ cRecord' = cRun.candidate
        /\ UNCHANGED <<cJournal, cCompose, cMade, cService, cBound>> /\ cRun.stage = "record"
    BY <1>5 DEF CPublishRecord, CStages
  <2>2. /\ cRun' \in [stage : CStages, input : CInputs \cup {"none"}, prior : Nat, candidate : Nat]
        /\ cRun'.stage = "activate ordinary-ci" /\ cRun'.prior = cRun.prior /\ cRun'.candidate = cRun.candidate
    BY <1>0, <2>1, StageGoes
  <2>3. COrdinaryIs(cRun.candidate, FALSE) /\ CNativeIs(cRun.candidate, FALSE)
    BY <1>0, <2>1 DEF CInstallSound
  <2>4. ActiveIsRecorded' /\ COrdinaryIs(cRun.candidate, FALSE)' /\ CNativeIs(cRun.candidate, FALSE)'
        /\ cService' \in [CServices -> CServiceState]
    BY <1>n, <1>s, <2>1, <2>2, <2>3 DEF COrdinaryIs, CNativeIs
  <2>5. CTyped' /\ cJournal'.phase # "none" /\ cJournal'.prior = cRun'.prior
    BY <1>0, <1>j, <1>n, <2>1, <2>2, <2>4 DEF CTyped
  <2>6. StateIsTrue'
    BY <2>4, <2>5, JournalCovers
  <2>7. CNamed(cRun.candidate)' /\ cRun'.candidate # 0
    BY <1>0, <2>1, <2>2 DEF CInstallSound, CNamed
  <2> QED
    BY <2>2, <2>4, <2>5, <2>6, <2>7
    DEF InstallInv, CJournaled, CInstallSound, CRollbackSound, CForwardSound
<1> QED
  BY <1>1, <1>2, <1>3, <1>4, <1>5

\* A service is activated in the generation that record and Compose file name: an
\* installation's own, a rolled back one, or one the operator rolls forward.
LEMMA ActivateKeeps ==
  ASSUME InstallInv, NEW s \in CServices, NEW stage \in CStages \ {"none", "no-op", "stage"},
         NEW next \in CStages \ {"none", "no-op", "stage"}, NEW g \in Nat,
         CActivateService(s, stage, next, g), CNamed(g)
  PROVE  /\ CTyped' /\ CJournaled' /\ StateIsTrue' /\ CNamed(g)'
         /\ cRun'.stage = next /\ cRun'.prior = cRun.prior /\ cRun'.candidate = cRun.candidate
         /\ cService'[s] = [generation |-> g, active |-> TRUE]
         /\ \A t \in CServices : t # s => cService'[t] = cService[t]
         /\ cService' \in [CServices -> CServiceState] /\ cService'[s].generation = g
<1>0. CTyped /\ CJournaled /\ StateIsTrue /\ ActiveIsRecorded
  BY DEF InstallInv, StateIsTrue
<1>1. CGoes(next) /\ CIsOf(s, g) /\ cService' = [cService EXCEPT ![s].active = TRUE] /\ CBinds(s, g)
      /\ UNCHANGED <<cJournal, cRecord, cCompose, cMade>> /\ cRun.stage = stage
  BY DEF CActivateService
<1>2. /\ cRun' \in [stage : CStages, input : CInputs \cup {"none"}, prior : Nat, candidate : Nat]
      /\ cRun'.stage = next /\ cRun'.prior = cRun.prior /\ cRun'.candidate = cRun.candidate
  BY <1>0, <1>1, StageGoes
<1>3. /\ cService' \in [CServices -> CServiceState]
      /\ cService'[s] = [generation |-> g, active |-> TRUE] /\ cService'[s].generation = g
      /\ \A t \in CServices : t # s => cService'[t] = cService[t]
  BY <1>0, <1>1, ActivateEffect
<1>b. cBound' \in SUBSET Nat
  BY <1>0, <1>1 DEF CBinds, CTyped
<1>4. CTyped'
  BY <1>0, <1>1, <1>2, <1>3, <1>b DEF CTyped
<1>5. CNamed(g)' /\ cJournal'.phase # "none" /\ cJournal'.prior = cRun'.prior
  BY <1>0, <1>1, <1>2 DEF CNamed, CJournaled
<1>6. ActiveIsRecorded'
  BY <1>0, <1>1, <1>3 DEF ActiveIsRecorded, CNamed
<1>7. StateIsTrue'
  BY <1>5, <1>6, JournalCovers
<1>8. CJournaled'
  BY <1>2, <1>5 DEF CJournaled
<1> QED
  BY <1>1, <1>2, <1>3, <1>4, <1>5, <1>7, <1>8

LEMMA ActivationSteps ==
  ASSUME InstallInv, CActivateOrdinary \/ CActivateNative \/ CComplete
  PROVE  InstallInv'
<1>0. CTyped /\ CInstallSound /\ cRun.candidate \in Nat
  BY DEF InstallInv, CTyped
<1>1. CASE CActivateOrdinary
  <2>1. cRun.stage = "activate ordinary-ci"
    BY <1>1 DEF CActivateOrdinary, CActivateService
  <2>2. CNamed(cRun.candidate) /\ CNativeIs(cRun.candidate, FALSE) /\ cRun.candidate # 0
    BY <1>0, <2>1 DEF CInstallSound
  <2>3. "activate ordinary-ci" \in CStages \ {"none", "no-op", "stage"}
        /\ "activate native-git" \in CStages \ {"none", "no-op", "stage"}
    BY DEF CStages
  <2>4. /\ CTyped' /\ CJournaled' /\ StateIsTrue' /\ cRecord' = cRun.candidate /\ cCompose' = cRun.candidate
        /\ cRun'.stage = "activate native-git" /\ cRun'.candidate = cRun.candidate
        /\ cService'["ordinary-ci"] = [generation |-> cRun.candidate, active |-> TRUE]
        /\ cService'["native-git"] = cService["native-git"]
    BY <1>0, <1>1, <2>2, <2>3, ActivateKeeps DEF CActivateOrdinary, CNamed
  <2>5. CNativeIs(cRun.candidate, FALSE)' /\ COrdinaryIs(cRun.candidate, TRUE)' /\ CNamed(cRun.candidate)'
    BY <2>2, <2>4 DEF COrdinaryIs, CNativeIs, CNamed
  <2> QED
    BY <2>2, <2>4, <2>5 DEF InstallInv, CInstallSound, CRollbackSound, CForwardSound
<1>2. CASE CActivateNative
  <2>1. cRun.stage = "activate native-git"
    BY <1>2 DEF CActivateNative, CActivateService
  <2>2. CNamed(cRun.candidate) /\ COrdinaryIs(cRun.candidate, TRUE) /\ cRun.candidate # 0
    BY <1>0, <2>1 DEF CInstallSound
  <2>3. "complete" \in CStages \ {"none", "no-op", "stage"}
        /\ "activate native-git" \in CStages \ {"none", "no-op", "stage"}
    BY DEF CStages
  <2>4. /\ CTyped' /\ CJournaled' /\ StateIsTrue' /\ cRecord' = cRun.candidate /\ cCompose' = cRun.candidate
        /\ cRun'.stage = "complete" /\ cRun'.candidate = cRun.candidate
        /\ cService'["native-git"] = [generation |-> cRun.candidate, active |-> TRUE]
        /\ cService'["ordinary-ci"] = cService["ordinary-ci"]
    BY <1>0, <1>2, <2>2, <2>3, ActivateKeeps DEF CActivateNative, CNamed
  <2>5. CNativeIs(cRun.candidate, TRUE)' /\ COrdinaryIs(cRun.candidate, TRUE)' /\ CNamed(cRun.candidate)'
    BY <2>2, <2>4 DEF COrdinaryIs, CNativeIs, CNamed
  <2> QED
    BY <2>2, <2>4, <2>5 DEF InstallInv, CInstallSound, CRollbackSound, CForwardSound
<1>3. CASE CComplete
  <2>1. CNamed(cRun.candidate) /\ COrdinaryIs(cRun.candidate, TRUE) /\ CNativeIs(cRun.candidate, TRUE)
        /\ cRun.candidate # 0
    BY <1>0, <1>3 DEF CInstallSound, CComplete
  <2>2. CTyped' /\ cRun'.stage = "none"
    BY <1>0, <1>3, QuietRun, JournalKinds DEF CTyped, CComplete, CEnds
  <2>3. PICK g \in Nat : g = cRun.candidate
    BY <1>0
  <2>4. COrdinaryIs(g, TRUE)' /\ CNativeIs(g, TRUE)' /\ CNamed(g)'
    BY <1>3, <2>1, <2>3 DEF CComplete, COrdinaryIs, CNativeIs, CNamed
  <2>5. StateIsTrue'
    BY <2>1, <2>3, <2>4, BothActive
  <2> QED
    BY <2>2, <2>5, RunEnds
<1> QED
  BY <1>1, <1>2, <1>3

\* A run that stops half way leaves its journal, and no service active that was not.
LEMMA FailSteps ==
  ASSUME InstallInv, CKnown, CFails
  PROVE  InstallInv'
<1>0. CTyped /\ CJournaled /\ CInstallSound /\ CRollbackSound /\ CForwardSound /\ StateIsTrue /\ ActiveIsRecorded
  BY DEF InstallInv, StateIsTrue
<1>j. cRun.stage \notin {"none", "no-op", "stage"} => cJournal.phase # "none" /\ cJournal.prior = cRun.prior
  BY <1>0 DEF CJournaled
<1>h. ASSUME CHalfDone
      PROVE  /\ cService' \in [CServices -> CServiceState] /\ cBound' \in SUBSET Nat
             /\ cRun.stage \in {"none", "no-op", "stage"} => UNCHANGED <<cService, cBound>>
             /\ \A s \in CServices : \/ cService'[s] = cService[s]
                                     \/ ~cService'[s].active
                                     \/ CNamed(cService'[s].generation)
                                     \/ s = "native-git" /\ cService'[s].generation = cJournal.prior
  <2>1. cService' \in [CServices -> CServiceState] /\ cBound' \in SUBSET Nat
    BY <1>0, <1>h, HalfDoneEffect
  <2>2. CASE UNCHANGED <<cService, cBound>>
    BY <2>1, <2>2
  <2>3. ASSUME NEW g \in Nat,
               \/ cRun.stage \in CReplacing /\ g = cRun.candidate
               \/ cRun.stage \in CRestoring /\ g = cRun.prior,
               \A t \in CServices : \/ cService'[t] = cService[t]
                                    \/ ~cService'[t].active
                                    \/ t = "native-git" /\ g \in cBound /\ cService'[t].generation = g
        PROVE  /\ cRun.stage \notin {"none", "no-op", "stage"}
               /\ \A s \in CServices : \/ cService'[s] = cService[s]
                                       \/ ~cService'[s].active
                                       \/ s = "native-git" /\ cService'[s].generation = cJournal.prior
    <3>1. cRun.stage \in CReplacing => cRun.candidate \notin cBound
      BY DEF CReplacing, CKnown
    <3>2. cRun.stage \notin {"none", "no-op", "stage"} /\ (cRun.stage \in CRestoring => cJournal.prior = cRun.prior)
      BY <1>j, <2>3 DEF CReplacing, CRestoring
    <3> QED
      BY <2>3, <3>1, <3>2
  <2>4. ASSUME NEW g \in Nat,
               \/ cRun.stage \in CActivating /\ g = cRun.candidate
               \/ cRun.stage \in CReactivating /\ g = cRun.prior,
               \A t \in CServices : cService'[t] = cService[t] \/ cService'[t].generation = g
        PROVE  /\ cRun.stage \notin {"none", "no-op", "stage"}
               /\ \A s \in CServices : cService'[s] = cService[s] \/ CNamed(cService'[s].generation)
    <3>1. CASE cRun.stage \in CActivating /\ g = cRun.candidate
      <4>1. CNamed(cRun.candidate)
        BY <1>0, <3>1 DEF CActivating, CInstallSound, CForwardSound
      <4> QED
        BY <2>4, <3>1, <4>1 DEF CActivating
    <3>2. CASE cRun.stage \in CReactivating /\ g = cRun.prior
      <4>1. CNamed(cRun.prior)
        BY <1>0, <3>2 DEF CReactivating, CRollbackSound
      <4> QED
        BY <2>4, <3>2, <4>1 DEF CReactivating
    <3> QED
      BY <2>4, <3>1, <3>2
  <2> QED
    BY <1>0, <1>h, <2>1, <2>2, <2>3, <2>4, HalfDoneEffect
<1>u. ASSUME UNCHANGED <<cJournal, cRecord, cCompose, cService>> PROVE StateIsTrue'
  BY <1>0, <1>u DEF StateIsTrue, UnjournaledIsWhole, ActiveIsRecorded, CRuns, CIsOf, CNamed
<1>1. CASE CFirstFails
  <2>1. /\ cService' \in [CServices -> CServiceState] /\ cBound' \in SUBSET Nat
        /\ \A s \in CServices : \/ cService'[s] = cService[s]
                                \/ ~cService'[s].active
                                \/ CNamed(cService'[s].generation)
                                \/ s = "native-git" /\ cService'[s].generation = cJournal.prior
    <3>1. CASE CHalfDone
      BY <1>h, <3>1
    <3>2. CASE cService' = CCleanedUp /\ cBound' = cBound
      BY <1>0, <3>2 DEF CCleanedUp, CAbsent, CServiceState, CTyped
    <3> QED
      BY <1>1, <3>1, <3>2 DEF CFirstFails
  <2>2. UNCHANGED <<cRecord, cCompose, cMade>> /\ cRun' = CQuiet
        /\ cJournal' = [cJournal EXCEPT !.phase = "failed-first-install"]
    BY <1>1 DEF CFirstFails, CEnds
  <2>3. CTyped' /\ cRun'.stage = "none" /\ cJournal'.phase # "none" /\ cJournal'.prior = cJournal.prior
    BY <1>0, <2>1, <2>2, QuietRun DEF CTyped
  <2>4. StateIsTrue'
    BY <1>0, <2>1, <2>2, <2>3, ActiveKept, JournalCovers
  <2> QED
    BY <2>3, <2>4, RunEnds
<1>2. CASE CUpdateFails
  <2>1. "restore ordinary-ci" \in CStages /\ CGoes("restore ordinary-ci") /\ CHalfDone
        /\ UNCHANGED <<cJournal, cRecord, cCompose, cMade>> /\ cRun.prior # 0
        /\ cRun.stage \in {"establish", "replace ordinary-ci", "replace native-git", "publish", "compose", "record"}
    BY <1>2 DEF CUpdateFails, CStages, CDeploying
  <2>2. /\ cRun' \in [stage : CStages, input : CInputs \cup {"none"}, prior : Nat, candidate : Nat]
        /\ cRun'.stage = "restore ordinary-ci" /\ cRun'.prior = cRun.prior
    BY <1>0, <2>1, StageGoes
  <2>3. cJournal'.phase # "none" /\ cRecord' = cRun'.prior /\ cJournal'.prior = cRun'.prior
    BY <1>0, <1>j, <2>1, <2>2 DEF CInstallSound, CNamed
  <2>4. CTyped'
    BY <1>0, <1>h, <2>1, <2>2 DEF CTyped
  <2>5. StateIsTrue'
    BY <1>0, <1>h, <2>1, <2>3, ActiveKept, JournalCovers
  <2> QED
    BY <2>1, <2>2, <2>3, <2>4, <2>5 DEF InstallInv, CJournaled, CInstallSound, CRollbackSound, CForwardSound
<1>3. CASE CRetained \/ CDies
  <2>1. CHalfDone /\ UNCHANGED <<cJournal, cRecord, cCompose, cMade>> /\ cRun' = CQuiet
        /\ cRun.stage # "none"
    BY <1>3 DEF CRetained, CDies, CEnds
  <2>2. CTyped' /\ cRun'.stage = "none"
    BY <1>0, <1>h, <2>1, QuietRun DEF CTyped
  <2>3. CASE cRun.stage \in {"no-op", "stage"}
    BY <1>h, <1>u, <2>1, <2>2, <2>3, RunEnds
  <2>4. CASE cRun.stage \notin {"no-op", "stage"}
    <3>1. cJournal'.phase # "none"
      BY <1>j, <2>1, <2>4
    <3>2. StateIsTrue'
      BY <1>0, <1>h, <2>1, <3>1, ActiveKept, JournalCovers
    <3> QED
      BY <2>2, <3>2, RunEnds
  <2> QED
    BY <2>3, <2>4
<1> QED
  BY <1>1, <1>2, <1>3 DEF CFails

\* A rollback goes the same way back to the prior generation.
LEMMA RollbackSteps ==
  ASSUME InstallInv, CRollsBack
  PROVE  InstallInv'
<1>0. CTyped /\ CJournaled /\ CRollbackSound /\ StateIsTrue /\ ActiveIsRecorded
  BY DEF InstallInv, StateIsTrue
<1>n. cRun.prior \in Nat /\ cRun.candidate \in Nat
  BY <1>0 DEF CTyped
<1>j. cRun.stage \in {"restore ordinary-ci", "restore native-git", "restore compose", "restore record"} =>
        cJournal.phase # "none" /\ cJournal.prior = cRun.prior
  BY <1>0 DEF CJournaled
<1>1. CASE CRestoreOrdinary
  <2>1. "restore native-git" \in CStages /\ CGoes("restore native-git")
        /\ cService' = [cService EXCEPT !["ordinary-ci"] = CStarted("ordinary-ci", cRun.prior)]
        /\ UNCHANGED <<cJournal, cRecord, cCompose, cMade, cBound>> /\ cRun.stage = "restore ordinary-ci"
    BY <1>1 DEF CRestoreOrdinary, CReplaceService, CStages
  <2>2. /\ cRun' \in [stage : CStages, input : CInputs \cup {"none"}, prior : Nat, candidate : Nat]
        /\ cRun'.stage = "restore native-git" /\ cRun'.prior = cRun.prior
    BY <1>0, <2>1, StageGoes
  <2>3. /\ cService' \in [CServices -> CServiceState]
        /\ cService'["ordinary-ci"] = [generation |-> cRun.prior, active |-> FALSE]
        /\ \A t \in CServices : cService'[t] = cService[t] \/ ~cService'[t].active
        /\ cService'["native-git"] = cService["native-git"]
    BY <1>0, <1>n, <2>1, ReplaceEffect
  <2>4. CTyped'
    BY <1>0, <2>1, <2>2, <2>3 DEF CTyped
  <2>5. StateIsTrue'
    BY <1>0, <1>j, <2>1, <2>3, ActiveKept, JournalCovers
  <2>6. COrdinaryIs(cRun.prior, FALSE)' /\ cRecord' = cRun'.prior /\ cRun'.prior # 0
    BY <1>0, <2>1, <2>2, <2>3 DEF COrdinaryIs, CRollbackSound
  <2> QED
    BY <1>j, <2>1, <2>2, <2>4, <2>5, <2>6
    DEF InstallInv, CJournaled, CInstallSound, CRollbackSound, CForwardSound
<1>2. CASE CRestoreNative
  <2>1. "restore compose" \in CStages /\ CGoes("restore compose")
        /\ cService' = [cService EXCEPT !["native-git"] = CStarted("native-git", cRun.prior)]
        /\ UNCHANGED <<cJournal, cRecord, cCompose, cMade, cBound>> /\ cRun.stage = "restore native-git"
    BY <1>2 DEF CRestoreNative, CReplaceService, CStages
  <2>2. /\ cRun' \in [stage : CStages, input : CInputs \cup {"none"}, prior : Nat, candidate : Nat]
        /\ cRun'.stage = "restore compose" /\ cRun'.prior = cRun.prior
    BY <1>0, <2>1, StageGoes
  <2>3. /\ cService' \in [CServices -> CServiceState]
        /\ cService'["native-git"].generation = cRun.prior
        /\ cService'["ordinary-ci"] = cService["ordinary-ci"]
    BY <1>0, <1>n, <2>1, ReplaceEffect
  <2>4. CTyped'
    BY <1>0, <2>1, <2>2, <2>3 DEF CTyped
  <2>5. StateIsTrue'
    BY <1>0, <1>j, <2>1, <2>3, ActiveKept, JournalCovers
  <2>6. COrdinaryIs(cRun.prior, FALSE)' /\ CNativeOf(cRun.prior)' /\ cRecord' = cRun'.prior
        /\ cRun'.prior # 0
    BY <1>0, <2>1, <2>2, <2>3 DEF COrdinaryIs, CNativeOf, CRollbackSound
  <2> QED
    BY <1>j, <2>1, <2>2, <2>4, <2>5, <2>6
    DEF InstallInv, CJournaled, CInstallSound, CRollbackSound, CForwardSound
<1>3. CASE CRollbackFails
  <2>1. CTyped' /\ cRun'.stage = "none"
    BY <1>0, <1>3, QuietRun DEF CTyped, CRollbackFails, CEnds
  <2>2. StateIsTrue'
    BY <1>0, <1>3 DEF CRollbackFails, StateIsTrue, UnjournaledIsWhole, ActiveIsRecorded, CRuns, CIsOf, CNamed
  <2> QED
    BY <2>1, <2>2, RunEnds
<1>s. ASSUME UNCHANGED cService, UNCHANGED cJournal, cJournal.phase # "none", cJournal.prior = cRun.prior,
             COrdinaryIs(cRun.prior, FALSE), CNativeOf(cRun.prior)
      PROVE  ActiveIsRecorded' /\ cService' \in [CServices -> CServiceState]
  <2>1. ~cService'["ordinary-ci"].active
    BY <1>s DEF COrdinaryIs
  <2>2. cService'["native-git"].generation = cJournal'.prior /\ cJournal' # CNoJournal
    BY <1>s, JournalKinds DEF CNativeOf
  <2> QED
    BY <1>0, <1>s, <2>1, <2>2 DEF ActiveIsRecorded, CTyped
<1>4. CASE CRestoreCompose
  <2>1. "restore record" \in CStages /\ CGoes("restore record") /\ cCompose' = cRun.prior
        /\ UNCHANGED <<cJournal, cRecord, cMade, cService, cBound>> /\ cRun.stage = "restore compose"
    BY <1>4 DEF CRestoreCompose, CStages
  <2>2. /\ cRun' \in [stage : CStages, input : CInputs \cup {"none"}, prior : Nat, candidate : Nat]
        /\ cRun'.stage = "restore record" /\ cRun'.prior = cRun.prior
    BY <1>0, <2>1, StageGoes
  <2>3. COrdinaryIs(cRun.prior, FALSE) /\ CNativeOf(cRun.prior) /\ cRun.prior # 0
    BY <1>0, <2>1 DEF CRollbackSound
  <2>4. COrdinaryIs(cRun.prior, FALSE)' /\ CNativeOf(cRun.prior)'
    BY <2>1, <2>2, <2>3 DEF COrdinaryIs, CNativeIs, CNativeOf
  <2>5. CTyped' /\ cJournal'.phase # "none"
    BY <1>0, <1>j, <1>n, <2>1, <2>2, <2>3 DEF CTyped
  <2>6. StateIsTrue'
    BY <1>j, <1>s, <2>1, <2>3, <2>5, JournalCovers
  <2> QED
    BY <2>1, <2>2, <2>3, <2>4, <2>5, <2>6
    DEF InstallInv, CJournaled, CInstallSound, CRollbackSound, CForwardSound
<1>5. CASE CRestoreRecord
  <2>1. "reactivate ordinary-ci" \in CStages /\ CGoes("reactivate ordinary-ci") /\ cRecord' = cRun.prior
        /\ UNCHANGED <<cJournal, cCompose, cMade, cService, cBound>> /\ cRun.stage = "restore record"
    BY <1>5 DEF CRestoreRecord, CStages
  <2>2. /\ cRun' \in [stage : CStages, input : CInputs \cup {"none"}, prior : Nat, candidate : Nat]
        /\ cRun'.stage = "reactivate ordinary-ci" /\ cRun'.prior = cRun.prior
    BY <1>0, <2>1, StageGoes
  <2>3. COrdinaryIs(cRun.prior, FALSE) /\ CNativeOf(cRun.prior) /\ cRun.prior # 0
        /\ cCompose = cRun.prior
    BY <1>0, <2>1 DEF CRollbackSound
  <2>4. COrdinaryIs(cRun.prior, FALSE)' /\ CNativeOf(cRun.prior)' /\ CNamed(cRun.prior)'
    BY <2>1, <2>2, <2>3 DEF COrdinaryIs, CNativeIs, CNativeOf, CNamed
  <2>5. CTyped' /\ cJournal'.phase # "none"
    BY <1>0, <1>j, <1>n, <2>1, <2>2, <2>3 DEF CTyped
  <2>6. StateIsTrue'
    BY <1>j, <1>s, <2>1, <2>3, <2>5, JournalCovers
  <2> QED
    BY <2>1, <2>2, <2>3, <2>4, <2>5, <2>6
    DEF InstallInv, CJournaled, CInstallSound, CRollbackSound, CForwardSound
<1>6. CASE CReactivateOrdinary
  <2>1. cRun.stage = "reactivate ordinary-ci"
    BY <1>6 DEF CReactivateOrdinary, CActivateService
  <2>2. CNamed(cRun.prior) /\ CNativeOf(cRun.prior) /\ cRun.prior # 0
    BY <1>0, <2>1 DEF CRollbackSound
  <2>3. "reactivate ordinary-ci" \in CStages \ {"none", "no-op", "stage"}
        /\ "reactivate native-git" \in CStages \ {"none", "no-op", "stage"}
    BY DEF CStages
  <2>4. /\ CTyped' /\ CJournaled' /\ StateIsTrue' /\ cRecord' = cRun.prior /\ cCompose' = cRun.prior
        /\ cRun'.stage = "reactivate native-git" /\ cRun'.prior = cRun.prior
        /\ cService'["ordinary-ci"] = [generation |-> cRun.prior, active |-> TRUE]
        /\ cService'["native-git"] = cService["native-git"]
    BY <1>n, <1>6, <2>2, <2>3, ActivateKeeps DEF CReactivateOrdinary, CNamed
  <2>5. CNativeOf(cRun.prior)' /\ COrdinaryIs(cRun.prior, TRUE)' /\ CNamed(cRun.prior)'
    BY <2>2, <2>4 DEF COrdinaryIs, CNativeIs, CNativeOf, CNamed
  <2> QED
    BY <2>2, <2>4, <2>5 DEF InstallInv, CInstallSound, CRollbackSound, CForwardSound
<1>7. CASE CReactivateNative
  <2>1. cRun.stage = "reactivate native-git"
    BY <1>7 DEF CReactivateNative, CActivateService
  <2>2. CNamed(cRun.prior) /\ COrdinaryIs(cRun.prior, TRUE) /\ cRun.prior # 0
    BY <1>0, <2>1 DEF CRollbackSound
  <2>3. "rolled back" \in CStages \ {"none", "no-op", "stage"}
        /\ "reactivate native-git" \in CStages \ {"none", "no-op", "stage"}
    BY DEF CStages
  <2>4. /\ CTyped' /\ CJournaled' /\ StateIsTrue' /\ cRecord' = cRun.prior /\ cCompose' = cRun.prior
        /\ cRun'.stage = "rolled back" /\ cRun'.prior = cRun.prior
        /\ cService'["native-git"] = [generation |-> cRun.prior, active |-> TRUE]
        /\ cService'["ordinary-ci"] = cService["ordinary-ci"]
    BY <1>n, <1>7, <2>2, <2>3, ActivateKeeps DEF CReactivateNative, CNamed
  <2>5. CNativeIs(cRun.prior, TRUE)' /\ COrdinaryIs(cRun.prior, TRUE)' /\ CNamed(cRun.prior)'
    BY <2>2, <2>4 DEF COrdinaryIs, CNativeIs, CNativeOf, CNamed
  <2> QED
    BY <2>2, <2>4, <2>5 DEF InstallInv, CInstallSound, CRollbackSound, CForwardSound
<1>8. CASE CRolledBack
  <2>1. CNamed(cRun.prior) /\ COrdinaryIs(cRun.prior, TRUE) /\ CNativeIs(cRun.prior, TRUE)
        /\ cRun.prior # 0
    BY <1>0, <1>8 DEF CRollbackSound, CRolledBack
  <2>2. CTyped' /\ cRun'.stage = "none"
    BY <1>0, <1>8, QuietRun, JournalKinds DEF CTyped, CRolledBack, CEnds
  <2>3. PICK g \in Nat : g = cRun.prior
    BY <1>n
  <2>4. COrdinaryIs(g, TRUE)' /\ CNativeIs(g, TRUE)' /\ CNamed(g)'
    BY <1>8, <2>1, <2>3 DEF CRolledBack, COrdinaryIs, CNativeIs, CNamed
  <2>5. StateIsTrue'
    BY <2>1, <2>3, <2>4, BothActive
  <2> QED
    BY <2>2, <2>5, RunEnds
<1> QED
  BY <1>1, <1>2, <1>3, <1>4, <1>5, <1>6, <1>7, <1>8 DEF CRollsBack

\* The operator's roll-forward starts from the evidence of a publication.
LEMMA ForwardSteps ==
  ASSUME InstallInv, CRollForward \/ CRollsForward
  PROVE  InstallInv'
<1>0. CTyped /\ CJournaled /\ CForwardSound /\ StateIsTrue /\ ActiveIsRecorded
  BY DEF InstallInv, StateIsTrue
<1>n. cRun.candidate \in Nat
  BY <1>0 DEF CTyped
<1>1. CASE CRollForward
  <2>1. UNCHANGED <<cJournal, cRecord, cCompose, cMade, cService, cBound>>
    BY <1>1 DEF CRollForward
  <2>2. StateIsTrue'
    BY <1>0, <2>1 DEF StateIsTrue, UnjournaledIsWhole, ActiveIsRecorded, CRuns, CIsOf, CNamed
  <2>3. CASE cRun' = CQuiet
    BY <1>0, <2>1, <2>2, <2>3, QuietRun, RunEnds DEF CTyped
  <2>4. CASE cRun' # CQuiet
    <3>1. CRecoverable /\ COwned /\ CRuns(cJournal.candidate)
          /\ cRun' = [stage |-> "forward ordinary-ci", input |-> "none",
                      prior |-> cJournal.prior, candidate |-> cJournal.candidate]
      BY <1>1, <2>4 DEF CRollForward
    <3>2. cJournal.candidate \in Nat /\ cJournal.prior \in Nat
      BY <1>0 DEF CTyped
    <3>3. cRun' \in [stage : CStages, input : CInputs \cup {"none"}, prior : Nat, candidate : Nat]
          /\ cRun'.stage = "forward ordinary-ci" /\ cRun'.candidate = cJournal.candidate
          /\ cRun'.prior = cJournal.prior
      BY <3>1, <3>2 DEF CStages
    <3>4. CTyped' /\ cJournal'.phase # "none" /\ cJournal'.prior = cRun'.prior
      BY <1>0, <2>1, <3>1, <3>3 DEF CTyped, CRecoverable
    <3>5. CNamed(cRun.candidate)' /\ CRuns(cRun.candidate)' /\ cRun'.candidate # 0
      BY <2>1, <3>1, <3>3 DEF CRecoverable, CNamed, CRuns, CIsOf, COwned
    <3> QED
      BY <2>2, <3>3, <3>4, <3>5 DEF InstallInv, CJournaled, CInstallSound, CRollbackSound, CForwardSound
  <2> QED
    BY <2>3, <2>4
<1>2. CASE CForwardOrdinary
  <2>1. cRun.stage = "forward ordinary-ci"
    BY <1>2 DEF CForwardOrdinary, CActivateService
  <2>2. CNamed(cRun.candidate) /\ CRuns(cRun.candidate) /\ cRun.candidate # 0
    BY <1>0, <2>1 DEF CForwardSound
  <2>3. "forward ordinary-ci" \in CStages \ {"none", "no-op", "stage"}
        /\ "forward native-git" \in CStages \ {"none", "no-op", "stage"}
    BY DEF CStages
  <2>4. /\ CTyped' /\ CJournaled' /\ StateIsTrue' /\ cRecord' = cRun.candidate /\ cCompose' = cRun.candidate
        /\ cRun'.stage = "forward native-git" /\ cRun'.candidate = cRun.candidate
        /\ cService'["ordinary-ci"] = [generation |-> cRun.candidate, active |-> TRUE]
        /\ cService'["ordinary-ci"].generation = cRun.candidate
        /\ cService'["native-git"] = cService["native-git"]
    BY <1>n, <1>2, <2>2, <2>3, ActivateKeeps DEF CForwardOrdinary, CNamed
  <2>5. COrdinaryIs(cRun.candidate, TRUE)' /\ CNamed(cRun.candidate)'
    BY <2>2, <2>4 DEF COrdinaryIs, CNamed
  <2>o. cService["ordinary-ci"].generation = cRun.candidate /\ cService["native-git"].generation = cRun.candidate
    BY <2>2 DEF CRuns, CIsOf
  <2>6. cService'["ordinary-ci"].generation = cRun'.candidate /\ cService'["native-git"].generation = cRun'.candidate
    BY <2>4, <2>o
  <2>7. CRuns(cRun.candidate)'
    BY <2>6 DEF CRuns, CIsOf
  <2> QED
    BY <2>2, <2>4, <2>5, <2>7 DEF InstallInv, CInstallSound, CRollbackSound, CForwardSound
<1>3. CASE CForwardNative
  <2>1. cRun.stage = "forward native-git"
    BY <1>3 DEF CForwardNative, CActivateService
  <2>2. CNamed(cRun.candidate) /\ CRuns(cRun.candidate) /\ cRun.candidate # 0
        /\ COrdinaryIs(cRun.candidate, TRUE)
    BY <1>0, <2>1 DEF CForwardSound
  <2>3. "forwarded" \in CStages \ {"none", "no-op", "stage"}
        /\ "forward native-git" \in CStages \ {"none", "no-op", "stage"}
    BY DEF CStages
  <2>4. /\ CTyped' /\ CJournaled' /\ StateIsTrue' /\ cRecord' = cRun.candidate /\ cCompose' = cRun.candidate
        /\ cRun'.stage = "forwarded" /\ cRun'.candidate = cRun.candidate
        /\ cService'["native-git"] = [generation |-> cRun.candidate, active |-> TRUE]
        /\ cService'["native-git"].generation = cRun.candidate
        /\ cService'["ordinary-ci"] = cService["ordinary-ci"]
    BY <1>n, <1>3, <2>2, <2>3, ActivateKeeps DEF CForwardNative, CNamed
  <2>5. COrdinaryIs(cRun.candidate, TRUE)' /\ CNativeIs(cRun.candidate, TRUE)' /\ CNamed(cRun.candidate)'
    BY <2>2, <2>4 DEF COrdinaryIs, CNativeIs, CNamed
  <2>o. cService["ordinary-ci"].generation = cRun.candidate /\ cService["native-git"].generation = cRun.candidate
    BY <2>2 DEF CRuns, CIsOf
  <2>6. cService'["ordinary-ci"].generation = cRun'.candidate /\ cService'["native-git"].generation = cRun'.candidate
    BY <2>4, <2>o
  <2>7. CRuns(cRun.candidate)'
    BY <2>6 DEF CRuns, CIsOf
  <2> QED
    BY <2>2, <2>4, <2>5, <2>7 DEF InstallInv, CInstallSound, CRollbackSound, CForwardSound
<1>4. CASE CForwarded
  <2>1. CNamed(cRun.candidate) /\ COrdinaryIs(cRun.candidate, TRUE) /\ CNativeIs(cRun.candidate, TRUE)
        /\ cRun.candidate # 0
    BY <1>0, <1>4 DEF CForwardSound, CForwarded
  <2>2. CTyped' /\ cRun'.stage = "none"
    BY <1>0, <1>4, QuietRun, JournalKinds DEF CTyped, CForwarded, CEnds
  <2>3. PICK g \in Nat : g = cRun.candidate
    BY <1>n
  <2>4. COrdinaryIs(g, TRUE)' /\ CNativeIs(g, TRUE)' /\ CNamed(g)'
    BY <1>4, <2>1, <2>3 DEF CForwarded, COrdinaryIs, CNativeIs, CNamed
  <2>5. StateIsTrue'
    BY <2>1, <2>3, <2>4, BothActive
  <2> QED
    BY <2>2, <2>5, RunEnds
<1> QED
  BY <1>1, <1>2, <1>3, <1>4 DEF CRollsForward

\* A generation is made before anything names it, and its candidate is activated only
\* after the last service of it was started.
LEMMA KnownStep ==
  ASSUME CTyped, CKnown, InstallNext
  PROVE  CKnown'
<1> DEFINE known == {0} \cup CGenerations
<1>0. /\ cRun.prior \in known /\ cRun.candidate \in known /\ cJournal.candidate \in known /\ cJournal.prior \in known
      /\ cRecord \in known /\ cCompose \in known
      /\ \A s \in CServices : cService[s].generation \in known
      /\ 0 \in known /\ CQuiet.prior = 0 /\ CQuiet.candidate = 0 /\ CQuiet.stage = "none"
      /\ CNoJournal.prior = 0 /\ CNoJournal.candidate = 0
  BY DEF CKnown, CQuiet, CNoJournal
<1>k. PICK k \in Nat : DOMAIN cMade = 1 .. k
  BY DEF CKnown
<1>n. cRun.prior \in Nat /\ cRun.candidate \in Nat
  BY DEF CTyped
\* No generation is made and no activation written down.
<1>same. ASSUME UNCHANGED <<cMade, cBound>>,
                {cRecord', cCompose', cJournal'.candidate, cJournal'.prior, cRun'.prior, cRun'.candidate} \subseteq known,
                \A s \in CServices : cService'[s].generation \in known,
                cRun'.stage \in {"journal", "establish", "replace ordinary-ci", "replace native-git"} =>
                  cRun'.candidate \notin cBound
         PROVE  CKnown'
  BY <1>same DEF CKnown, CGenerations
\* The files and the run change.
<1>files. ASSUME UNCHANGED <<cMade, cBound, cService>>,
                 {cRecord', cCompose', cJournal'.candidate, cJournal'.prior, cRun'.prior, cRun'.candidate} \subseteq known,
                 cRun'.stage \in {"journal", "establish", "replace ordinary-ci", "replace native-git"} =>
                   cRun'.candidate \notin cBound
          PROVE  CKnown'
  BY <1>0, <1>files, <1>same
<1>stage. ASSUME NEW stage \in CStages, CGoes(stage)
          PROVE  cRun'.prior = cRun.prior /\ cRun'.candidate = cRun.candidate /\ cRun'.stage = stage
  BY <1>stage DEF CGoes, CTyped
\* A service is activated, or the command that would may have.
<1>binds. ASSUME UNCHANGED <<cMade, cRecord, cCompose, cJournal>>,
                 cRun'.stage \notin {"journal", "establish", "replace ordinary-ci", "replace native-git"},
                 cRun'.prior \in known, cRun'.candidate \in known,
                 NEW g \in Nat, g # 0,
                 \/ cBound' = cBound
                 \/ cBound' = cBound \cup {g} /\ \E t \in CServices : cService[t].generation = g,
                 \A t \in CServices : \/ cService'[t] = cService[t]
                                     \/ (cService'[t].generation = g /\ cService[t].generation = g)
          PROVE  CKnown'
  <2>1. \A t \in CServices : cService'[t].generation \in known
    BY <1>0, <1>binds
  <2>2. cBound' \subseteq CGenerations
    <3>1. CASE cBound' = cBound
      BY <3>1 DEF CKnown
    <3>2. CASE cBound' = cBound \cup {g} /\ \E t \in CServices : cService[t].generation = g
      <4>1. g \in CGenerations
        BY <1>0, <1>binds, <3>2
      <4> QED
        BY <3>2, <4>1 DEF CKnown
    <3> QED
      BY <1>binds, <3>1, <3>2
  <2>3. CGenerations' = CGenerations
    BY <1>binds DEF CGenerations
  <2>4. {cRecord', cCompose', cJournal'.candidate, cJournal'.prior, cRun'.prior, cRun'.candidate} \subseteq known
    BY <1>0, <1>binds
  <2>5. \E l \in Nat : DOMAIN cMade' = 1 .. l
    BY <1>k, <1>binds
  <2> QED
    BY <1>binds, <2>1, <2>2, <2>3, <2>4, <2>5 DEF CKnown
<1>1. ASSUME NEW input \in CInputs, CInstall(input) PROVE CKnown'
  <2>1. cRun'.prior \in known /\ cRun'.candidate \in known
        /\ cRun'.stage \notin {"journal", "establish", "replace ordinary-ci", "replace native-git"}
    BY <1>0, <1>1 DEF CInstall
  <2>2. UNCHANGED <<cMade, cBound, cService, cRecord, cCompose, cJournal>>
    BY <1>1 DEF CInstall
  <2> QED
    BY <1>0, <1>files, <2>1, <2>2
<1>2. CASE CNoOp \/ CComplete \/ CRollbackFails \/ CRolledBack \/ CForwarded \/ CPreflightFails
  <2>1. cRun' = CQuiet /\ UNCHANGED <<cMade, cBound, cService, cRecord, cCompose>>
        /\ cJournal' \in {cJournal, CNoJournal}
    BY <1>2 DEF CNoOp, CComplete, CRollbackFails, CRolledBack, CForwarded, CPreflightFails, CEnds
  <2> QED
    BY <1>0, <1>files, <2>1
<1>3. CASE CStage \/ CPreflight \/ CJournalGeneration \/ CEstablish \/ CMarkPublishing \/ CPublishCompose
           \/ CPublishRecord \/ CRestoreCompose \/ CRestoreRecord
  <2>1. PICK stage \in CStages :
          /\ CGoes(stage)
          /\ stage \in {"journal", "establish", "replace ordinary-ci", "replace native-git"} =>
               cRun.stage \in {"journal", "establish"}
    BY <1>3 DEF CStage, CPreflight, CJournalGeneration, CEstablish, CMarkPublishing, CPublishCompose,
       CPublishRecord, CRestoreCompose, CRestoreRecord, CStages
  <2>2. UNCHANGED <<cMade, cBound, cService>>
    BY <1>3 DEF CStage, CPreflight, CJournalGeneration, CEstablish, CMarkPublishing, CPublishCompose,
       CPublishRecord, CRestoreCompose, CRestoreRecord
  <2>3. cRecord' \in known /\ cCompose' \in known
    BY <1>0, <1>3 DEF CStage, CPreflight, CJournalGeneration, CEstablish, CMarkPublishing, CPublishCompose,
       CPublishRecord, CRestoreCompose, CRestoreRecord
  <2>4. cJournal'.candidate \in known /\ cJournal'.prior \in known
    <3>1. CASE CStage
      BY <1>0, <3>1 DEF CStage
    <3>2. CASE CJournalGeneration \/ CMarkPublishing
      BY <1>0, <3>2 DEF CJournalGeneration, CMarkPublishing, CTyped
    <3>3. CASE UNCHANGED cJournal
      BY <1>0, <3>3
    <3> QED
      BY <1>3, <3>1, <3>2, <3>3 DEF CPreflight, CEstablish, CPublishCompose, CPublishRecord, CRestoreCompose,
         CRestoreRecord
  <2>5. cRun'.prior = cRun.prior /\ cRun'.candidate = cRun.candidate /\ cRun'.stage = stage
    BY <1>stage, <2>1
  <2>6. stage \in {"journal", "establish", "replace ordinary-ci", "replace native-git"} => cRun.candidate \notin cBound
    BY <2>1 DEF CKnown
  <2> QED
    BY <1>0, <1>files, <2>2, <2>3, <2>4, <2>5, <2>6
<1>4. CASE CFinalize
  <2>1. Cardinality(CGenerations) = k
    BY <1>k, FS_Interval DEF CGenerations
  <2>2. DOMAIN cMade' = 1 .. (k + 1) /\ k + 1 \in Nat /\ k + 1 \notin 1 .. k /\ k + 1 # 0
    BY <1>4, <2>1 DEF CFinalize
  <2>3. cRun'.stage = "journal" /\ cRun'.prior = cRun.prior /\ cRun'.candidate = k + 1
    BY <1>4, <2>1 DEF CFinalize, CTyped
  <2>4. UNCHANGED <<cJournal, cRecord, cCompose, cService, cBound>>
    BY <1>4 DEF CFinalize
  <2>5. CGenerations' = 1 .. (k + 1) /\ CGenerations = 1 .. k /\ k + 1 \in CGenerations'
    BY <1>k, <2>2 DEF CGenerations
  <2>6. CGenerations \subseteq CGenerations'
    BY <2>5
  <2>7. cBound' \subseteq CGenerations' /\ cRun'.candidate \notin cBound'
    BY <2>2, <2>3, <2>4, <2>5, <2>6 DEF CKnown
  <2>8. {cRecord', cCompose', cJournal'.candidate, cJournal'.prior, cRun'.prior, cRun'.candidate}
          \subseteq {0} \cup CGenerations'
    BY <1>0, <2>3, <2>4, <2>5, <2>6
  <2>9. \A s \in CServices : cService'[s].generation \in {0} \cup CGenerations'
    BY <1>0, <2>4, <2>6
  <2> QED
    BY <2>2, <2>7, <2>8, <2>9 DEF CKnown
<1>5. ASSUME NEW s \in CServices, NEW stage \in CStages, NEW next \in CStages, NEW g \in known, g \in Nat,
             CReplaceService(s, stage, next, g),
             next \in {"journal", "establish", "replace ordinary-ci", "replace native-git"} =>
               stage = "replace ordinary-ci"
      PROVE  CKnown'
  <2>1. CGoes(next) /\ cService' = [cService EXCEPT ![s] = CStarted(s, g)] /\ cRun.stage = stage
        /\ UNCHANGED <<cMade, cBound, cRecord, cCompose, cJournal>>
    BY <1>5 DEF CReplaceService
  <2>2. cService'[s].generation = g /\ \A t \in CServices : t # s => cService'[t] = cService[t]
    BY <1>5, <2>1, ReplaceEffect
  <2>3. \A t \in CServices : cService'[t].generation \in known
    BY <1>0, <1>5, <2>2
  <2>4. cRun'.prior = cRun.prior /\ cRun'.candidate = cRun.candidate /\ cRun'.stage = next
    BY <1>stage, <2>1
  <2>5. next \in {"journal", "establish", "replace ordinary-ci", "replace native-git"} => cRun.candidate \notin cBound
    BY <1>5, <2>1 DEF CKnown
  <2> QED
    BY <1>0, <1>same, <2>1, <2>3, <2>4, <2>5
<1>6. CASE CReplaceOrdinary \/ CReplaceNative \/ CRestoreOrdinary \/ CRestoreNative
  <2>1. {"replace ordinary-ci", "replace native-git", "publish", "restore ordinary-ci", "restore native-git",
         "restore compose"} \subseteq CStages
    BY DEF CStages
  <2> QED
    BY <1>0, <1>5, <1>6, <1>n, <2>1 DEF CReplaceOrdinary, CReplaceNative, CRestoreOrdinary, CRestoreNative
<1>7. ASSUME NEW s \in CServices, NEW stage \in CStages, NEW g \in Nat,
             NEW next \in CStages \ {"journal", "establish", "replace ordinary-ci", "replace native-git"},
             CActivateService(s, stage, next, g)
      PROVE  CKnown'
  <2>1. CGoes(next) /\ CIsOf(s, g) /\ COwned /\ CBinds(s, g) /\ cService' = [cService EXCEPT ![s].active = TRUE]
        /\ UNCHANGED <<cMade, cRecord, cCompose, cJournal>>
    BY <1>7 DEF CActivateService
  <2>2. cService'[s].generation = g /\ \A t \in CServices : t # s => cService'[t] = cService[t]
    BY <1>7, <2>1, ActivateEffect
  <2>3. cService[s].generation = g /\ g # 0
    BY <2>1 DEF CIsOf, COwned
  <2>4. cBound' = cBound \/ cBound' = cBound \cup {g}
    BY <2>1 DEF CBinds
  <2>5. cRun'.prior = cRun.prior /\ cRun'.candidate = cRun.candidate /\ cRun'.stage = next
    BY <1>stage, <2>1
  <2> QED
    BY <1>0, <1>7, <1>binds, <2>1, <2>2, <2>3, <2>4, <2>5
<1>8. CASE CActivateOrdinary \/ CActivateNative \/ CReactivateOrdinary \/ CReactivateNative \/ CForwardOrdinary
           \/ CForwardNative
  <2>1. {"activate ordinary-ci", "activate native-git", "reactivate ordinary-ci", "reactivate native-git",
         "forward ordinary-ci", "forward native-git", "complete", "rolled back", "forwarded"}
          \subseteq CStages \ {"journal", "establish", "replace ordinary-ci", "replace native-git"}
    BY DEF CStages
  <2> QED
    BY <1>7, <1>8, <1>n, <2>1 DEF CActivateOrdinary, CActivateNative, CReactivateOrdinary, CReactivateNative,
       CForwardOrdinary, CForwardNative
<1>9. CASE CRollForward
  <2>1. cRun'.prior \in known /\ cRun'.candidate \in known
        /\ cRun'.stage \notin {"journal", "establish", "replace ordinary-ci", "replace native-git"}
    BY <1>0, <1>9 DEF CRollForward
  <2>2. UNCHANGED <<cMade, cBound, cService, cRecord, cCompose, cJournal>>
    BY <1>9 DEF CRollForward
  <2> QED
    BY <1>0, <1>files, <2>1, <2>2
<1>h. ASSUME CHalfDone, UNCHANGED <<cMade, cRecord, cCompose>>,
             cJournal'.candidate = cJournal.candidate, cJournal'.prior = cJournal.prior,
             cRun'.prior \in known, cRun'.candidate \in known,
             cRun'.stage \notin {"journal", "establish", "replace ordinary-ci", "replace native-git"}
      PROVE  CKnown'
  <2>f. {cRecord', cCompose', cJournal'.candidate, cJournal'.prior, cRun'.prior, cRun'.candidate} \subseteq known
    BY <1>0, <1>h
  <2>1. CASE UNCHANGED <<cService, cBound>>
    BY <1>0, <1>h, <1>files, <2>1, <2>f
  <2>2. ASSUME NEW g \in {cRun.candidate, cRun.prior}, cBound' = cBound,
               \A t \in CServices : \/ cService'[t] = cService[t]
                                   \/ cService'[t].generation \in {0, g}
        PROVE  CKnown'
    <3>1. \A t \in CServices : cService'[t].generation \in known
      BY <1>0, <2>2
    <3> QED
      BY <1>h, <1>same, <2>2, <2>f, <3>1
  <2>3. ASSUME NEW g \in Nat,
               \/ cBound' = cBound
               \/ cBound' = cBound \cup {g} /\ g # 0 /\ \E t \in CServices : cService[t].generation = g,
               \A t \in CServices : cService'[t] = cService[t]
                                   \/ (cService'[t].generation = g /\ cService[t].generation = g)
        PROVE  CKnown'
    <3>1. \A t \in CServices : cService'[t].generation \in known
      BY <1>0, <2>3
    <3>2. CASE cBound' = cBound
      BY <1>h, <1>same, <2>f, <3>1, <3>2
    <3>3. CASE cBound' = cBound \cup {g} /\ g # 0 /\ \E t \in CServices : cService[t].generation = g
      <4>1. g \in CGenerations
        BY <1>0, <3>3
      <4>2. cBound' \subseteq CGenerations /\ CGenerations' = CGenerations /\ \E l \in Nat : DOMAIN cMade' = 1 .. l
        BY <1>h, <1>k, <3>3, <4>1 DEF CKnown, CGenerations
      <4> QED
        BY <1>h, <2>f, <3>1, <4>2 DEF CKnown
    <3> QED
      BY <2>3, <3>2, <3>3
  <2>4. /\ cService' \in [CServices -> CServiceState] /\ cBound' \in SUBSET Nat
        /\ \/ UNCHANGED <<cService, cBound>>
           \/ \E g \in {cRun.candidate, cRun.prior} :
                cBound' = cBound /\ \A t \in CServices : \/ cService'[t] = cService[t]
                                                       \/ cService'[t].generation \in {0, g}
           \/ \E g \in Nat :
                /\ \/ cBound' = cBound
                   \/ cBound' = cBound \cup {g} /\ g # 0 /\ \E t \in CServices : cService[t].generation = g
                /\ \A t \in CServices : cService'[t] = cService[t]
                                       \/ (cService'[t].generation = g /\ cService[t].generation = g)
    BY <1>h, HalfDoneEffect
  <2> QED
    BY <2>1, <2>2, <2>3, <2>4
<1>10. CASE CFirstFails
  <2>1. cRun' = CQuiet /\ UNCHANGED <<cMade, cRecord, cCompose>>
        /\ cJournal' = [cJournal EXCEPT !.phase = "failed-first-install"]
    BY <1>10 DEF CFirstFails, CEnds
  <2>2. cJournal'.candidate = cJournal.candidate /\ cJournal'.prior = cJournal.prior
    BY <2>1 DEF CTyped
  <2>3. CASE CHalfDone
    BY <1>0, <1>h, <2>1, <2>2, <2>3
  <2>4. CASE cService' = CCleanedUp /\ cBound' = cBound
    <3>1. \A t \in CServices : cService'[t].generation \in known
      BY <1>0, <2>4 DEF CCleanedUp, CAbsent
    <3> QED
      BY <1>0, <1>same, <2>1, <2>2, <2>4, <3>1
  <2> QED
    BY <1>10, <2>3, <2>4 DEF CFirstFails
<1>11. CASE CUpdateFails
  <2>1. CGoes("restore ordinary-ci") /\ "restore ordinary-ci" \in CStages /\ CHalfDone
        /\ UNCHANGED <<cMade, cRecord, cCompose, cJournal>>
    BY <1>11 DEF CUpdateFails, CStages
  <2> QED
    BY <1>0, <1>h, <1>stage, <2>1
<1>12. CASE CRetained \/ CDies
  BY <1>0, <1>h, <1>12 DEF CRetained, CDies, CEnds
<1> QED
  BY <1>1, <1>2, <1>3, <1>4, <1>6, <1>8, <1>9, <1>10, <1>11, <1>12
  DEF InstallNext, CInstalls, CRollsBack, CRollsForward, CFails

\* InstallInv holds initially and every step of the installer keeps it.
THEOREM InstallInductive ==
  InstallSpec => []InstallInv
<1>1. InstallInit => InstallInv /\ CKnown
  <2> SUFFICES ASSUME InstallInit PROVE InstallInv /\ CKnown
    OBVIOUS
  <2>1. cService \in [CServices -> CServiceState] /\ \A s \in CServices : cService[s] = CAbsent
    BY DEF InstallInit, CAbsent, CServiceState
  <2>2. DOMAIN cMade = 1 .. 0 /\ DOMAIN cMade = {}
    BY DEF InstallInit
  <2>3. CTyped /\ cRun.stage = "none"
    BY <2>1, <2>2, QuietRun, JournalKinds DEF InstallInit, CTyped
  <2>4. StateIsTrue
    BY <2>1 DEF InstallInit, StateIsTrue, UnjournaledIsWhole, ActiveIsRecorded, CAbsent, CRuns, CIsOf
  <2>5. CKnown
    BY <2>1, <2>2, <2>3 DEF InstallInit, CKnown, CAbsent, CQuiet, CNoJournal
  <2> QED
    BY <2>3, <2>4, <2>5 DEF InstallInv, CJournaled, CInstallSound, CRollbackSound, CForwardSound
<1>2. InstallInv /\ CKnown /\ [InstallNext]_cVars => InstallInv' /\ CKnown'
  <2> SUFFICES ASSUME InstallInv, CKnown, [InstallNext]_cVars PROVE InstallInv' /\ CKnown'
    OBVIOUS
  <2>1. CASE UNCHANGED cVars
    <3>1. CTyped' /\ CJournaled' /\ CKnown'
      BY <2>1 DEF InstallInv, CTyped, CJournaled, CKnown, CGenerations
    <3>2. CInstallSound'
      BY <2>1 DEF InstallInv, CInstallSound, CRuns, CIsOf, CNamed, CWhole, COrdinaryIs, CNativeIs
    <3>3. CRollbackSound'
      BY <2>1 DEF InstallInv, CRollbackSound, CNamed, COrdinaryIs, CNativeIs, CNativeOf
    <3>4. CForwardSound'
      BY <2>1 DEF InstallInv, CForwardSound, CRuns, CIsOf, CNamed, COrdinaryIs, CNativeIs
    <3>5. StateIsTrue'
      BY <2>1 DEF InstallInv, StateIsTrue, UnjournaledIsWhole, ActiveIsRecorded, CRuns, CIsOf, CNamed
    <3> QED
      BY <3>1, <3>2, <3>3, <3>4, <3>5 DEF InstallInv
  <2>2. CASE InstallNext
    <3>1. CKnown'
      BY <2>2, KnownStep DEF InstallInv
    <3>2. CASE (\E input \in CInputs : CInstall(input)) \/ CInstalls
      BY <3>1, <3>2, InstallSteps, DeploySteps, ActivationSteps DEF CInstalls
    <3>3. CASE CRollsBack \/ CRollForward \/ CRollsForward \/ CFails
      BY <3>1, <3>3, RollbackSteps, ForwardSteps, FailSteps
    <3> QED
      BY <2>2, <3>2, <3>3 DEF InstallNext
  <2> QED
    BY <2>1, <2>2
<1> QED
  BY <1>1, <1>2, PTL DEF InstallSpec

\* Whatever failed or died before, a reader of the state directory that finds no
\* transaction finds what runs; and a service is active only in a generation that record
\* and Compose file both name, or, while a rollback's journal still stands, as native Git
\* in the generation the journal goes back to (installControlPlane,
\* rollbackControlPlaneUpdate, rollForwardControlPlane, initializeNativeBundleRuntime).
THEOREM InstalledStateIsTrue ==
  InstallSpec => []StateIsTrue
<1>1. InstallInv => StateIsTrue
  BY DEF InstallInv
<1> QED
  BY <1>1, InstallInductive, PTL

-----------------------------------------------------------------------------
(***************************************************************************)
(* CLI runtime.                                                            *)
(***************************************************************************)

IManifests == [installed : SUBSET IPlugins, enabled : SUBSET IPlugins]
IRuns == [kind : {"none", "core", "plugin", "remove"}, stage : IStages, build : Nat, moved : Nat,
          promoted : BOOLEAN, restarted : BOOLEAN, ready : BOOLEAN, bundle : BOOLEAN, expose : BOOLEAN,
          snapshot : {"none", "absent", "managed", "foreign"}, plugins : SUBSET IPlugins]

\* k builds were made, and nothing names another.
ITyped(k) ==
  /\ iBuilds \in [1 .. k -> IManifests]
  /\ iCurrent \in 0 .. k /\ iConfig \in 0 .. k /\ iBackups \subseteq 1 .. k
  /\ iLink \in {"absent", "managed", "foreign"}
  /\ iRun \in IRuns

\* A backup alone is new enough: the current runtime may go.
IBackedUp == iConfig # 0 => \E b \in iBackups : b >= iConfig

\* What an installation has done so far, when k builds were made.
IRunSound(k) ==
  /\ iRun.stage \in {"aside", "promote", "restart", "link", "commit", "cleanup", "drop"} => iRun.build = k
  /\ iRun.stage \in {"stage", "aside"} => iRun.moved = 0
  /\ iRun.stage \in {"stage", "aside", "promote"} => ~iRun.promoted
  /\ iRun.stage \in {"restart", "link", "commit"} => iRun.promoted
  /\ iRun.stage = "promote" => iCurrent = 0
  /\ iRun.stage \in {"restart", "link", "commit", "cleanup", "drop"} => iCurrent = k
  /\ iRun.stage \in {"promote", "restart", "link", "commit", "drop"} => IBackedUp
  /\ iRun.stage = "cleanup" => iConfig = k
  /\ iRun.stage = "undo" /\ iRun.promoted => IBackedUp
  /\ iRun.stage = "undo" /\ iRun.moved # 0 => iRun.promoted \/ iCurrent = 0
  /\ iRun.stage = "back" /\ iRun.moved # 0 => iCurrent = 0
  /\ iRun.moved \in 0 .. k

RuntimeInv == IRuntimeSurvives /\ \E k \in Nat : ITyped(k) /\ IRunSound(k)

LEMMA IdleRun ==
  INo \in IRuns /\ INo.stage = "none" /\ INo.moved = 0 /\ ~INo.promoted
BY DEF INo, IRuns, IStages

LEMMA ManifestType ==
  ASSUME NEW k \in Nat, ITyped(k)
  PROVE  IManifest \in IManifests
<1>1. INoRuntime \in IManifests
  BY DEF INoRuntime, IManifests
<1>2. ASSUME iCurrent # 0 PROVE iBuilds[iCurrent] \in IManifests
  BY <1>2 DEF ITyped
<1> QED
  BY <1>1, <1>2 DEF IManifest

\* Between runs only the runtime itself has to be safe.
LEMMA RuntimeIdle ==
  ASSUME NEW k \in Nat, ITyped(k)', iRun' = INo, IRuntimeSurvives'
  PROVE  RuntimeInv'
<1>1. IRunSound(k)'
  BY IdleRun DEF IRunSound
<1> QED
  BY <1>1 DEF RuntimeInv

\* A run is started, or is not.
LEMMA StartsKeep ==
  ASSUME NEW k \in Nat, ITyped(k), IRuntimeSurvives,
         \/ \E expose, bundle \in BOOLEAN : IInstallCore(expose, bundle)
         \/ \E p \in IPlugins : IInstallPlugin(p)
  PROVE  RuntimeInv'
<1>0. UNCHANGED <<iBuilds, iCurrent, iBackups, iLink, iConfig>>
  BY DEF IInstallCore, IInstallPlugin, iHostVars
<1>1. IRuntimeSurvives'
  BY <1>0 DEF IRuntimeSurvives
<1>2. ASSUME iRun' = INo PROVE RuntimeInv'
  BY <1>0, <1>1, <1>2, IdleRun, RuntimeIdle DEF ITyped
<1>3. ASSUME iRun' \in IRuns, iRun'.stage = "stage", iRun'.moved = 0, ~iRun'.promoted PROVE RuntimeInv'
  <2>1. ITyped(k)'
    BY <1>0, <1>3 DEF ITyped
  <2>2. IRunSound(k)'
    BY <1>3 DEF IRunSound
  <2> QED
    BY <1>1, <2>1, <2>2 DEF RuntimeInv
<1>4. ASSUME NEW expose \in BOOLEAN, NEW bundle \in BOOLEAN, IInstallCore(expose, bundle) PROVE RuntimeInv'
  <2> DEFINE plugins == IManifest.enabled \cup IRequired
  <2>1. plugins \in SUBSET IPlugins
    BY ManifestType, RuntimeAssumption DEF IManifests
  <2> HIDE DEF plugins
  <2>2. CASE iRun' = INo
    BY <1>2, <2>2
  <2>3. CASE iRun' = [INo EXCEPT !.kind = "core", !.stage = "stage", !.expose = expose, !.bundle = bundle,
                                 !.plugins = plugins]
    <3>1. iRun' \in IRuns /\ iRun'.stage = "stage" /\ iRun'.moved = 0 /\ ~iRun'.promoted
      BY <2>1, <2>3 DEF INo, IRuns, IStages
    <3> QED
      BY <1>3, <3>1
  <2> QED
    BY <1>4, <2>2, <2>3 DEF IInstallCore, plugins
<1>5. ASSUME NEW p \in IPlugins, IInstallPlugin(p) PROVE RuntimeInv'
  <2>1. iRun' = [INo EXCEPT !.kind = "plugin", !.stage = "stage", !.plugins = {p}]
    BY <1>5 DEF IInstallPlugin
  <2>2. iRun' \in IRuns /\ iRun'.stage = "stage" /\ iRun'.moved = 0 /\ ~iRun'.promoted
    BY <2>1 DEF INo, IRuns, IStages
  <2> QED
    BY <1>3, <2>2
<1> QED
  BY <1>4, <1>5

\* The staged runtime is one more build.
LEMMA StageKeeps ==
  ASSUME NEW k \in Nat, ITyped(k), IRunSound(k), IRuntimeSurvives, IStage
  PROVE  RuntimeInv'
<1>1. IMade = k
  <2>1. DOMAIN iBuilds = 1 .. k
    BY DEF ITyped
  <2> QED
    BY <2>1, FS_Interval DEF IMade
<1>2. IStaged \in IManifests
  <2>1. IManifest \in IManifests /\ iRun.plugins \in SUBSET IPlugins
    BY ManifestType DEF ITyped, IRuns
  <2>2. CASE iRun.kind = "core"
    BY <2>1, <2>2, RuntimeAssumption DEF IStaged, IManifests
  <2>3. CASE iRun.kind # "core"
    BY <2>1, <2>3 DEF IStaged, IManifests
  <2> QED
    BY <2>2, <2>3
<1>3. k + 1 \in Nat /\ 1 .. (k + 1) = (1 .. k) \cup {k + 1}
  OBVIOUS
<1>4. iBuilds' = [b \in 1 .. (k + 1) |-> IF b = k + 1 THEN IStaged ELSE iBuilds[b]]
  BY <1>1 DEF IStage
<1>5. iBuilds' \in [1 .. (k + 1) -> IManifests]
  BY <1>2, <1>3, <1>4 DEF ITyped
<1>6. iRun.stage = "stage" /\ iRun' = [iRun EXCEPT !.stage = "aside", !.build = k + 1]
      /\ UNCHANGED <<iCurrent, iBackups, iLink, iConfig>>
  BY <1>1 DEF IStage, IAt, iHostVars
<1>7. iRun' \in IRuns /\ iRun'.stage = "aside" /\ iRun'.build = k + 1 /\ iRun'.moved = iRun.moved
      /\ iRun'.promoted = iRun.promoted
  BY <1>3, <1>6 DEF ITyped, IRuns, IStages
<1>8. ITyped(k + 1)'
  BY <1>3, <1>5, <1>6, <1>7 DEF ITyped
<1>9. IRunSound(k + 1)'
  BY <1>6, <1>7 DEF IRunSound
<1> QED
  BY <1>3, <1>6, <1>8, <1>9 DEF RuntimeInv, IRuntimeSurvives

\* Steps from the renames to the commit.
LEMMA PromotionKeeps ==
  ASSUME NEW k \in Nat, ITyped(k), IRunSound(k), IRuntimeSurvives,
         \/ IMoveAside \/ IPromote \/ IRestart \/ IRestartFails \/ ILink \/ ILinkFails \/ ICommit \/ IStepFails
  PROVE  RuntimeInv'
<1>0. iRun \in IRuns /\ iCurrent \in Nat /\ iConfig \in Nat /\ iCurrent \in 0 .. k /\ iConfig \in 0 .. k
      /\ iBackups \subseteq 1 .. k
  BY DEF ITyped
<1>1. CASE IMoveAside
  <2>1. iRun.stage = "aside" /\ iCurrent' = 0 /\ iBackups' = (IF iCurrent = 0 THEN iBackups ELSE iBackups \cup {iCurrent})
        /\ iRun' = [iRun EXCEPT !.stage = "promote", !.moved = iCurrent]
        /\ UNCHANGED <<iBuilds, iLink, iConfig>>
    BY <1>1 DEF IMoveAside, IAt, iHostVars
  <2>2. iRun' \in IRuns /\ iRun'.stage = "promote" /\ iRun'.build = iRun.build /\ iRun'.moved = iCurrent
        /\ iRun'.promoted = iRun.promoted
    BY <1>0, <2>1 DEF IRuns, IStages
  <2>3. iBackups' \subseteq 1 .. k
    BY <1>0, <2>1
  <2>4. IBackedUp'
    BY <1>0, <2>1 DEF IRuntimeSurvives, IBackedUp
  <2>5. ITyped(k)'
    BY <2>1, <2>2, <2>3 DEF ITyped
  <2>6. IRunSound(k)'
    BY <1>0, <2>1, <2>2, <2>4 DEF IRunSound
  <2>7. IRuntimeSurvives'
    BY <2>4 DEF IBackedUp, IRuntimeSurvives
  <2> QED
    BY <2>5, <2>6, <2>7 DEF RuntimeInv
<1>2. CASE IPromote
  <2>1. PICK restart \in BOOLEAN :
          iRun' = [iRun EXCEPT !.stage = IF restart THEN "restart" ELSE "link", !.promoted = TRUE]
    BY <1>2 DEF IPromote
  <2>2. PICK stage \in {"restart", "link"} : iRun' = [iRun EXCEPT !.stage = stage, !.promoted = TRUE]
    BY <2>1
  <2>3. iRun' \in IRuns /\ iRun'.stage \in {"restart", "link"} /\ iRun'.build = iRun.build
        /\ iRun'.moved = iRun.moved /\ iRun'.promoted
    BY <1>0, <2>2 DEF IRuns, IStages
  <2>4. iRun.stage = "promote" /\ iCurrent' = iRun.build /\ UNCHANGED <<iBuilds, iBackups, iLink, iConfig>>
    BY <1>2 DEF IPromote, IAt, iHostVars
  <2>5. iRun.build = k /\ IBackedUp
    BY <2>4 DEF IRunSound
  <2>6. IBackedUp'
    BY <2>4, <2>5 DEF IBackedUp
  <2>7. ITyped(k)'
    BY <2>3, <2>4, <2>5 DEF ITyped
  <2>8. IRunSound(k)'
    BY <2>3, <2>4, <2>5, <2>6 DEF IRunSound
  <2>9. IRuntimeSurvives'
    BY <2>6 DEF IBackedUp, IRuntimeSurvives
  <2> QED
    BY <2>7, <2>8, <2>9 DEF RuntimeInv
<1>a. ASSUME NEW stage \in {"restart", "link", "commit"}, NEW next \in {"link", "drop", "commit", "undo"},
             iRun.stage = stage, UNCHANGED <<iBuilds, iCurrent, iBackups, iConfig>>,
             iRun' \in IRuns, iRun'.stage = next, iRun'.build = iRun.build, iRun'.moved = iRun.moved,
             iRun'.promoted = iRun.promoted,
             iLink' \in {"absent", "managed", "foreign"}
      PROVE  RuntimeInv'
  <2>1. ITyped(k)'
    BY <1>a DEF ITyped
  <2>2. IBackedUp'
    BY <1>a DEF IRunSound, IBackedUp
  <2>3. IRunSound(k)'
    BY <1>a, <2>2 DEF IRunSound
  <2> QED
    BY <1>a, <2>1, <2>3 DEF RuntimeInv, IRuntimeSurvives
<1>3. CASE IRestart
  <2>1. PICK next \in {"link", "drop"} :
          iRun' = [iRun EXCEPT !.stage = next, !.restarted = TRUE, !.ready = TRUE]
    BY <1>3 DEF IRestart
  <2>2. iRun' \in IRuns /\ iRun'.stage = next /\ iRun'.build = iRun.build /\ iRun'.moved = iRun.moved
        /\ iRun'.promoted = iRun.promoted
    BY <1>0, <2>1 DEF IRuns, IStages
  <2>3. iRun.stage = "restart" /\ UNCHANGED <<iBuilds, iCurrent, iBackups, iLink, iConfig>>
    BY <1>3 DEF IRestart, IAt, iTreeVars
  <2> QED
    BY <1>a, <2>2, <2>3 DEF ITyped
<1>4. CASE IRestartFails
  <2>1. iRun' = [iRun EXCEPT !.stage = "undo", !.restarted = TRUE]
    BY <1>4 DEF IRestartFails
  <2>2. iRun' \in IRuns /\ iRun'.stage = "undo" /\ iRun'.build = iRun.build /\ iRun'.moved = iRun.moved
        /\ iRun'.promoted = iRun.promoted
    BY <1>0, <2>1 DEF IRuns, IStages
  <2>3. iRun.stage = "restart" /\ UNCHANGED <<iBuilds, iCurrent, iBackups, iLink, iConfig>>
    BY <1>4 DEF IRestartFails, IAt, iTreeVars
  <2> QED
    BY <1>a, <2>2, <2>3 DEF ITyped
<1>5. CASE ILink \/ ILinkFails
  <2>1. iRun.stage = "link" /\ UNCHANGED <<iBuilds, iCurrent, iBackups, iConfig>>
        /\ iLink' \in {"absent", "managed", "foreign"}
    BY <1>5 DEF ILink, ILinkFails, IAt, iTreeVars, iHostVars, ITyped
  <2>2. PICK next \in {"commit", "undo"} : \/ iRun' = [iRun EXCEPT !.stage = next]
                                           \/ iRun' = [iRun EXCEPT !.stage = next, !.snapshot = iLink]
    BY <1>5 DEF ILink, ILinkFails, IGoes
  <2>3. iRun' \in IRuns /\ iRun'.stage = next /\ iRun'.build = iRun.build /\ iRun'.moved = iRun.moved
        /\ iRun'.promoted = iRun.promoted
    <3>1. CASE iRun' = [iRun EXCEPT !.stage = next]
      BY <1>0, <3>1 DEF IRuns, IStages
    <3>2. CASE iRun' = [iRun EXCEPT !.stage = next, !.snapshot = iLink]
      <4>1. iLink \in {"none", "absent", "managed", "foreign"}
        BY DEF ITyped
      <4> QED
        BY <1>0, <3>2, <4>1 DEF IRuns, IStages
    <3> QED
      BY <2>2, <3>1, <3>2
  <2> QED
    BY <1>a, <2>1, <2>3
<1>6. CASE ICommit
  <2>1. iRun.stage = "commit" /\ iConfig' = iRun.build /\ iRun' = [iRun EXCEPT !.stage = "cleanup"]
        /\ UNCHANGED <<iBuilds, iCurrent, iBackups, iLink>>
    BY <1>6 DEF ICommit, IAt, IGoes, iTreeVars
  <2>2. iRun' \in IRuns /\ iRun'.stage = "cleanup" /\ iRun'.build = iRun.build /\ iRun'.moved = iRun.moved
    BY <1>0, <2>1 DEF IRuns, IStages
  <2>3. iRun.build = k /\ iCurrent = k
    BY <2>1 DEF IRunSound
  <2>4. ITyped(k)'
    BY <2>1, <2>2, <2>3 DEF ITyped
  <2>5. IRunSound(k)'
    BY <2>1, <2>2, <2>3 DEF IRunSound
  <2>6. IRuntimeSurvives'
    BY <2>1, <2>3 DEF IRuntimeSurvives
  <2> QED
    BY <2>4, <2>5, <2>6 DEF RuntimeInv
<1>7. CASE IStepFails
  <2>1. iRun.stage \in {"stage", "aside", "promote", "commit"} /\ iRun' = [iRun EXCEPT !.stage = "undo"]
        /\ UNCHANGED <<iBuilds, iCurrent, iBackups, iLink, iConfig>>
    BY <1>7 DEF IStepFails, IGoes, iTreeVars, iHostVars
  <2>2. iRun' \in IRuns /\ iRun'.stage = "undo" /\ iRun'.build = iRun.build /\ iRun'.moved = iRun.moved
        /\ iRun'.promoted = iRun.promoted
    BY <1>0, <2>1 DEF IRuns, IStages
  <2>3. ITyped(k)'
    BY <2>1, <2>2 DEF ITyped
  <2>4. iRun.promoted => IBackedUp'
    BY <2>1 DEF IRunSound, IBackedUp
  <2>5. IRunSound(k)'
    BY <2>1, <2>2, <2>4 DEF IRunSound
  <2> QED
    BY <2>1, <2>3, <2>5 DEF RuntimeInv, IRuntimeSurvives
<1> QED
  BY <1>1, <1>2, <1>3, <1>4, <1>5, <1>6, <1>7

\* A run that ends: cleaned up, dropped, undone, or dead.
LEMMA EndsKeep ==
  ASSUME NEW k \in Nat, ITyped(k), IRunSound(k), IRuntimeSurvives,
         ICleanup \/ IDrop \/ IUndoFails \/ IReturn \/ IReturnFails \/ IDies
  PROVE  RuntimeInv'
<1>0. iCurrent \in 0 .. k /\ iConfig \in 0 .. k /\ iBackups \subseteq 1 .. k
  BY DEF ITyped
<1>1. ASSUME iRun' = INo, UNCHANGED <<iBuilds, iCurrent, iLink, iConfig>>, iBackups' \subseteq iBackups,
             iCurrent >= iConfig \/ iBackups' = iBackups
      PROVE  RuntimeInv'
  <2>1. ITyped(k)'
    BY <1>1, IdleRun DEF ITyped
  <2>2. IRuntimeSurvives'
    BY <1>1 DEF IRuntimeSurvives
  <2> QED
    BY <1>1, <2>1, <2>2, RuntimeIdle
<1>2. CASE ICleanup
  <2>1. iRun.stage = "cleanup" /\ iRun' = INo /\ iBackups' = {} /\ UNCHANGED <<iBuilds, iCurrent, iLink, iConfig>>
    BY <1>2 DEF ICleanup, IAt, iHostVars
  <2>2. iCurrent >= iConfig
    BY <1>0, <2>1 DEF IRunSound
  <2> QED
    BY <1>1, <2>1, <2>2
<1>3. CASE IDrop
  <2>1. iRun.stage = "drop" /\ iRun' = INo /\ iBackups' \subseteq iBackups
        /\ UNCHANGED <<iBuilds, iCurrent, iLink, iConfig>>
    BY <1>3 DEF IDrop, IAt, iHostVars
  <2>2. iCurrent >= iConfig
    BY <1>0, <2>1 DEF IRunSound
  <2> QED
    BY <1>1, <2>1, <2>2
<1>4. CASE IUndoFails \/ IReturn \/ IReturnFails \/ IDies
  <2>1. iRun' = INo /\ UNCHANGED <<iBuilds, iCurrent, iBackups, iLink, iConfig>>
    BY <1>4 DEF IUndoFails, IReturn, IReturnFails, IDies, iHostVars, iTreeVars
  <2> QED
    BY <1>1, <2>1
<1> QED
  BY <1>2, <1>3, <1>4

\* The way back.
LEMMA UndoKeeps ==
  ASSUME NEW k \in Nat, ITyped(k), IRunSound(k), IRuntimeSurvives,
         IUndo \/ IPutBack \/ IUnlink
  PROVE  RuntimeInv'
<1>0. iRun \in IRuns /\ iCurrent \in 0 .. k /\ iConfig \in 0 .. k /\ iBackups \subseteq 1 .. k
      /\ iRun.moved \in 0 .. k
  BY DEF ITyped, IRunSound
<1>1. CASE IUndo
  <2>1. iRun.stage = "undo" /\ iCurrent' = (IF iRun.promoted THEN 0 ELSE iCurrent)
        /\ iRun' = [iRun EXCEPT !.stage = "back"] /\ UNCHANGED <<iBuilds, iBackups, iLink, iConfig>>
    BY <1>1 DEF IUndo, IAt, IGoes
  <2>2. iRun' \in IRuns /\ iRun'.stage = "back" /\ iRun'.moved = iRun.moved
    BY <1>0, <2>1 DEF IRuns, IStages
  <2>3. ITyped(k)'
    BY <1>0, <2>1, <2>2 DEF ITyped
  <2>4. IRunSound(k)'
    BY <1>0, <2>1, <2>2 DEF IRunSound
  <2>5. IRuntimeSurvives'
    BY <2>1 DEF IRuntimeSurvives, IRunSound, IBackedUp
  <2> QED
    BY <2>3, <2>4, <2>5 DEF RuntimeInv
<1>2. CASE IPutBack
  <2>1. iRun.stage = "back" /\ iCurrent' = (IF iRun.moved # 0 THEN iRun.moved ELSE iCurrent)
        /\ iBackups' = iBackups \ {iRun.moved}
        /\ iRun' = [iRun EXCEPT !.stage = "unlink"] /\ UNCHANGED <<iBuilds, iLink, iConfig>>
    BY <1>2 DEF IPutBack, IAt, IGoes, iHostVars
  <2>2. iRun' \in IRuns /\ iRun'.stage = "unlink" /\ iRun'.moved = iRun.moved
    BY <1>0, <2>1 DEF IRuns, IStages
  <2>3. ITyped(k)'
    BY <1>0, <2>1, <2>2 DEF ITyped
  <2>4. IRunSound(k)'
    BY <1>0, <2>1, <2>2 DEF IRunSound
  <2>5. IRuntimeSurvives'
    <3> SUFFICES ASSUME iConfig # 0 PROVE \E b \in iBackups' \cup {iCurrent'} : b >= iConfig
      BY <2>1 DEF IRuntimeSurvives
    <3>1. PICK b \in iBackups \cup {iCurrent} : b >= iConfig
      BY DEF IRuntimeSurvives
    <3>2. b # 0
      BY <1>0, <3>1
    <3>3. CASE iRun.moved = 0
      BY <2>1, <3>1, <3>2, <3>3
    <3>4. CASE iRun.moved # 0
      <4>1. iCurrent = 0
        BY <2>1, <3>4 DEF IRunSound
      <4> QED
        BY <2>1, <3>1, <3>2, <3>4, <4>1
    <3> QED
      BY <3>3, <3>4
  <2> QED
    BY <2>3, <2>4, <2>5 DEF RuntimeInv
<1>3. CASE IUnlink
  <2>1. UNCHANGED <<iBuilds, iCurrent, iBackups, iConfig>>
        /\ iLink' = (IF iRun.snapshot = "none" THEN iLink ELSE iRun.snapshot)
    BY <1>3 DEF IUnlink, iTreeVars
  <2>2. PICK next \in {"thrown", "return"} : iRun' = [iRun EXCEPT !.stage = next]
    BY <1>3 DEF IUnlink, IGoes
  <2>3. iRun' \in IRuns /\ iRun'.stage = next /\ iRun'.moved = iRun.moved
    BY <1>0, <2>2 DEF IRuns, IStages
  <2>4. iRun.snapshot \in {"none", "absent", "managed", "foreign"}
    BY <1>0 DEF IRuns
  <2>5. ITyped(k)'
    BY <2>1, <2>3, <2>4 DEF ITyped
  <2>6. IRunSound(k)'
    BY <1>0, <2>3 DEF IRunSound
  <2> QED
    BY <2>1, <2>5, <2>6 DEF RuntimeInv, IRuntimeSurvives
<1> QED
  BY <1>1, <1>2, <1>3

\* The commands that change plugins of the current runtime in place.
LEMMA PluginsKeep ==
  ASSUME NEW k \in Nat, ITyped(k), IRunSound(k), IRuntimeSurvives,
         \/ \E p \in IPlugins, enabled \in BOOLEAN : ISetEnabled(p, enabled)
         \/ \E p \in IPlugins : IRemovePlugin(p)
         \/ IForget
  PROVE  RuntimeInv'
<1>0. iBuilds \in [1 .. k -> IManifests] /\ iCurrent \in 0 .. k
  BY DEF ITyped
<1>1. UNCHANGED <<iCurrent, iBackups, iLink, iConfig>>
  BY DEF ISetEnabled, IRemovePlugin, IForget, iHostVars
<1>2. IRuntimeSurvives'
  BY <1>1 DEF IRuntimeSurvives
<1>s. ASSUME NEW v, (iCurrent \in 1 .. k) => v \in IManifests, iBuilds' = [iBuilds EXCEPT ![iCurrent] = v]
      PROVE  iBuilds' \in [1 .. k -> IManifests]
  BY <1>0, <1>s
<1>m. ASSUME iCurrent \in 1 .. k
      PROVE  iBuilds[iCurrent] \in IManifests
  BY <1>0, <1>m
<1>3. ASSUME NEW p \in IPlugins, NEW enabled \in BOOLEAN, ISetEnabled(p, enabled) PROVE RuntimeInv'
  <2> DEFINE m == iBuilds[iCurrent]
             v == [m EXCEPT !.enabled = IF enabled THEN m.enabled \cup {p} ELSE m.enabled \ {p}]
  <2>1. iBuilds' = [iBuilds EXCEPT ![iCurrent] = v]
    BY <1>3 DEF ISetEnabled
  <2>2. (iCurrent \in 1 .. k) => v \in IManifests
    BY <1>m DEF IManifests
  <2> HIDE DEF v
  <2>3. iBuilds' \in [1 .. k -> IManifests]
    BY <1>s, <2>1, <2>2
  <2>4. iRun' = INo
    BY <1>3 DEF ISetEnabled, IStarts
  <2>5. ITyped(k)'
    BY <1>1, <2>3, <2>4, IdleRun DEF ITyped
  <2> QED
    BY <1>2, <2>4, <2>5, RuntimeIdle
<1>4. ASSUME NEW p \in IPlugins, IRemovePlugin(p) PROVE RuntimeInv'
  <2> DEFINE m == iBuilds[iCurrent]
             v == [m EXCEPT !.installed = m.installed \ {p}]
  <2>1. iBuilds' = [iBuilds EXCEPT ![iCurrent] = v]
    BY <1>4 DEF IRemovePlugin
  <2>2. (iCurrent \in 1 .. k) => v \in IManifests
    BY <1>m DEF IManifests
  <2> HIDE DEF v
  <2>3. iBuilds' \in [1 .. k -> IManifests]
    BY <1>s, <2>1, <2>2
  <2>4. iRun' = [INo EXCEPT !.kind = "remove", !.stage = "manifest", !.plugins = {p}]
    BY <1>4 DEF IRemovePlugin
  <2>5. iRun' \in IRuns /\ iRun'.stage = "manifest" /\ iRun'.moved = 0
    BY <2>4 DEF INo, IRuns, IStages
  <2>6. ITyped(k)'
    BY <1>1, <2>3, <2>5 DEF ITyped
  <2>7. IRunSound(k)'
    BY <2>5 DEF IRunSound
  <2> QED
    BY <1>2, <2>6, <2>7 DEF RuntimeInv
<1>5. CASE IForget
  <2> DEFINE m == iBuilds[iCurrent]
             v == [m EXCEPT !.enabled = m.enabled \ iRun.plugins]
  <2>1. iBuilds' = [iBuilds EXCEPT ![iCurrent] = v]
    BY <1>5 DEF IForget
  <2>2. (iCurrent \in 1 .. k) => v \in IManifests
    BY <1>m DEF IManifests
  <2> HIDE DEF v
  <2>3. iBuilds' \in [1 .. k -> IManifests]
    BY <1>s, <2>1, <2>2
  <2>4. iRun' = INo
    BY <1>5 DEF IForget
  <2>5. ITyped(k)'
    BY <1>1, <2>3, <2>4, IdleRun DEF ITyped
  <2> QED
    BY <1>2, <2>4, <2>5, RuntimeIdle
<1> QED
  BY <1>3, <1>4, <1>5

\* RuntimeInv holds initially and every step of the installer keeps it.
THEOREM RuntimeInductive ==
  RuntimeSpec => []RuntimeInv
<1>1. IInit => RuntimeInv
  <2> SUFFICES ASSUME IInit PROVE RuntimeInv
    OBVIOUS
  <2>1. iBuilds \in [1 .. 0 -> IManifests]
    BY DEF IInit
  <2>2. ITyped(0)
    BY <2>1, IdleRun DEF IInit, ITyped
  <2>3. IRunSound(0)
    BY IdleRun DEF IInit, IRunSound
  <2> QED
    BY <2>2, <2>3 DEF RuntimeInv, IInit, IRuntimeSurvives
<1>2. RuntimeInv /\ [RuntimeNext]_iVars => RuntimeInv'
  <2> SUFFICES ASSUME RuntimeInv, [RuntimeNext]_iVars PROVE RuntimeInv'
    OBVIOUS
  <2>1. PICK k \in Nat : ITyped(k) /\ IRunSound(k) /\ IRuntimeSurvives
    BY DEF RuntimeInv
  <2>2. CASE UNCHANGED iVars
    <3>1. ITyped(k)' /\ IRunSound(k)'
      BY <2>1, <2>2 DEF iVars, ITyped, IRunSound, IBackedUp
    <3> QED
      BY <2>1, <2>2, <3>1 DEF iVars, RuntimeInv, IRuntimeSurvives
  <2>3. CASE RuntimeNext
    BY <2>1, <2>3, StartsKeep, StageKeeps, PromotionKeeps, EndsKeep, UndoKeeps, PluginsKeep DEF RuntimeNext
  <2> QED
    BY <2>2, <2>3
<1> QED
  BY <1>1, <1>2, PTL DEF RuntimeSpec

\* Once a runtime was committed, one at least as new is in place or in a backup,
\* through failures, rollbacks and deaths at any step (installDimCli, installPlugins,
\* cleanupRuntimeSiblings).
THEOREM RuntimeSurvives ==
  RuntimeSpec => []IRuntimeSurvives
<1>1. RuntimeInv => IRuntimeSurvives
  BY DEF RuntimeInv
<1> QED
  BY <1>1, RuntimeInductive, PTL

=============================================================================
