------------------------- MODULE NativeService_proofs -------------------------
(***************************************************************************)
(* Machine-checked proofs about two parts of the installed native Git      *)
(* service that hold the storage: the transport leases with the shutdown   *)
(* (TransportLeases), for every set of clients and every size of the gate, *)
(* and the record files (RecordFiles), for every number of records, saves, *)
(* failures and crashes.                                                   *)
(***************************************************************************)
EXTENDS TransportLeases, RecordFiles, FiniteSetTheorems, SequenceTheorems, TLAPS

-----------------------------------------------------------------------------
(***************************************************************************)
(* Transport leases.  The gate counts operations and does not name them:   *)
(* that a drained gate means a quiet storage rests on the count being the  *)
(* number of clients whose request is at work on the storage.              *)
(***************************************************************************)

\* A request that holds a place of the gate.
THolds(c) ==
  \/ tStage[c] \in {"leasing", "proving", "refs"}
  \/ tStage[c] = "backend" /\ c \notin TCandidates
THolders == {c \in TClients : THolds(c)}

\* Once admission has stopped, no Git request that is still to be served has a
\* live lease: its lease was cleared, and its client issues no other meanwhile.
TNoLateLease ==
  tShutdown # "serving" =>
    \A c \in TClients : tStage[c] \in {"git queued", "proving"} /\ c \notin TCandidates
                          => tLease[c] # "live"

TransportInv ==
  /\ TransportTypeOK
  /\ IsFiniteSet(THolders) /\ tActive = Cardinality(THolders)
  /\ tOpen <=> tShutdown \in {"serving", "dispatcher"}
  /\ tShutdown \in {"closing", "released"} => THolders = {}
  /\ TNoLateLease

USE DEF tVars

\* What a step does to the stage of one client and to the gate.
TStays == UNCHANGED <<tStage, tActive>>
TTakes(c) ==
  /\ ~THolds(c) /\ THolds(c)' /\ tOpen /\ tActive < TOperations /\ tActive' = tActive + 1
TGives(c) == THolds(c) /\ ~THolds(c)' /\ tActive' = tActive - 1
TKeeps(c) == (THolds(c) <=> THolds(c)') /\ UNCHANGED tActive
TOthers(c) == \A d \in TClients : d # c => tStage'[d] = tStage[d]

LEMMA GoesEffect ==
  ASSUME TransportTypeOK, NEW c \in TClients, NEW g, TGoes(c, g)
  PROVE  tStage'[c] = g /\ TOthers(c)
BY DEF TransportTypeOK, TGoes, TOthers

\* Every step moves the request of at most one client, and the count with it.
LEMMA TransportMoves ==
  ASSUME TransportTypeOK, [TransportNext]_tVars
  PROVE  \/ TStays
         \/ \E c \in TClients : TOthers(c) /\ (TTakes(c) \/ TGives(c) \/ TKeeps(c))
<1> DEFINE Goal == \E c \in TClients : TOthers(c) /\ (TTakes(c) \/ TGives(c) \/ TKeeps(c))
<1>1. ASSUME NEW c \in TClients, NEW g \in {"leasing", "proving"}, TAdmits(c, g), tStage[c] = "idle"
      PROVE  TStays \/ Goal
  <2>1. CASE TPlace /\ tActive' = tActive + 1 /\ TGoes(c, g)
    BY <1>1, <2>1, GoesEffect DEF TPlace, TTakes, THolds
  <2>2. ASSUME NEW q \in {"lease queued", "git queued"}, TGoes(c, q), UNCHANGED tActive PROVE Goal
    BY <1>1, <2>2, GoesEffect DEF TKeeps, THolds
  <2> QED
    BY <1>1, <2>1, <2>2 DEF TAdmits, TStays
<1>2. ASSUME NEW c \in TClients, TReleases(c), NEW g, TGoes(c, g), THolds(c),
             g = "idle" \/ (g = "backend" /\ c \in TCandidates)
      PROVE  Goal
  BY <1>2, GoesEffect DEF TReleases, TGives, THolds
<1>3. ASSUME NEW c \in TClients, TransportStep(c) PROVE TStays \/ Goal
  <2>1. CASE TAskLease(c) \/ TAskGit(c)
    BY <1>1, <2>1 DEF TAskLease, TAskGit, TArrives
  <2>2. CASE TRun(c)
    <3>1. ASSUME TPlace, tActive' = tActive + 1, NEW g \in {"leasing", "proving"}, TGoes(c, g) PROVE Goal
      BY <2>2, <3>1, GoesEffect DEF TRun, TPlace, TTakes, THolds
    <3>2. CASE TGoes(c, "idle") /\ UNCHANGED tActive
      <4>1. tStage'[c] = "idle" /\ tStage[c] \in {"lease queued", "git queued"} /\ TOthers(c)
        BY <2>2, <3>2, GoesEffect DEF TRun
      <4>2. TKeeps(c)
        BY <3>2, <4>1 DEF TKeeps, THolds
      <4> QED
        BY <4>1, <4>2
    <3> QED
      BY <2>2, <3>1, <3>2 DEF TRun
  <2>3. CASE TIssue(c) \/ TIssueCandidate(c) \/ TProofFails(c) \/ TServeCandidate(c)
    BY <1>2, <2>3 DEF TIssue, TIssueCandidate, TProofFails, TServeCandidate, THolds
  <2>4. CASE TServe(c)
    <3>1. ASSUME NEW g \in {"refs", "backend"}, TGoes(c, g), UNCHANGED tActive PROVE Goal
      BY <2>4, <3>1, GoesEffect DEF TServe, TKeeps, THolds
    <3> QED
      BY <1>2, <2>4, <3>1 DEF TServe, THolds
  <2>5. CASE TBackendEnds(c)
    <3>1. CASE c \in TCandidates
      BY <2>5, <3>1, GoesEffect DEF TBackendEnds, TKeeps, THolds
    <3> QED
      BY <1>2, <2>5, <3>1 DEF TBackendEnds, THolds
  <2>6. CASE TReadRefs(c)
    <3>0. c \notin TCandidates
      BY <2>6, TransportAssumption DEF TReadRefs
    <3>1. CASE TGoes(c, "backend") /\ UNCHANGED tActive
      BY <2>6, <3>0, <3>1, GoesEffect DEF TReadRefs, TKeeps, THolds
    <3> QED
      BY <1>2, <2>6, <3>0, <3>1 DEF TReadRefs, THolds
  <2> QED
    BY <1>3, <2>1, <2>2, <2>3, <2>4, <2>5, <2>6 DEF TransportStep, TExpire, TStays
<1> QED
  BY <1>3 DEF TransportNext, TStopAdmission, TCloseGate, TDrain, TRelease, TStays

\* The count stays the number of the holders.
LEMMA HoldersStep ==
  ASSUME TransportInv, [TransportNext]_tVars
  PROVE  /\ IsFiniteSet(THolders') /\ tActive' = Cardinality(THolders') /\ tActive' \in 0 .. TOperations
         /\ \A c \in THolders' : c \in THolders \/ tOpen
<1>0. /\ TransportTypeOK /\ IsFiniteSet(THolders) /\ tActive = Cardinality(THolders)
      /\ TOperations \in Nat \ {0} /\ tActive \in 0 .. TOperations
  BY TransportAssumption DEF TransportInv, TransportTypeOK
<1>1. CASE TStays
  BY <1>0, <1>1 DEF TStays, THolders, THolds
<1>2. ASSUME NEW c \in TClients, TOthers(c), TTakes(c)
      PROVE  /\ IsFiniteSet(THolders') /\ tActive' = Cardinality(THolders')
             /\ tActive' \in 0 .. TOperations /\ tOpen
  <2>1. THolders' = THolders \cup {c} /\ c \notin THolders
    BY <1>2 DEF TOthers, TTakes, THolders, THolds
  <2> QED
    BY <1>0, <1>2, <2>1, FS_AddElement DEF TTakes
<1>3. ASSUME NEW c \in TClients, TOthers(c), TGives(c)
      PROVE  /\ IsFiniteSet(THolders') /\ tActive' = Cardinality(THolders')
             /\ tActive' \in 0 .. TOperations /\ THolders' \subseteq THolders
  <2>1. THolders' = THolders \ {c} /\ c \in THolders
    BY <1>3 DEF TOthers, TGives, THolders, THolds
  <2>2. IsFiniteSet(THolders') /\ Cardinality(THolders') = tActive - 1
    BY <1>0, <2>1, FS_RemoveElement
  <2>3. Cardinality(THolders') \in Nat
    BY <2>2, FS_CardinalityType
  <2> QED
    BY <1>0, <1>3, <2>1, <2>2, <2>3 DEF TGives
<1>4. ASSUME NEW c \in TClients, TOthers(c), TKeeps(c)
      PROVE  THolders' = THolders /\ tActive' = tActive
  BY <1>4 DEF TOthers, TKeeps, THolders, THolds
<1> QED
  BY <1>0, <1>1, <1>2, <1>3, <1>4, TransportMoves

LEMMA TransportTypes ==
  ASSUME TransportInv, [TransportNext]_tVars
  PROVE  TransportTypeOK'
<1>0. TransportTypeOK /\ tActive' \in 0 .. TOperations /\ TMaxRequests \in Nat
  BY HoldersStep, TransportAssumption DEF TransportInv
<1> DEFINE Stages == {"idle", "lease queued", "git queued", "leasing", "proving", "refs", "backend"}
           Fits == tStage' \in [TClients -> Stages]
<1>1. ASSUME NEW c \in TClients, NEW g \in Stages, TGoes(c, g) PROVE Fits
  BY <1>0, <1>1 DEF TransportTypeOK, TGoes
<1>2. ASSUME NEW c \in TClients, TransportStep(c) PROVE Fits
  BY <1>0, <1>1, <1>2 DEF TransportStep, TAskLease, TAskGit, TAdmits, TRun, TIssue, TIssueCandidate,
     TProofFails, TServe, TReadRefs, TServeCandidate, TBackendEnds, TExpire, TransportTypeOK
<1>3. Fits
  BY <1>0, <1>2 DEF TransportNext, TStopAdmission, TCloseGate, TDrain, TRelease, TransportTypeOK
<1>4. tQueue' \in Seq(TClients)
  <2>1. ASSUME NEW c \in TClients, TransportStep(c) PROVE tQueue' \in Seq(TClients)
    <3>1. tQueue \in Seq(TClients) /\ (tQueue # <<>> => Tail(tQueue) \in Seq(TClients))
          /\ Append(tQueue, c) \in Seq(TClients)
      BY <1>0, HeadTailProperties, AppendProperties DEF TransportTypeOK
    <3> QED
      BY <2>1, <3>1 DEF TransportStep, TAskLease, TAskGit, TAdmits, TRun, TIssue, TIssueCandidate,
         TProofFails, TReleases, TServe, TReadRefs, TServeCandidate, TBackendEnds, TExpire
  <2> QED
    BY <1>0, <2>1 DEF TransportNext, TStopAdmission, TCloseGate, TDrain, TRelease, TransportTypeOK
<1>5. tLease' \in [TClients -> {"none", "live", "expired"}]
  <2>1. ASSUME NEW c \in TClients, TransportStep(c)
        PROVE  \/ UNCHANGED tLease \/ tLease' = [tLease EXCEPT ![c] = "live"]
               \/ tLease' = [tLease EXCEPT ![c] = "expired"]
    BY <2>1 DEF TransportStep, TAskLease, TAskGit, TRun, TIssue, TIssued, TIssueCandidate,
       TProofFails, TServe, TReadRefs, TServeCandidate, TBackendEnds, TExpire
  <2> QED
    BY <1>0, <2>1 DEF TransportNext, TStopAdmission, TCloseGate, TDrain, TRelease, TransportTypeOK
<1>6. tRequests' \in [TClients -> 0 .. TMaxRequests]
  <2>1. ASSUME NEW c \in TClients, TransportStep(c) PROVE tRequests' \in [TClients -> 0 .. TMaxRequests]
    <3>1. UNCHANGED tRequests \/ (tRequests[c] < TMaxRequests /\ tRequests' = [tRequests EXCEPT ![c] = @ + 1])
      BY <2>1 DEF TransportStep, TAskLease, TAskGit, TArrives, TRun, TIssue, TIssueCandidate,
         TProofFails, TServe, TReadRefs, TServeCandidate, TBackendEnds, TExpire
    <3>2. tRequests[c] \in 0 .. TMaxRequests
      BY <1>0 DEF TransportTypeOK
    <3>3. tRequests[c] < TMaxRequests => tRequests[c] + 1 \in 0 .. TMaxRequests
      BY <1>0, <3>2
    <3> QED
      BY <1>0, <3>1, <3>3 DEF TransportTypeOK
  <2> QED
    BY <1>0, <2>1 DEF TransportNext, TStopAdmission, TCloseGate, TDrain, TRelease, TransportTypeOK
<1>7. tShutdown' \in {"serving", "dispatcher", "draining", "closing", "released"} /\ tOpen' \in BOOLEAN
  BY <1>0 DEF TransportNext, TransportStep, TAskLease, TAskGit, TRun, TIssue, TIssueCandidate,
     TProofFails, TServe, TReadRefs, TServeCandidate, TBackendEnds, TExpire, TStopAdmission, TCloseGate,
     TDrain, TRelease, TransportTypeOK
<1> QED
  BY <1>0, <1>3, <1>4, <1>5, <1>6, <1>7 DEF TransportTypeOK

\* The step of a client touches no other client's lease or request.
LEMMA ClientAlone ==
  ASSUME TransportTypeOK, NEW c \in TClients, TransportStep(c), NEW d \in TClients, d # c
  PROVE  tLease'[d] = tLease[d] /\ tStage'[d] = tStage[d]
<1>1. \/ UNCHANGED tLease \/ tLease' = [tLease EXCEPT ![c] = "live"]
      \/ tLease' = [tLease EXCEPT ![c] = "expired"]
  BY DEF TransportStep, TAskLease, TAskGit, TRun, TIssue, TIssued, TIssueCandidate,
     TProofFails, TServe, TReadRefs, TServeCandidate, TBackendEnds, TExpire
<1>2. UNCHANGED tStage \/ \E g : TGoes(c, g)
  BY DEF TransportStep, TAskLease, TAskGit, TAdmits, TRun, TIssue, TIssueCandidate,
     TProofFails, TServe, TReadRefs, TServeCandidate, TBackendEnds, TExpire
<1> QED
  BY <1>1, <1>2 DEF TGoes, TransportTypeOK

LEMMA NoLateLeaseStep ==
  ASSUME TransportInv, [TransportNext]_tVars
  PROVE  TNoLateLease'
<1>0. TransportTypeOK /\ TNoLateLease
  BY DEF TransportInv
<1> SUFFICES ASSUME tShutdown' # "serving", NEW c \in TClients, c \notin TCandidates,
                    tStage'[c] \in {"git queued", "proving"}
             PROVE  tLease'[c] # "live"
  BY DEF TNoLateLease
<1>1. CASE TStopAdmission
  BY <1>1 DEF TStopAdmission
<1>2. ASSUME NEW d \in TClients, TransportStep(d) PROVE tLease'[c] # "live"
  <2>1. tShutdown # "serving"
    BY <1>2 DEF TransportStep, TAskLease, TAskGit, TRun, TIssue, TIssueCandidate,
       TProofFails, TServe, TReadRefs, TServeCandidate, TBackendEnds, TExpire
  <2>2. CASE d # c
    BY <1>0, <1>2, <2>1, <2>2, ClientAlone DEF TNoLateLease
  <2>3. CASE d = c
    <3>1. CASE TRun(c)
      <4>1. CASE tStage[c] = "git queued"
        BY <1>0, <2>1, <3>1, <4>1 DEF TRun, TNoLateLease
      <4>2. CASE tStage[c] = "lease queued"
        <5>1. tStage'[c] \in {"leasing", "idle"}
          BY <1>0, <3>1, <4>2, GoesEffect DEF TRun
        <5> QED
          BY <5>1
      <4> QED
        BY <3>1, <4>1, <4>2 DEF TRun
    <3>2. CASE TGoes(c, "idle") \/ TGoes(c, "backend") \/ TGoes(c, "refs")
      <4>1. tStage'[c] \in {"idle", "backend", "refs"}
        BY <1>0, <3>2 DEF TGoes, TransportTypeOK
      <4> QED
        BY <4>1
    <3>3. CASE TExpire(c)
      BY <1>0, <3>3 DEF TExpire, TransportTypeOK
    <3>4. ~TArrives(c)
      BY <2>1 DEF TArrives, TClosed
    <3> QED
      BY <1>2, <2>3, <3>1, <3>2, <3>3, <3>4 DEF TransportStep, TAskLease, TAskGit,
         TIssue, TIssueCandidate, TProofFails, TServe, TReadRefs, TServeCandidate, TBackendEnds
  <2> QED
    BY <2>2, <2>3
<1>3. CASE UNCHANGED <<tStage, tLease>> /\ tShutdown # "serving"
  BY <1>0, <1>3 DEF TNoLateLease
<1> QED
  BY <1>1, <1>2, <1>3 DEF TransportNext, TCloseGate, TDrain, TRelease

LEMMA TransportInductive ==
  ASSUME TransportInv, [TransportNext]_tVars
  PROVE  TransportInv'
<1>0. TransportTypeOK /\ (tOpen <=> tShutdown \in {"serving", "dispatcher"})
  BY DEF TransportInv
<1>1. ASSUME NEW c \in TClients, TransportStep(c) PROVE UNCHANGED <<tShutdown, tOpen>>
  BY <1>1 DEF TransportStep, TAskLease, TAskGit, TRun, TIssue, TIssueCandidate,
     TProofFails, TServe, TReadRefs, TServeCandidate, TBackendEnds, TExpire
<1>2. tOpen' <=> tShutdown' \in {"serving", "dispatcher"}
  <2>1. CASE UNCHANGED <<tShutdown, tOpen>>
    BY <1>0, <2>1
  <2> QED
    BY <1>0, <1>1, <2>1 DEF TransportNext, TStopAdmission, TCloseGate, TDrain, TRelease
<1>3. tShutdown' \in {"closing", "released"} => THolders' = {}
  <2>1. CASE TDrain
    <3>1. THolders' = THolders /\ Cardinality(THolders) = 0 /\ IsFiniteSet(THolders)
      BY <2>1 DEF TDrain, TIdle, TransportInv, THolders, THolds
    <3> QED
      BY <3>1, FS_EmptySet
  <2>2. CASE tShutdown \in {"closing", "released"}
    <3>1. THolders = {} /\ ~tOpen
      BY <1>0, <2>2 DEF TransportInv
    <3> QED
      BY <3>1, HoldersStep
  <2> QED
    BY <1>1, <2>1, <2>2 DEF TransportNext, TStopAdmission, TCloseGate, TRelease
<1> QED
  BY <1>2, <1>3, TransportTypes, HoldersStep, NoLateLeaseStep DEF TransportInv

LEMMA TransportStart == TransportInit => TransportInv
<1> SUFFICES ASSUME TransportInit PROVE TransportInv
  OBVIOUS
<1>1. THolders = {}
  BY DEF TransportInit, THolders, THolds
<1>2. TransportTypeOK
  BY TransportAssumption DEF TransportInit, TransportTypeOK
<1> QED
  BY <1>1, <1>2, FS_EmptySet DEF TransportInit, TransportInv, TNoLateLease

\* When the service gives its storage up, nothing that the gate admitted is still
\* at work on it: the count of the gate never misses a request.
THEOREM StorageIsQuiet == TransportSpec => []TStorageQuiet
<1>1. TransportInv /\ [TransportNext]_tVars => TransportInv'
  BY TransportInductive
<1>2. TransportInv => TStorageQuiet
  BY DEF TransportInv, TStorageQuiet, THolders, THolds
<1> QED
  BY TransportStart, <1>1, <1>2, PTL DEF TransportSpec

\* Git work for a root read or a workspace write begins only on a lease that is live
\* at that moment, and never once admission has stopped; the backend of a push, which
\* waits for the proposal refs, never begins once the service lets its storage go.
THEOREM BackendNeedsLiveLease == TransportSpec => TBackendOnLiveLease
<1>1. TransportInv /\ [TransportNext]_tVars => TransportInv'
  BY TransportInductive
<1>2. ASSUME TransportInv, [TransportNext]_tVars, NEW c \in TReaders \cup TWriters,
             tStage[c] \notin {"refs", "backend"}, tStage'[c] \in {"refs", "backend"}
      PROVE  tLease[c] = "live" /\ tShutdown = "serving"
  <2>0. TransportTypeOK /\ c \in TClients /\ c \notin TCandidates
    BY <1>2, TransportAssumption DEF TransportInv, TClients
  <2>1. TServe(c) /\ TAuthenticated(c)
    <3>1. ASSUME NEW d \in TClients, TransportStep(d) PROVE d = c
      BY <1>2, <2>0, <3>1, ClientAlone
    <3>2. TransportStep(c)
      BY <1>2, <3>1 DEF TransportNext, TStopAdmission, TCloseGate, TDrain, TRelease
    <3>3. /\ ~TGoes(c, "idle") /\ ~TGoes(c, "leasing") /\ ~TGoes(c, "proving")
          /\ ~TGoes(c, "lease queued") /\ ~TGoes(c, "git queued")
      <4>1. ASSUME NEW g, TGoes(c, g) PROVE g = "refs" \/ g = "backend"
        BY <1>2, <2>0, <4>1, GoesEffect
      <4> QED
        BY <4>1
    <3>4. ~UNCHANGED tStage
      BY <1>2
    <3>5. ~(TAskLease(c) \/ TAskGit(c))
      BY <3>3, <3>4 DEF TAskLease, TAskGit, TAdmits
    <3>6. ~TRun(c)
      BY <3>3 DEF TRun
    <3>7. ~TReadRefs(c) /\ ~TBackendEnds(c)
      BY <1>2 DEF TReadRefs, TBackendEnds
    <3> QED
      BY <2>0, <3>2, <3>3, <3>4, <3>5, <3>6, <3>7 DEF TransportStep, TIssue, TIssueCandidate, TProofFails,
         TServe, TServeCandidate, TExpire
  <2> QED
    BY <1>2, <2>0, <2>1 DEF TServe, TAuthenticated, TransportInv, TNoLateLease
<1>3. ASSUME TransportInv, NEW c \in TReaders \cup TWriters, tStage[c] = "refs"
      PROVE  tShutdown \notin {"closing", "released"}
  BY <1>3 DEF TransportInv, THolders, THolds, TClients
<1>4. TransportInv /\ [TransportNext]_tVars =>
        [\A c \in TReaders \cup TWriters :
           /\ tStage[c] \notin {"refs", "backend"} /\ tStage'[c] \in {"refs", "backend"}
                => tLease[c] = "live" /\ tShutdown = "serving"
           /\ tStage[c] = "refs" /\ tStage'[c] = "backend"
                => tShutdown \notin {"closing", "released"}]_tVars
  BY <1>2, <1>3
<1> QED
  BY TransportStart, <1>1, <1>4, PTL DEF TransportSpec, TBackendOnLiveLease
-----------------------------------------------------------------------------
(***************************************************************************)
(* Record files.  What startup finds is what saves, failures and GETs left *)
(* of the staging names, so the invariant says of every staging name whose *)
(* it can be: that of the save in the queue, of a failed one, or a second  *)
(* link of its record.                                                     *)
(***************************************************************************)

FActive == fSave.step # "idle"
FPending == fSave.step \in {"reading", "making"}
FUnlinked == fSave.step \in {"staged", "written"}

FSaveType == [step : {"idle", "reading", "making", "staged", "written", "linked"},
              name : FNames \cup {FNoName}]
FRepairType == [step : {"idle", "listed", "matched"}, names : SUBSET FNames,
                name : FNames \cup {FNoName}]

\* Types, and no inode that was not handed out yet.
FTyped ==
  /\ fPhase \in {"ready", "refused", "down", "attempts", "statuses"}
  /\ fDirs \in [FTrees -> FDirs]
  /\ fStaged \subseteq FNames /\ fAnswered \subseteq FNames
  /\ fFinal \in [FStores -> [FRecords -> 0 .. FMaxSaves]]
  /\ fContent \in [FInodes -> FContents]
  /\ fSaves \in 0 .. FMaxSaves
  /\ fSave \in FSaveType
  /\ FActive => fSave.name \in FNames /\ fSave.name.ino <= fSaves
  /\ fRepair \in [FRepairers -> FRepairType]
  /\ \A s \in FStores, i \in FRecords : fFinal[s][i] <= fSaves
  /\ \A n \in fStaged : n.ino <= fSaves

\* Every record is a complete file.
FRecordsFull ==
  \A s \in FStores, i \in FRecords : fFinal[s][i] # 0 => fContent[fFinal[s][i]] = "full"

\* The save in the queue: its staging name is there from its creation to the link,
\* and its record is not, until it is linked.
FSaveSound ==
  /\ FActive => fPhase = "ready"
  /\ FPending => fSave.name \notin fStaged
  /\ FUnlinked => fSave.name \in fStaged
  /\ FPending \/ FUnlinked =>
       /\ FRecordOf(fSave.name) = 0
       /\ \A s \in FStores, i \in FRecords : fFinal[s][i] # fSave.name.ino
  /\ fSave.step \in {"written", "linked"} => fContent[fSave.name.ino] = "full"
  /\ fSave.step = "linked" => FPublished(fSave.name)

\* A reader removes only a name that it found published; the save's own reading
\* finds no name unless one was left by an earlier save.
FRepairSound ==
  /\ \A who \in FRepairers :
       /\ fRepair[who].step # "idle" => fPhase = "ready"
       /\ fRepair[who].step = "matched" =>
            fRepair[who].name \in FNames /\ FPublished(fRepair[who].name)
  /\ fRepair["save"].step # "idle" => fSave.step = "reading"
  /\ fRepair["save"].step = "matched" \/ fRepair["save"].names # {} => fStuck # {}

\* Whose a staging name can be.
FNameKnown(n) ==
  /\ n.store \in {"decision", "issue"} => FRecordOf(n) = 0 \/ FPublished(n)
  /\ n.store \in {"revoke", "status"} => FRecordOf(n) = 0 \/ FPublished(n) \/ n.ino \in fLeft
  /\ fPhase = "ready" /\ ~(FActive /\ n = fSave.name) =>
       /\ n.store = "decision" => FPublished(n) /\ fStuck # {}
       /\ n.store \in {"revoke", "status"} => FPublished(n) \/ n.ino \in fLeft
  /\ FActive /\ fSave.name.store # "decision" /\ n.store = "issue" => n = fSave.name
  /\ fPhase = "attempts" => n.store # "decision"
  /\ fPhase = "statuses" => n.store = "status"

FLeftoversKnown == \A n \in fStaged : FNameKnown(n)

\* Attempts are numbered without a gap, and what else there is belongs to one.
FNumbered ==
  \E k \in Nat :
    /\ FRecordsIn("issue") = 1 .. k
    /\ FRecordsIn("revoke") \subseteq 1 .. k /\ FRecordsIn("status") \subseteq 1 .. k
    /\ FActive /\ fSave.name.store = "issue" /\ fSave.step # "linked" => fSave.name.id = k + 1
    /\ FActive /\ fSave.name.store \in {"revoke", "status"} => fSave.name.id \in 1 .. k

FilesInv ==
  /\ FTyped
  /\ FRecordsFull
  /\ FSaveSound
  /\ FRepairSound
  /\ FLeftoversKnown
  /\ FNumbered
  /\ FAnswersAreTrue
  /\ FRestartAccepts

USE DEF fVars, FActive, FPending, FUnlinked

LEMMA NameFacts ==
  ASSUME FTyped, NEW n \in FNames
  PROVE  /\ n.store \in FStores /\ n.id \in FRecords /\ n.ino \in FInodes
         /\ n.ino \in Nat /\ n.ino # 0 /\ FRecordOf(n) \in 0 .. FMaxSaves
<1>1. n.store \in FStores /\ n.id \in FRecords /\ n.ino \in FInodes
  BY DEF FNames
<1>2. n.ino \in Nat /\ n.ino # 0
  BY <1>1, FilesAssumption DEF FInodes
<1>3. fFinal[n.store] \in [FRecords -> 0 .. FMaxSaves]
  BY <1>1 DEF FTyped
<1> QED
  BY <1>1, <1>2, <1>3 DEF FRecordOf

\* Linking writes one record.
LEMMA LinkEffect ==
  ASSUME FTyped, NEW n \in FNames, NEW v \in 0 .. FMaxSaves,
         fFinal' = [fFinal EXCEPT ![n.store][n.id] = v]
  PROVE  /\ fFinal' \in [FStores -> [FRecords -> 0 .. FMaxSaves]]
         /\ \A s \in FStores, i \in FRecords :
              fFinal'[s][i] = IF s = n.store /\ i = n.id THEN v ELSE fFinal[s][i]
<1>0. n.store \in FStores /\ n.id \in FRecords /\ fFinal[n.store] \in [FRecords -> 0 .. FMaxSaves]
  BY NameFacts DEF FTyped
<1> DEFINE g == [fFinal[n.store] EXCEPT ![n.id] = v]
<1>1. fFinal' = [fFinal EXCEPT ![n.store] = g]
  OBVIOUS
<1>2. g \in [FRecords -> 0 .. FMaxSaves]
  BY <1>0
<1>3. \A i \in FRecords : g[i] = IF i = n.id THEN v ELSE fFinal[n.store][i]
  BY <1>0
<1> HIDE DEF g
<1>4. fFinal' \in [FStores -> [FRecords -> 0 .. FMaxSaves]]
  BY <1>1, <1>2 DEF FTyped
<1>5. \A s \in FStores : fFinal'[s] = IF s = n.store THEN g ELSE fFinal[s]
  BY <1>0, <1>1 DEF FTyped
<1> QED
  BY <1>3, <1>4, <1>5

\* A record is linked once, for the save in the queue, and never replaced.
Linked ==
  /\ fSave.step = "written" /\ fSave'.step = "linked" /\ fSave'.name = fSave.name
  /\ fSave.name \in FNames
  /\ UNCHANGED <<fPhase, fDirs, fStaged, fContent, fSaves, fRepair, fReply, fAnswered, fLeft, fStuck>>
  /\ fFinal' \in [FStores -> [FRecords -> 0 .. FMaxSaves]]
  /\ \A s \in FStores, i \in FRecords :
       fFinal'[s][i] = IF s = fSave.name.store /\ i = fSave.name.id
                       THEN fSave.name.ino ELSE fFinal[s][i]

LEMMA LinkIsLinked ==
  ASSUME FTyped, FSaveSound, FLink
  PROVE  Linked
<1>1. fSave.step = "written" /\ fSave.name \in FNames /\ fSave.name \in fStaged
  BY DEF FLink, FSaveSound, FTyped
<1>2. fFinal' = [fFinal EXCEPT ![fSave.name.store][fSave.name.id] = fSave.name.ino]
      /\ fSave' = [fSave EXCEPT !.step = "linked"] /\ fReply' = fReply
      /\ UNCHANGED <<fPhase, fDirs, fStaged, fContent, fSaves, fRepair, fAnswered, fLeft, fStuck>>
  BY <1>1 DEF FLink
<1>3. fSave'.step = "linked" /\ fSave'.name = fSave.name
  BY <1>2 DEF FTyped, FSaveType
<1>4. fSave.name.ino \in 0 .. FMaxSaves
  BY <1>1, NameFacts, FilesAssumption DEF FInodes
<1> QED
  BY <1>1, <1>2, <1>3, <1>4, LinkEffect DEF Linked

LEMMA FinalMoves ==
  ASSUME FTyped, FSaveSound, [FilesNext]_fVars
  PROVE  UNCHANGED fFinal \/ Linked
BY LinkIsLinked DEF FilesNext, FBegin, FMakeDirectory, FStage, FWrite, FUnlink, FPrepareFails, FWriteFails, FLinkFails, FUnlinkFails, FFails,
   FRepairList, FRepairCheck, FRepairUnlink, FRepairDone, FCrash, FStartDecisions, FStartAttempts, FStartStatuses, FCheck

LEMMA RecordsStay ==
  ASSUME FTyped, FSaveSound, [FilesNext]_fVars, NEW s \in FStores, NEW i \in FRecords, fFinal[s][i] # 0
  PROVE  fFinal'[s][i] = fFinal[s][i]
BY FinalMoves DEF Linked, FSaveSound, FRecordOf

\* Only the file of a save that still writes changes.
LEMMA ContentMoves ==
  ASSUME FTyped, [FilesNext]_fVars, NEW ino \in FInodes,
         ~(fSave.step = "staged" /\ ino = fSave.name.ino)
  PROVE  fContent'[ino] = fContent[ino]
<1>1. CASE UNCHANGED fContent
  BY <1>1
<1>2. ASSUME NEW c, fContent' = [fContent EXCEPT ![fSave.name.ino] = c], fSave.step = "staged"
      PROVE  fContent'[ino] = fContent[ino]
  BY <1>2 DEF FTyped
<1> QED
  BY <1>1, <1>2 DEF FilesNext, FBegin, FMakeDirectory, FStage, FWrite, FLink, FUnlink, FPrepareFails, FWriteFails, FLinkFails, FUnlinkFails,
   FFails, FRepairList, FRepairCheck, FRepairUnlink, FRepairDone, FCrash, FStartDecisions, FStartAttempts, FStartStatuses,
   FCheck

LEMMA RecordFull ==
  ASSUME FTyped, FSaveSound, FRecordsFull, [FilesNext]_fVars, NEW s \in FStores, NEW i \in FRecords,
         fFinal[s][i] # 0
  PROVE  fContent'[fFinal[s][i]] = "full"
<1>1. fFinal[s][i] \in FInodes
  BY FilesAssumption DEF FTyped, FInodes
<1>2. fContent'[fFinal[s][i]] = fContent[fFinal[s][i]]
  BY <1>1, ContentMoves DEF FSaveSound
<1> QED
  BY <1>2 DEF FRecordsFull

LEMMA FullStep ==
  ASSUME FilesInv, [FilesNext]_fVars
  PROVE  FRecordsFull'
<1>0. FTyped /\ FSaveSound /\ FRecordsFull
  BY DEF FilesInv
<1> SUFFICES ASSUME NEW s \in FStores, NEW i \in FRecords, fFinal'[s][i] # 0
             PROVE  fContent'[fFinal'[s][i]] = "full"
  BY DEF FRecordsFull
<1>1. CASE fFinal[s][i] # 0
  BY <1>0, <1>1, RecordsStay, RecordFull
<1>2. CASE fFinal[s][i] = 0
  <2>1. Linked
    BY <1>0, <1>2, FinalMoves
  <2> QED
    BY <1>0, <1>2, <2>1 DEF Linked, FSaveSound
<1> QED
  BY <1>1, <1>2

\* A published name stays published.
LEMMA PublishedStays ==
  ASSUME FTyped, FSaveSound, [FilesNext]_fVars, NEW n \in FNames, FPublished(n)
  PROVE  FPublished(n)'
<1>1. n.store \in FStores /\ n.id \in FRecords /\ n.ino # 0
  BY NameFacts
<1> QED
  BY <1>1, RecordsStay DEF FPublished, FRecordOf

\* The action of a reader of the decisions, in the save or outside the queue.
FReads(who) == FRepairList(who) \/ FRepairCheck(who) \/ FRepairUnlink(who) \/ FRepairDone(who)

\* What the reader does next, and what becomes of the save when it is the save's.
FReadsTo(who, r) ==
  /\ fRepair' = [fRepair EXCEPT ![who] = r]
  /\ \/ UNCHANGED <<fSave, fReply>>
     \/ who = "save" /\ r = FNoRepair /\ fSave' = FNoSave /\ fReply' = "unreadable" /\ fStuck # {}
     \/ who = "save" /\ r = FNoRepair /\ fSave' = [fSave EXCEPT !.step = "making"] /\ fReply' = fReply

LEMMA EmptyFacts ==
  /\ FNoSave \in FSaveType /\ FNoSave.step = "idle"
  /\ FNoRepair \in FRepairType /\ FNoRepair.step = "idle" /\ FNoRepair.names = {}
BY DEF FNoSave, FNoRepair, FSaveType, FRepairType

LEMMA RepairingFacts ==
  ASSUME NEW N \in SUBSET FNames
  PROVE  FRepairing(N) \in FRepairType /\ FRepairing(N).step = "listed" /\ FRepairing(N).names = N
BY DEF FRepairing, FNoRepair, FRepairType

\* A reader moves on to names that it lists, or to one that it found published.
LEMMA ReadsSomewhere ==
  ASSUME FTyped, FSaveSound, FRepairSound, FLeftoversKnown, NEW who \in FRepairers, FReads(who)
  PROVE  \E r \in FRepairType :
           /\ FReadsTo(who, r)
           /\ r.step = "matched" => r.name \in FNames /\ FPublished(r.name)
           /\ who = "save" /\ (r.step = "matched" \/ r.names # {}) => fStuck # {}
           /\ who = "save" /\ r.step # "idle" => fSave' = fSave
<1>0. fRepair[who] \in FRepairType /\ (who = "save" => fRepair["save"] = fRepair[who])
  BY DEF FTyped
<1>1. CASE FRepairList(who)
  <2>1. fRepair' = [fRepair EXCEPT ![who] = FRepairing(FStagedIn({"decision"}))]
        /\ UNCHANGED <<fSave, fReply>> /\ fPhase = "ready" /\ (who = "save" => fSave.step = "reading")
    BY <1>1 DEF FRepairList
  <2>2. FStagedIn({"decision"}) \in SUBSET FNames
    BY DEF FStagedIn, FTyped
  <2>3. ASSUME who = "save", NEW n \in FStagedIn({"decision"}) PROVE fStuck # {}
    <3>1. n \in fStaged /\ n.store = "decision" /\ n # fSave.name /\ FNameKnown(n)
      BY <2>1, <2>3 DEF FStagedIn, FSaveSound, FLeftoversKnown
    <3> QED
      BY <2>1, <3>1 DEF FNameKnown
  <2> QED
    BY <2>1, <2>2, <2>3, RepairingFacts DEF FReadsTo
<1>2. CASE FRepairCheck(who)
  <2>1. PICK n \in fRepair[who].names :
          IF FMatches(n)
          THEN /\ fRepair' = [fRepair EXCEPT ![who] = [@ EXCEPT !.step = "matched", !.name = n]]
               /\ UNCHANGED <<fSave, fReply>>
          ELSE FRepairEnds(who, TRUE)
    BY <1>2 DEF FRepairCheck
  <2>2. n \in FNames /\ (who = "save" => fStuck # {})
    BY <1>0, <2>1 DEF FRepairSound, FRepairType
  <2>3. CASE FMatches(n)
    <3> DEFINE r == [fRepair[who] EXCEPT !.step = "matched", !.name = n]
    <3>1. r \in FRepairType /\ r.step = "matched" /\ r.name = n
      BY <1>0, <2>2 DEF FRepairType
    <3>2. fRepair' = [fRepair EXCEPT ![who] = r] /\ UNCHANGED <<fSave, fReply>>
      BY <2>1, <2>3
    <3> QED
      BY <2>2, <2>3, <3>1, <3>2 DEF FReadsTo, FMatches
  <2>4. CASE ~FMatches(n)
    BY <2>1, <2>2, <2>4, EmptyFacts DEF FReadsTo, FRepairEnds, FRepairers
  <2> QED
    BY <2>3, <2>4
<1>3. CASE FRepairUnlink(who)
  <2>1. fRepair[who].step = "matched" /\ (who = "save" => fStuck # {})
    BY <1>0, <1>3 DEF FRepairUnlink, FRepairSound
  <2>2. CASE fRepair[who].name \in fStaged
    <3>1. fRepair' = [fRepair EXCEPT ![who] = FRepairing(fRepair[who].names \ {fRepair[who].name})]
          /\ UNCHANGED <<fSave, fReply>>
      BY <1>3, <2>2 DEF FRepairUnlink
    <3>2. fRepair[who].names \ {fRepair[who].name} \in SUBSET FNames
      BY <1>0 DEF FRepairType
    <3> QED
      BY <2>1, <3>1, <3>2, RepairingFacts DEF FReadsTo
  <2>3. CASE fRepair[who].name \notin fStaged
    BY <1>3, <2>1, <2>3, EmptyFacts DEF FRepairUnlink, FReadsTo, FRepairEnds, FRepairers
  <2> QED
    BY <2>2, <2>3
<1>4. CASE FRepairDone(who)
  BY <1>4, EmptyFacts DEF FRepairDone, FReadsTo, FRepairEnds, FRepairers
<1> QED
  BY <1>1, <1>2, <1>3, <1>4 DEF FReads

\* What else a reader changes: it removes published names, in a service that runs.
LEMMA ReadsLittle ==
  ASSUME FTyped, FSaveSound, FRepairSound, NEW who \in FRepairers, FReads(who)
  PROVE  /\ fPhase = "ready" /\ (who = "save" => fSave.step = "reading")
         /\ UNCHANGED <<fPhase, fDirs, fFinal, fContent, fSaves, fAnswered, fLeft, fStuck>>
         /\ fStaged' \subseteq fStaged
         /\ \A n \in fStaged : n \notin fStaged' => FPublished(n)
<1>1. fPhase = "ready" /\ (who = "save" => fSave.step = "reading")
  BY DEF FReads, FRepairList, FRepairCheck, FRepairUnlink, FRepairDone, FRepairSound
<1>2. CASE FRepairUnlink(who)
  BY <1>1, <1>2 DEF FRepairUnlink, FRepairSound
<1>3. CASE ~FRepairUnlink(who)
  BY <1>1, <1>3 DEF FReads, FRepairList, FRepairCheck, FRepairDone
<1> QED
  BY <1>2, <1>3

\* The save of a reader that stops or goes on.
LEMMA ReadsSave ==
  ASSUME FTyped, FSaveSound, FRepairSound, FLeftoversKnown, NEW who \in FRepairers, FReads(who)
  PROVE  \/ UNCHANGED <<fSave, fReply>>
         \/ fSave' = FNoSave /\ fReply' = "unreadable" /\ fStuck # {}
         \/ /\ fSave.step = "reading" /\ fSave'.step = "making" /\ fSave'.name = fSave.name
            /\ fSave' \in FSaveType /\ fReply' = fReply
<1>1. PICK r \in FRepairType : FReadsTo(who, r)
  BY ReadsSomewhere
<1>2. who = "save" => fSave.step = "reading"
  BY ReadsLittle
<1> QED
  BY <1>1, <1>2 DEF FReadsTo, FTyped, FSaveType

LEMMA AnswersStep ==
  ASSUME FilesInv, [FilesNext]_fVars
  PROVE  FAnswersAreTrue'
<1>0. FTyped /\ FSaveSound /\ FRecordsFull /\ FRepairSound /\ FLeftoversKnown /\ FAnswersAreTrue
  BY DEF FilesInv
<1>1. fReply' # "error" /\ (fReply' = "unreadable" => fStuck' # {})
  <2>1. CASE FLink
    BY <1>0, <2>1, LinkIsLinked DEF Linked, FAnswersAreTrue
  <2>2. ASSUME NEW who \in FRepairers, FReads(who)
        PROVE  fReply' # "error" /\ (fReply' = "unreadable" => fStuck' # {})
    BY <1>0, <2>2, ReadsLittle, ReadsSave DEF FAnswersAreTrue
  <2> QED
    BY <1>0, <2>1, <2>2 DEF FilesNext, FReads, FBegin, FMakeDirectory, FStage, FWrite, FUnlink,
       FPrepareFails, FWriteFails, FLinkFails, FUnlinkFails, FFails, FLeaves, FCrash,
       FStartDecisions, FStartAttempts, FStartStatuses, FCheck, FAnswersAreTrue
<1>2. ASSUME NEW n \in FNames, FPublished(n) PROVE FPublished(n)' /\ fContent'[n.ino] = "full"
  <2>1. n.store \in FStores /\ n.id \in FRecords /\ fFinal[n.store][n.id] = n.ino /\ n.ino # 0
    BY <1>0, <1>2, NameFacts DEF FPublished, FRecordOf
  <2> QED
    BY <1>0, <1>2, <2>1, PublishedStays, RecordFull
<1>3. ASSUME NEW n \in fAnswered' PROVE n \in FNames /\ FPublished(n)
  <2>1. CASE n \in fAnswered
    BY <1>0, <2>1 DEF FAnswersAreTrue, FTyped
  <2>2. CASE FUnlink /\ n = fSave.name
    BY <1>0, <2>2 DEF FUnlink, FSaveSound, FTyped
  <2> QED
    BY <1>3, <2>1, <2>2 DEF FilesNext, FBegin, FMakeDirectory, FStage, FWrite, FLink, FUnlink,
       FPrepareFails, FWriteFails, FLinkFails, FUnlinkFails, FFails, FRepairList, FRepairCheck,
       FRepairUnlink, FRepairDone, FCrash, FStartDecisions, FStartAttempts, FStartStatuses, FCheck
<1> QED
  BY <1>1, <1>2, <1>3 DEF FAnswersAreTrue

\* A save begins with an inode that no file has.
LEMMA BeginEffect ==
  ASSUME FTyped, NEW s \in FStores, NEW i \in FRecords, FBegin(s, i)
  PROVE  /\ fSave'.step \in {"reading", "making"} /\ fSave'.name \in FNames /\ fSave' \in FSaveType
         /\ fSave'.name.store = s /\ fSave'.name.id = i /\ fSave'.name.ino = fSaves + 1
         /\ fSave'.name \notin fStaged
         /\ fSaves' = fSaves + 1 /\ fSaves' \in 0 .. FMaxSaves
         /\ fPhase = "ready" /\ fSave.step = "idle" /\ FNeeded(s, i)
         /\ UNCHANGED <<fPhase, fDirs, fStaged, fFinal, fContent, fRepair, fAnswered, fLeft, fStuck>>
<1> DEFINE name == [store |-> s, id |-> i, ino |-> fSaves + 1]
<1>1. fSaves + 1 \in FInodes /\ fSaves + 1 \in 0 .. FMaxSaves
  BY FilesAssumption DEF FBegin, FTyped, FInodes
<1>2. name \in FNames /\ name.store = s /\ name.id = i /\ name.ino = fSaves + 1
  BY <1>1 DEF FNames
<1>3. /\ fSave' = [step |-> IF s = "decision" THEN "reading" ELSE "making", name |-> name]
      /\ fSaves' = fSaves + 1 /\ fPhase = "ready" /\ fSave.step = "idle" /\ FNeeded(s, i)
      /\ UNCHANGED <<fPhase, fDirs, fStaged, fFinal, fContent, fRepair, fAnswered, fLeft, fStuck>>
  BY DEF FBegin
<1>4. name \notin fStaged
  BY <1>2, FilesAssumption DEF FTyped
<1> HIDE DEF name
<1>5. fSave'.step \in {"reading", "making"} /\ fSave'.name = name
  BY <1>3
<1>6. fSave' \in FSaveType
  BY <1>2, <1>3 DEF FSaveType
<1> QED
  BY <1>1, <1>2, <1>3, <1>4, <1>5, <1>6

\* The failed steps of a save.
FFailsAny == FPrepareFails \/ FWriteFails \/ FLinkFails \/ FUnlinkFails

LEMMA FailEffect ==
  ASSUME FTyped, FSaveSound, FRepairSound, FFailsAny
  PROVE  /\ fSave.step # "idle" /\ fPhase = "ready" /\ fSave' = FNoSave
         /\ UNCHANGED <<fPhase, fDirs, fFinal, fSaves, fAnswered>>
         /\ fStaged' \subseteq fStaged /\ fLeft \subseteq fLeft' /\ fStuck \subseteq fStuck'
         /\ fContent' \in [FInodes -> FContents]
         /\ fRepair' \in [FRepairers -> FRepairType]
         /\ (fRepair'["save"] = FNoRepair \/ (fRepair'["save"] = fRepair["save"] /\ fSave.step # "reading"))
         /\ fRepair'["get"] = fRepair["get"]
<1>1. /\ fSave.step # "idle" /\ fSave' = FNoSave
      /\ UNCHANGED <<fPhase, fDirs, fFinal, fSaves, fAnswered>>
      /\ fStaged' \subseteq fStaged /\ fLeft \subseteq fLeft' /\ fStuck \subseteq fStuck'
  BY DEF FFailsAny, FPrepareFails, FWriteFails, FLinkFails, FUnlinkFails, FFails, FLeaves
<1>2. fContent' \in [FInodes -> FContents]
  <2>1. CASE FWriteFails
    <3>1. PICK c \in FContents : fContent' = [fContent EXCEPT ![fSave.name.ino] = c]
      BY <2>1 DEF FWriteFails
    <3> QED
      BY <3>1 DEF FTyped
  <2> QED
    BY <2>1 DEF FFailsAny, FPrepareFails, FLinkFails, FUnlinkFails, FTyped
<1>3. /\ fRepair' \in [FRepairers -> FRepairType]
      /\ (fRepair'["save"] = FNoRepair \/ (fRepair'["save"] = fRepair["save"] /\ fSave.step # "reading"))
      /\ fRepair'["get"] = fRepair["get"]
  <2>1. CASE FPrepareFails
    BY <2>1, EmptyFacts DEF FPrepareFails, FTyped, FRepairers
  <2> QED
    BY <2>1 DEF FFailsAny, FWriteFails, FLinkFails, FUnlinkFails, FLeaves, FTyped
<1> QED
  BY <1>1, <1>2, <1>3 DEF FSaveSound

LEMMA FTypedStep ==
  ASSUME FilesInv, [FilesNext]_fVars
  PROVE  FTyped'
<1>0. FTyped /\ FSaveSound /\ FRepairSound /\ FLeftoversKnown
  BY DEF FilesInv
<1>1. CASE UNCHANGED fVars
  BY <1>0, <1>1 DEF FTyped
<1>2. ASSUME NEW s \in FStores, NEW i \in FRecords, FBegin(s, i) PROVE FTyped'
  <2>1. \A t \in FStores, j \in FRecords : fFinal'[t][j] <= fSaves'
    BY <1>0, <1>2, BeginEffect, FilesAssumption DEF FTyped
  <2>2. \A n \in fStaged' : n.ino <= fSaves'
    BY <1>0, <1>2, BeginEffect, NameFacts, FilesAssumption DEF FTyped
  <2>3. fSave'.name.ino <= fSaves'
    BY <1>0, <1>2, BeginEffect, FilesAssumption DEF FTyped
  <2> QED
    BY <1>0, <1>2, <2>1, <2>2, <2>3, BeginEffect DEF FTyped
<1>3. CASE FMakeDirectory
  <2>1. fDirs' \in [FTrees -> FDirs]
    BY <1>0, <1>3 DEF FMakeDirectory, FTyped, FDirs
  <2> QED
    BY <1>0, <1>3, <2>1 DEF FMakeDirectory, FTyped
<1>4. CASE FStage
  <2>1. fSave' \in FSaveType /\ fSave'.name = fSave.name /\ fSave.name \in FNames
    BY <1>0, <1>4 DEF FStage, FTyped, FSaveType
  <2> QED
    BY <1>0, <1>4, <2>1 DEF FStage, FTyped
<1>5. CASE FWrite
  <2>1. fSave.name \in FNames /\ fSave.name.ino \in FInodes
    BY <1>0, <1>5, NameFacts DEF FWrite, FTyped
  <2>2. fContent' \in [FInodes -> FContents]
    BY <1>0, <1>5, <2>1 DEF FWrite, FTyped, FContents
  <2>3. fSave' \in FSaveType /\ fSave'.name = fSave.name
    BY <1>0, <1>5 DEF FWrite, FTyped, FSaveType
  <2> QED
    BY <1>0, <1>5, <2>1, <2>2, <2>3 DEF FWrite, FTyped
<1>6. CASE FLink
  <2>1. Linked /\ fSave' = [fSave EXCEPT !.step = "linked"]
    BY <1>0, <1>6, LinkIsLinked DEF FLink, FSaveSound
  <2>2. fSave' \in FSaveType
    BY <1>0, <2>1 DEF FTyped, FSaveType
  <2>3. \A t \in FStores, j \in FRecords : fFinal'[t][j] <= fSaves'
    BY <1>0, <2>1 DEF FTyped, Linked
  <2> QED
    BY <1>0, <2>1, <2>2, <2>3 DEF FTyped, Linked
<1>7. CASE FUnlink
  <2>1. fSave.name \in FNames
    BY <1>0, <1>7 DEF FUnlink, FTyped
  <2> QED
    BY <1>0, <1>7, <2>1, EmptyFacts DEF FUnlink, FTyped
<1>8. CASE FFailsAny
  BY <1>0, <1>8, FailEffect, EmptyFacts DEF FTyped
<1>9. ASSUME NEW who \in FRepairers, FReads(who) PROVE FTyped'
  <2>1. PICK r \in FRepairType : FReadsTo(who, r)
    BY <1>0, <1>9, ReadsSomewhere
  <2>2. fRepair' \in [FRepairers -> FRepairType]
    BY <1>0, <2>1 DEF FReadsTo, FTyped
  <2>3. fSave' \in FSaveType /\ (fSave'.step # "idle" => fSave'.name = fSave.name /\ fSave.step # "idle")
    BY <1>0, <1>9, ReadsSave, EmptyFacts DEF FTyped
  <2> QED
    BY <1>0, <1>9, <2>2, <2>3, ReadsLittle DEF FTyped
<1>10. CASE FCrash
  <2>1. fContent' \in [FInodes -> FContents]
    <3>1. PICK c \in FContents : fContent' = IF fSave.step = "staged"
                      THEN [fContent EXCEPT ![fSave.name.ino] = c] ELSE fContent
      BY <1>10 DEF FCrash
    <3> QED
      BY <1>0, <3>1 DEF FTyped
  <2>2. fRepair' \in [FRepairers -> FRepairType]
    BY <1>10, EmptyFacts DEF FCrash
  <2> QED
    BY <1>0, <1>10, <2>1, <2>2, EmptyFacts DEF FCrash, FTyped
<1>11. CASE FStartDecisions \/ FStartAttempts \/ FStartStatuses
  BY <1>0, <1>11 DEF FStartDecisions, FStartAttempts, FStartStatuses, FCheck, FTyped
<1> QED
  BY <1>1, <1>2, <1>3, <1>4, <1>5, <1>6, <1>7, <1>8, <1>9, <1>10, <1>11
     DEF FilesNext, FReads, FFailsAny

LEMMA SaveStep ==
  ASSUME FilesInv, [FilesNext]_fVars
  PROVE  FSaveSound'
<1>0. FTyped /\ FSaveSound /\ FRepairSound /\ FLeftoversKnown
  BY DEF FilesInv
<1>1. CASE fSave'.step = "idle"
  BY <1>1 DEF FSaveSound
<1>2. ASSUME UNCHANGED <<fSave, fFinal, fContent>>, FActive => UNCHANGED fPhase,
             FPending => fSave.name \notin fStaged', FUnlinked => fSave.name \in fStaged'
      PROVE  FSaveSound'
  BY <1>0, <1>2 DEF FSaveSound, FRecordOf, FPublished
<1>3. ASSUME NEW s \in FStores, NEW i \in FRecords, FBegin(s, i) PROVE FSaveSound'
  <2>1. /\ fSave'.step \in {"reading", "making"} /\ fSave'.name \notin fStaged' /\ fPhase' = "ready"
        /\ fFinal' = fFinal /\ fSave'.name.store = s /\ fSave'.name.id = i
        /\ fSave'.name.ino = fSaves + 1
    BY <1>0, <1>3, BeginEffect
  <2>2. fFinal[s][i] = 0
    BY <1>0, <1>3, BeginEffect DEF FNeeded
  <2>3. \A t \in FStores, j \in FRecords : fFinal[t][j] # fSaves + 1
    BY <1>0, FilesAssumption DEF FTyped
  <2> QED
    BY <2>1, <2>2, <2>3 DEF FSaveSound, FRecordOf
<1>4. CASE FMakeDirectory
  BY <1>0, <1>2, <1>4 DEF FMakeDirectory, FSaveSound
<1>5. CASE FStage
  <2>1. fSave.step = "making" /\ fSave'.step = "staged" /\ fSave'.name = fSave.name
        /\ fStaged' = fStaged \cup {fSave.name} /\ UNCHANGED <<fPhase, fFinal>>
    BY <1>0, <1>5 DEF FStage, FTyped, FSaveType
  <2> QED
    BY <1>0, <2>1 DEF FSaveSound, FRecordOf
<1>6. CASE FWrite
  <2>1. fSave'.step = "written" /\ fSave'.name = fSave.name /\ UNCHANGED <<fPhase, fStaged, fFinal>>
        /\ fSave.step = "staged"
    BY <1>0, <1>6 DEF FWrite, FTyped, FSaveType
  <2>2. fSave.name.ino \in FInodes
    BY <1>0, <2>1, NameFacts DEF FTyped
  <2>3. fContent'[fSave.name.ino] = "full"
    BY <1>0, <1>6, <2>2 DEF FWrite, FTyped
  <2> QED
    BY <1>0, <2>1, <2>3 DEF FSaveSound, FRecordOf
<1>7. CASE FLink
  <2>1. Linked
    BY <1>0, <1>7, LinkIsLinked
  <2>2. fSave.name.store \in FStores /\ fSave.name.id \in FRecords
    BY <1>0, <2>1, NameFacts DEF Linked
  <2> QED
    BY <1>0, <2>1, <2>2 DEF Linked, FSaveSound, FPublished, FRecordOf
<1>8. ASSUME NEW who \in FRepairers, FReads(who) PROVE FSaveSound'
  <2>1. /\ UNCHANGED <<fPhase, fFinal, fContent>> /\ fPhase = "ready"
        /\ fStaged' \subseteq fStaged /\ \A n \in fStaged : n \notin fStaged' => FPublished(n)
    BY <1>0, <1>8, ReadsLittle
  <2>2. FUnlinked => ~FPublished(fSave.name)
    <3>1. FUnlinked => FRecordOf(fSave.name) = 0 /\ fSave.name.ino # 0
      BY <1>0, NameFacts DEF FSaveSound, FTyped
    <3> QED
      BY <3>1 DEF FPublished
  <2>3. FPending => fSave.name \notin fStaged'
    BY <1>0, <2>1 DEF FSaveSound
  <2>4. FUnlinked => fSave.name \in fStaged'
    BY <1>0, <2>1, <2>2 DEF FSaveSound
  <2>5. CASE UNCHANGED fSave
    BY <1>2, <2>1, <2>3, <2>4, <2>5
  <2>6. CASE fSave.step = "reading" /\ fSave'.step = "making" /\ fSave'.name = fSave.name
    BY <1>0, <2>1, <2>3, <2>6 DEF FSaveSound, FRecordOf
  <2> QED
    BY <1>0, <1>1, <1>8, <2>5, <2>6, ReadsSave, EmptyFacts
<1>9. CASE FStartDecisions \/ FStartAttempts \/ FStartStatuses
  BY <1>0, <1>1, <1>9 DEF FStartDecisions, FStartAttempts, FStartStatuses, FCheck, FSaveSound
<1>10. CASE UNCHANGED fVars
  BY <1>0, <1>2, <1>10 DEF FSaveSound
<1>11. CASE FUnlink \/ FFailsAny \/ FCrash
  BY <1>0, <1>1, <1>11, FailEffect, EmptyFacts DEF FUnlink, FCrash
<1> QED
  BY <1>3, <1>4, <1>5, <1>6, <1>7, <1>8, <1>9, <1>10, <1>11 DEF FilesNext, FReads, FFailsAny

LEMMA RepairStep ==
  ASSUME FilesInv, [FilesNext]_fVars
  PROVE  FRepairSound'
<1>0. FTyped /\ FSaveSound /\ FRepairSound /\ FLeftoversKnown
  BY DEF FilesInv
<1>p. ASSUME NEW n \in FNames, FPublished(n) PROVE FPublished(n)'
  BY <1>0, <1>p, PublishedStays
<1>1. ASSUME UNCHANGED <<fRepair, fPhase>>, fSave.step = "reading" => UNCHANGED fSave,
             fStuck \subseteq fStuck'
      PROVE  FRepairSound'
  BY <1>0, <1>1, <1>p DEF FRepairSound
<1>2. ASSUME NEW s \in FStores, NEW i \in FRecords, FBegin(s, i) PROVE FRepairSound'
  BY <1>0, <1>1, <1>2, BeginEffect
<1>3. CASE FMakeDirectory \/ FStage \/ FWrite \/ FUnlink
  BY <1>1, <1>3 DEF FMakeDirectory, FStage, FWrite, FUnlink
<1>4. CASE FLink
  BY <1>0, <1>1, <1>4, LinkIsLinked DEF Linked
<1>5. CASE FFailsAny
  <2>1. /\ UNCHANGED fPhase /\ fPhase = "ready" /\ fStuck \subseteq fStuck'
        /\ (fRepair'["save"] = FNoRepair \/ (fRepair'["save"] = fRepair["save"] /\ fSave.step # "reading"))
        /\ fRepair'["get"] = fRepair["get"]
    BY <1>0, <1>5, FailEffect
  <2>2. fRepair'["save"].step = "idle" /\ fRepair'["save"].step # "matched"
        /\ (fRepair'["save"].names # {} => fStuck # {})
    BY <1>0, <2>1, EmptyFacts DEF FRepairSound
  <2> QED
    BY <1>0, <1>p, <2>1, <2>2 DEF FRepairSound, FRepairers
<1>6. ASSUME NEW who \in FRepairers, FReads(who) PROVE FRepairSound'
  <2>1. PICK r \in FRepairType :
          /\ FReadsTo(who, r)
          /\ r.step = "matched" => r.name \in FNames /\ FPublished(r.name)
          /\ who = "save" /\ (r.step = "matched" \/ r.names # {}) => fStuck # {}
          /\ who = "save" /\ r.step # "idle" => fSave' = fSave
    BY <1>0, <1>6, ReadsSomewhere
  <2>2. fPhase' = "ready" /\ fStuck' = fStuck /\ (who = "save" => fSave.step = "reading")
    BY <1>0, <1>6, ReadsLittle
  <2>3. fRepair'[who] = r /\ \A w \in FRepairers : w # who => fRepair'[w] = fRepair[w]
    BY <1>0, <2>1 DEF FReadsTo, FTyped
  <2>4. who # "save" => fSave' = fSave
    BY <2>1 DEF FReadsTo
  <2>5. \A w \in FRepairers : fRepair'[w].step = "matched" =>
          fRepair'[w].name \in FNames /\ FPublished(fRepair'[w].name)
    BY <1>0, <2>1, <2>3 DEF FRepairSound
  <2>6. \A w \in FRepairers : fRepair'[w].step = "matched" =>
          fRepair'[w].name \in FNames /\ (FPublished(fRepair[w].name))'
    <3> SUFFICES ASSUME NEW w \in FRepairers, fRepair'[w].step = "matched"
                 PROVE  fRepair'[w].name \in FNames /\ (FPublished(fRepair[w].name))'
      OBVIOUS
    <3>1. PICK n \in FNames : n = fRepair'[w].name /\ FPublished(n)
      BY <2>5
    <3>2. FPublished(n)'
      BY <1>p, <3>1
    <3> QED
      BY <3>1, <3>2 DEF FPublished, FRecordOf
  <2>7. CASE who = "save"
    BY <2>1, <2>2, <2>3, <2>6, <2>7 DEF FRepairSound
  <2>8. CASE who # "save"
    BY <1>0, <2>2, <2>3, <2>4, <2>6, <2>8 DEF FRepairSound, FRepairers
  <2> QED
    BY <2>7, <2>8
<1>7. CASE FCrash
  <2>1. fRepair' = [who \in FRepairers |-> FNoRepair]
    BY <1>7 DEF FCrash
  <2> QED
    BY <2>1, EmptyFacts DEF FRepairSound, FRepairers
<1>8. CASE FStartDecisions \/ FStartAttempts \/ FStartStatuses
  BY <1>0, <1>8 DEF FStartDecisions, FStartAttempts, FStartStatuses, FCheck, FRepairSound, FRepairers
<1>9. CASE UNCHANGED fVars
  BY <1>1, <1>9
<1> QED
  BY <1>2, <1>3, <1>4, <1>5, <1>6, <1>7, <1>8, <1>9 DEF FilesNext, FReads, FFailsAny

\* A staging name that was known stays known when a save is linked.
LEMMA LinkKeepsKnown ==
  ASSUME FTyped, FSaveSound, Linked, [FilesNext]_fVars, NEW n \in FNames, FNameKnown(n)
  PROVE  FNameKnown(n)'
<1>1. fSave.step = "written" /\ fSave'.step = "linked" /\ fSave'.name = fSave.name /\ fPhase = "ready"
      /\ UNCHANGED <<fPhase, fLeft, fStuck>>
  BY DEF Linked, FSaveSound
<1>2. n.store \in FStores /\ n.id \in FRecords /\ fSave.name \in FNames
      /\ FRecordOf(n)' = IF n.store = fSave.name.store /\ n.id = fSave.name.id
                         THEN fSave.name.ino ELSE FRecordOf(n)
  BY NameFacts DEF Linked, FRecordOf
<1>3. FPublished(n) => FPublished(n)'
  BY PublishedStays
<1>4. CASE n = fSave.name
  BY <1>1, <1>2, <1>4 DEF FNameKnown, FPublished
<1>5. CASE n # fSave.name
  <2>1. CASE n.store = "decision"
    BY <1>1, <1>2, <1>3, <1>5, <2>1 DEF FNameKnown
  <2>2. CASE n.store = "issue"
    <3>1. fSave.name.store = "decision"
      BY <1>1, <1>5, <2>2 DEF FNameKnown
    <3>2. FRecordOf(n)' = FRecordOf(n)
      BY <1>2, <2>2, <3>1
    <3> QED
      BY <1>1, <1>3, <1>5, <2>2, <3>1, <3>2 DEF FNameKnown
  <2>3. CASE n.store \in {"revoke", "status"}
    BY <1>1, <1>3, <1>5, <2>3 DEF FNameKnown
  <2> QED
    BY <1>2, <2>1, <2>2, <2>3 DEF FStores
<1> QED
  BY <1>4, <1>5

\* A staging name that stays needs nothing new when no record changed and the
\* save in the queue, if there still is one, is the same.
LEMMA KnownKept ==
  ASSUME NEW n, FNameKnown(n), UNCHANGED <<fFinal, fPhase, fLeft, fStuck>>,
         \/ fSave'.step = "idle" /\ (FActive => n # fSave.name)
         \/ fSave'.name = fSave.name /\ fSave.step # "idle" /\ fSave'.step # "idle"
         \/ fSave' = fSave
  PROVE  FNameKnown(n)'
<1>1. FRecordOf(n)' = FRecordOf(n) /\ FPublished(n)' = FPublished(n)
  BY DEF FRecordOf, FPublished
<1>2. CASE fSave'.step = "idle" /\ (FActive => n # fSave.name)
  BY <1>1, <1>2 DEF FNameKnown
<1>3. CASE fSave'.name = fSave.name /\ fSave.step # "idle" /\ fSave'.step # "idle"
  BY <1>1, <1>3 DEF FNameKnown
<1>4. CASE fSave' = fSave
  BY <1>1, <1>4 DEF FNameKnown
<1> QED
  BY <1>2, <1>3, <1>4

LEMMA LeftoversStep ==
  ASSUME FilesInv, [FilesNext]_fVars
  PROVE  FLeftoversKnown'
<1>0. FTyped /\ FSaveSound /\ FRepairSound /\ FLeftoversKnown
  BY DEF FilesInv
<1> SUFFICES ASSUME NEW n \in fStaged' PROVE FNameKnown(n)'
  BY DEF FLeftoversKnown
<1>k. ASSUME n \in fStaged PROVE n \in FNames /\ FNameKnown(n)
  BY <1>0, <1>k DEF FLeftoversKnown, FTyped
<1>1. CASE UNCHANGED fVars
  BY <1>1, <1>k, KnownKept
<1>2. ASSUME NEW s \in FStores, NEW i \in FRecords, FBegin(s, i) PROVE FNameKnown(n)'
  <2>1. /\ fSave'.step # "idle" /\ fSave'.name.store = s /\ n \in fStaged /\ n # fSave'.name
        /\ fPhase = "ready" /\ fSave.step = "idle" /\ FNeeded(s, i)
        /\ UNCHANGED <<fPhase, fFinal, fLeft, fStuck>>
    BY <1>0, <1>2, BeginEffect
  <2>2. FRecordOf(n)' = FRecordOf(n) /\ FPublished(n)' = FPublished(n)
    BY <2>1 DEF FRecordOf, FPublished
  <2>3. s # "decision" => n.store # "issue"
    <3>1. ASSUME s # "decision" PROVE FListable
      <4>1. CASE s = "issue"
        BY <2>1, <4>1 DEF FNeeded
      <4>2. CASE s = "revoke"
        BY <2>1, <4>2 DEF FNeeded
      <4>3. CASE s = "status"
        BY <2>1, <4>3 DEF FNeeded
      <4> QED
        BY <3>1, <4>1, <4>2, <4>3 DEF FStores
    <3> QED
      BY <2>1, <3>1 DEF FListable, FStagedIn
  <2> QED
    BY <1>k, <2>1, <2>2, <2>3 DEF FNameKnown
<1>3. CASE FMakeDirectory
  BY <1>k, <1>3, KnownKept DEF FMakeDirectory
<1>4. CASE FStage
  <2>1. fSave.step = "making" /\ fSave'.step = "staged" /\ fSave'.name = fSave.name
        /\ UNCHANGED <<fFinal, fPhase, fLeft, fStuck>> /\ fPhase = "ready"
        /\ fStaged' = fStaged \cup {fSave.name}
    BY <1>0, <1>4 DEF FStage, FTyped, FSaveType, FSaveSound
  <2>2. CASE n \in fStaged
    BY <1>k, <2>1, <2>2, KnownKept
  <2>3. CASE n = fSave.name
    <3>1. FRecordOf(n)' = 0
      BY <1>0, <2>1, <2>3 DEF FSaveSound, FRecordOf
    <3> QED
      BY <2>1, <2>3, <3>1 DEF FNameKnown
  <2> QED
    BY <2>1, <2>2, <2>3
<1>5. CASE FWrite
  <2>1. fSave.step # "idle" /\ fSave'.step # "idle" /\ fSave'.name = fSave.name
        /\ UNCHANGED <<fFinal, fPhase, fLeft, fStuck, fStaged>>
    BY <1>0, <1>5 DEF FWrite, FTyped, FSaveType
  <2> QED
    BY <1>k, <2>1, KnownKept
<1>6. CASE FLink
  BY <1>0, <1>k, <1>6, LinkIsLinked, LinkKeepsKnown DEF Linked
<1>7. CASE FUnlink
  <2>1. n \in fStaged /\ n # fSave.name /\ fSave'.step = "idle" /\ UNCHANGED <<fFinal, fPhase, fLeft, fStuck>>
    BY <1>7, EmptyFacts DEF FUnlink
  <2> QED
    BY <1>k, <2>1, KnownKept
<1>8. CASE FFailsAny
  <2>1. n \in fStaged /\ fSave'.step = "idle" /\ UNCHANGED <<fFinal, fPhase>>
        /\ fLeft \subseteq fLeft' /\ fStuck \subseteq fStuck' /\ fPhase = "ready" /\ fSave.step # "idle"
    BY <1>0, <1>8, FailEffect, EmptyFacts
  <2>2. FRecordOf(n)' = FRecordOf(n) /\ FPublished(n)' = FPublished(n)
    BY <2>1 DEF FRecordOf, FPublished
  <2>3. CASE n = fSave.name
    <3>1. ~FPrepareFails
      BY <1>0, <2>1, <2>3 DEF FPrepareFails, FSaveSound
    <3>2. CASE FUnlinkFails
      <4>1. FPublished(n) /\ (n.store = "decision" => n \in fStuck')
        BY <1>0, <2>3, <3>2 DEF FUnlinkFails, FSaveSound
      <4> QED
        BY <1>k, <2>1, <2>2, <4>1 DEF FNameKnown
    <3>3. CASE FWriteFails \/ FLinkFails
      <4>1. n.store # "decision" /\ n.ino \in fLeft'
        BY <2>3, <3>3 DEF FWriteFails, FLinkFails, FLeaves
      <4> QED
        BY <1>k, <2>1, <2>2, <4>1 DEF FNameKnown
    <3> QED
      BY <1>8, <3>1, <3>2, <3>3 DEF FFailsAny
  <2>4. CASE n # fSave.name
    BY <1>k, <2>1, <2>2, <2>4 DEF FNameKnown
  <2> QED
    BY <2>3, <2>4
<1>9. ASSUME NEW who \in FRepairers, FReads(who) PROVE FNameKnown(n)'
  <2>1. n \in fStaged /\ UNCHANGED <<fPhase, fFinal, fLeft, fStuck>>
        /\ (who = "save" => fSave.step = "reading")
    BY <1>0, <1>9, ReadsLittle
  <2>2. fSave' # fSave => fSave.step = "reading" /\ n # fSave.name
    <3>1. PICK r \in FRepairType : FReadsTo(who, r)
      BY <1>0, <1>9, ReadsSomewhere
    <3> QED
      BY <1>0, <2>1, <3>1 DEF FReadsTo, FSaveSound
  <2> QED
    BY <1>0, <1>k, <1>9, <2>1, <2>2, ReadsSave, EmptyFacts, KnownKept
<1>10. CASE FCrash
  <2>1. n \in fStaged /\ fSave'.step = "idle" /\ fPhase' = "down" /\ UNCHANGED <<fFinal, fLeft>>
    BY <1>10, EmptyFacts DEF FCrash
  <2>2. FRecordOf(n)' = FRecordOf(n) /\ FPublished(n)' = FPublished(n)
    BY <2>1 DEF FRecordOf, FPublished
  <2> QED
    BY <1>k, <2>1, <2>2 DEF FNameKnown
<1>11. CASE FStartDecisions \/ FStartAttempts \/ FStartStatuses
  <2>1. n \in fStaged /\ fSave' = fSave /\ fSave.step = "idle" /\ UNCHANGED <<fFinal, fLeft, fStuck>>
    BY <1>0, <1>11 DEF FStartDecisions, FStartAttempts, FStartStatuses, FCheck, FSaveSound
  <2>2. FRecordOf(n)' = FRecordOf(n) /\ FPublished(n)' = FPublished(n)
    BY <2>1 DEF FRecordOf, FPublished
  <2>3. n.store \in FStores
    BY <1>0, <1>k, <2>1, NameFacts
  <2>4. CASE fPhase' = "refused"
    BY <1>k, <2>1, <2>2, <2>4 DEF FNameKnown
  <2>5. CASE FStartDecisions /\ fPhase' # "refused"
    <3>1. fPhase' = "attempts" /\ n.store # "decision"
      BY <2>5 DEF FStartDecisions, FCheck, FStagedIn
    <3> QED
      BY <1>k, <2>1, <2>2, <3>1 DEF FNameKnown
  <2>6. CASE FStartAttempts /\ fPhase' # "refused"
    <3>1. fPhase = "attempts" /\ fPhase' = "statuses" /\ n.store \notin {"issue", "revoke"}
      BY <2>6 DEF FStartAttempts, FCheck, FStagedIn
    <3> QED
      BY <1>k, <2>1, <2>2, <2>3, <3>1 DEF FNameKnown, FStores
  <2>7. CASE FStartStatuses /\ fPhase' # "refused"
    <3>1. fPhase = "statuses" /\ n.store # "status"
      BY <2>7 DEF FStartStatuses, FCheck, FStagedIn
    <3> QED
      BY <1>k, <2>1, <3>1 DEF FNameKnown
  <2> QED
    BY <1>11, <2>4, <2>5, <2>6, <2>7
<1> QED
  BY <1>1, <1>2, <1>3, <1>4, <1>5, <1>6, <1>7, <1>8, <1>9, <1>10, <1>11
     DEF FilesNext, FReads, FFailsAny

\* The attempts number 1 .. k; k is then their count.
LEMMA NumberedCount ==
  ASSUME NEW k \in Nat, FRecordsIn("issue") = 1 .. k
  PROVE  FCurrent = k
<1>1. Cardinality(1 .. k) = k
  BY FS_Interval
<1> QED
  BY <1>1 DEF FCurrent

LEMMA NumberedStep ==
  ASSUME FilesInv, [FilesNext]_fVars
  PROVE  FNumbered'
<1>0. FTyped /\ FSaveSound /\ FRepairSound /\ FLeftoversKnown
  BY DEF FilesInv
<1>1. PICK k \in Nat :
        /\ FRecordsIn("issue") = 1 .. k
        /\ FRecordsIn("revoke") \subseteq 1 .. k /\ FRecordsIn("status") \subseteq 1 .. k
        /\ FActive /\ fSave.name.store = "issue" /\ fSave.step # "linked" => fSave.name.id = k + 1
        /\ FActive /\ fSave.name.store \in {"revoke", "status"} => fSave.name.id \in 1 .. k
  BY DEF FilesInv, FNumbered
<1>2. ASSUME UNCHANGED fFinal,
             fSave'.step # "idle" => /\ fSave'.name = fSave.name /\ fSave.step # "idle"
                                     /\ fSave.step = "linked" => fSave'.step = "linked"
      PROVE  FNumbered'
  BY <1>1, <1>2 DEF FNumbered, FRecordsIn
<1>3. ASSUME NEW s \in FStores, NEW i \in FRecords, FBegin(s, i) PROVE FNumbered'
  <2>1. fSave'.name.store = s /\ fSave'.name.id = i /\ FNeeded(s, i) /\ fFinal' = fFinal
    BY <1>0, <1>3, BeginEffect
  <2>2. FCurrent = k /\ FRecordsIn("issue") \subseteq FRecords
    BY <1>1, NumberedCount DEF FRecordsIn
  <2>3. s = "issue" => i = k + 1
    BY <2>1, <2>2 DEF FNeeded
  <2>4. s \in {"revoke", "status"} => i = k
    <3>1. CASE s = "revoke"
      BY <2>1, <2>2, <3>1 DEF FNeeded
    <3>2. CASE s = "status"
      BY <2>1, <2>2, <3>2 DEF FNeeded
    <3> QED
      BY <3>1, <3>2
  <2>5. s \in {"revoke", "status"} => i \in 1 .. k
    BY <2>4 DEF FRecords
  <2> QED
    BY <1>1, <2>1, <2>3, <2>5 DEF FNumbered, FRecordsIn
<1>4. CASE Linked
  <2>1. fSave.step = "written" /\ fSave'.step = "linked" /\ fSave'.name = fSave.name
        /\ fSave.name.store \in FStores /\ fSave.name.id \in FRecords /\ fSave.name.ino # 0
    BY <1>0, <1>4, NameFacts DEF Linked
  <2>2. \A s \in FStores : FRecordsIn(s)' = IF s = fSave.name.store
                                            THEN FRecordsIn(s) \cup {fSave.name.id} ELSE FRecordsIn(s)
    BY <1>4, <2>1 DEF Linked, FRecordsIn
  <2>3. FRecordsIn("issue")' = IF "issue" = fSave.name.store
                               THEN FRecordsIn("issue") \cup {fSave.name.id} ELSE FRecordsIn("issue")
    BY <2>2 DEF FStores
  <2>4. FRecordsIn("revoke")' = IF "revoke" = fSave.name.store
                               THEN FRecordsIn("revoke") \cup {fSave.name.id} ELSE FRecordsIn("revoke")
    BY <2>2 DEF FStores
  <2>5. FRecordsIn("status")' = IF "status" = fSave.name.store
                               THEN FRecordsIn("status") \cup {fSave.name.id} ELSE FRecordsIn("status")
    BY <2>2 DEF FStores
  <2>6. CASE fSave.name.store = "issue"
    <3>0. 1 .. (k + 1) = (1 .. k) \cup {k + 1}
      OBVIOUS
    <3>1. FRecordsIn("issue")' = 1 .. (k + 1)
      BY <1>1, <2>1, <2>3, <2>6, <3>0
    <3>2. FRecordsIn("revoke")' \subseteq 1 .. (k + 1) /\ FRecordsIn("status")' \subseteq 1 .. (k + 1)
      BY <1>1, <2>4, <2>5, <2>6
    <3> QED
      BY <2>1, <2>6, <3>1, <3>2 DEF FNumbered
  <2>7. CASE fSave.name.store # "issue"
    <3>1. FRecordsIn("issue")' = 1 .. k
      BY <1>1, <2>3, <2>7
    <3>2. FRecordsIn("revoke")' \subseteq 1 .. k /\ FRecordsIn("status")' \subseteq 1 .. k
      BY <1>1, <2>1, <2>4, <2>5, <2>7
    <3> QED
      BY <1>1, <2>1, <2>7, <3>1, <3>2 DEF FNumbered
  <2> QED
    BY <2>6, <2>7
<1>5. CASE FMakeDirectory \/ FStage \/ FWrite
  BY <1>0, <1>2, <1>5 DEF FMakeDirectory, FStage, FWrite, FTyped, FSaveType
<1>6. CASE FLink
  BY <1>0, <1>4, <1>6, LinkIsLinked
<1>7. CASE FFailsAny
  BY <1>0, <1>2, <1>7, FailEffect, EmptyFacts
<1>8. ASSUME NEW who \in FRepairers, FReads(who) PROVE FNumbered'
  BY <1>0, <1>2, <1>8, ReadsLittle, ReadsSave, EmptyFacts
<1>9. CASE FUnlink \/ FCrash
  BY <1>2, <1>9, EmptyFacts DEF FUnlink, FCrash
<1>10. CASE FStartDecisions \/ FStartAttempts \/ FStartStatuses
  BY <1>2, <1>10 DEF FStartDecisions, FStartAttempts, FStartStatuses, FCheck
<1>11. CASE UNCHANGED fVars
  BY <1>2, <1>11
<1> QED
  BY <1>3, <1>5, <1>6, <1>7, <1>8, <1>9, <1>10, <1>11 DEF FilesNext, FReads, FFailsAny

\* The link counts that startup reads.
LEMMA LinkCounts ==
  ASSUME FTyped, NEW n \in FNames
  PROVE  /\ FPublished(n) => FLinks(n) = 2
         /\ FRecordOf(n) = 0 => FLinks(n) = 1
BY NameFacts DEF FLinks, FPublished

\* One status has one staging name that is its second link.
LEMMA OneSecondLink ==
  ASSUME FTyped, NEW id \in FRecords,
         \A n \in FStagedIn({"status"}) : n.id = id => FPublished(n)
  PROVE  Cardinality({n \in FStagedIn({"status"}) : n.id = id}) <= 1
<1> DEFINE S == {n \in FStagedIn({"status"}) : n.id = id}
<1>1. ASSUME NEW m \in S, NEW n \in S PROVE m = n
  <2>1. m \in FNames /\ n \in FNames
    BY DEF FTyped, FStagedIn
  <2>2. m.store = "status" /\ n.store = "status" /\ m.id = id /\ n.id = id
    BY DEF FStagedIn
  <2>3. m.ino = fFinal["status"][id] /\ n.ino = fFinal["status"][id]
    BY <2>2 DEF FPublished, FRecordOf
  <2> QED
    BY <2>1, <2>2, <2>3 DEF FNames
<1>2. CASE S = {}
  BY <1>2, FS_EmptySet
<1>3. CASE S # {}
  <2>1. PICK m : m \in S
    BY <1>3
  <2>2. S = {m}
    BY <1>1, <2>1
  <2>3. Cardinality({m}) = 1
    BY FS_Singleton
  <2> QED
    BY <2>2, <2>3
<1> QED
  BY <1>2, <1>3

LEMMA RestartStep ==
  ASSUME FilesInv, [FilesNext]_fVars
  PROVE  FRestartAccepts'
<1>0. FTyped /\ FSaveSound /\ FRepairSound /\ FLeftoversKnown /\ FRecordsFull /\ FRestartAccepts
  BY DEF FilesInv
<1> SUFFICES ASSUME fPhase' = "refused" PROVE FRestartAccepts'
  BY DEF FRestartAccepts
<1>n. \A n \in fStaged : n \in FNames /\ FNameKnown(n) /\ n.store \in FStores /\ n.ino \in FInodes
  BY <1>0, NameFacts DEF FLeftoversKnown, FTyped
<1>f. \A n \in fStaged : FPublished(n) => fContent[n.ino] = "full"
  <2> SUFFICES ASSUME NEW n \in fStaged, FPublished(n) PROVE fContent[n.ino] = "full"
    OBVIOUS
  <2>1. n.store \in FStores /\ n.id \in FRecords /\ n.ino # 0
    BY <1>0, <1>n, NameFacts
  <2> QED
    BY <1>0, <2>1 DEF FRecordsFull, FPublished, FRecordOf
<1>c. PICK k \in Nat : /\ FRecordsIn("issue") = 1 .. k
                       /\ FRecordsIn("revoke") \subseteq 1 .. k /\ FRecordsIn("status") \subseteq 1 .. k
  BY DEF FilesInv, FNumbered
<1>d. FRecordsIn("issue") = 1 .. Cardinality(FRecordsIn("issue"))
  BY <1>c, NumberedCount DEF FCurrent
<1>e. \A s \in FStores : \A id \in FRecordsIn(s) : fContent[fFinal[s][id]] = "full"
  BY <1>0 DEF FRecordsFull, FRecordsIn
<1>1. CASE UNCHANGED fVars
  BY <1>0, <1>1 DEF FRestartAccepts, FStagedIn, FRecordOf
<1> DEFINE Reason ==
      \/ \E tree \in FTrees : fDirs[tree] = "part"
      \/ \E n \in FStagedIn({"decision"}) : FRecordOf(n) = 0
      \/ \E n \in FStagedIn({"revoke", "status"}) : n.ino \in fLeft /\ FRecordOf(n) # 0
      \/ \E n \in FStagedIn({"status"}) : fContent[n.ino] = "bare"
<1>2. ASSUME Reason, UNCHANGED <<fDirs, fStaged, fFinal, fContent, fLeft>> PROVE FRestartAccepts'
  BY <1>2 DEF FRestartAccepts, FStagedIn, FRecordOf
<1>p. ASSUME NEW stores, stores \subseteq FStores, ~Reason,
             NEW store \in stores, fDirs[FTree(store)] = "part"
      PROVE  FALSE
  BY <1>p DEF FTree, FTrees, FStores
<1>3. CASE FStartDecisions /\ ~Reason
  <2>1. ~FDecisionsReadable /\ UNCHANGED <<fDirs, fStaged, fFinal, fContent, fLeft>>
    BY <1>p, <1>3 DEF FStartDecisions, FCheck, FStores
  <2>2. PICK n \in FStagedIn({"decision"}) : ~FMatches(n)
    BY <1>e, <2>1 DEF FDecisionsReadable, FStores
  <2>3. FRecordOf(n) = 0
    BY <1>0, <1>n, <2>2, LinkCounts DEF FStagedIn, FMatches, FNameKnown
  <2> QED
    BY <1>2, <2>1, <2>2, <2>3
<1>4. CASE FStartAttempts /\ ~Reason
  <2>1. ~FAttemptsAccepted /\ UNCHANGED <<fDirs, fStaged, fFinal, fContent, fLeft>>
    BY <1>p, <1>4 DEF FStartAttempts, FCheck, FStores
  <2>2. PICK n \in FStagedIn({"issue", "revoke"}) : ~FTemporaryAccepted(n)
    BY <1>c, <1>d, <1>e, <2>1 DEF FAttemptsAccepted, FStores
  <2>3. n \in fStaged /\ n \in FNames /\ n.store \in {"issue", "revoke"} /\ FNameKnown(n)
    BY <1>n, <2>2 DEF FStagedIn
  <2>4. FRecordOf(n) # 0 /\ ~FPublished(n)
    BY <1>0, <2>2, <2>3, LinkCounts DEF FTemporaryAccepted, FMatches
  <2>5. n.store = "revoke" /\ n.ino \in fLeft
    BY <2>3, <2>4 DEF FNameKnown
  <2>6. n \in FStagedIn({"revoke", "status"})
    BY <2>3, <2>5 DEF FStagedIn
  <2> QED
    BY <1>2, <2>1, <2>4, <2>5, <2>6
<1>5. CASE FStartStatuses /\ ~Reason
  <2>1. ~FStatusesAccepted /\ UNCHANGED <<fDirs, fStaged, fFinal, fContent, fLeft>>
    BY <1>p, <1>5 DEF FStartStatuses, FCheck, FStores
  <2>2. ASSUME ~Reason, NEW n \in FStagedIn({"status"})
        PROVE  FDigestAccepted(n) /\ FPublicationAccepted(n) /\ (FPublished(n) \/ FRecordOf(n) = 0)
    <3>1. n \in fStaged /\ n \in FNames /\ n.store = "status" /\ FNameKnown(n) /\ n.ino \in FInodes
      BY <1>n, <2>2 DEF FStagedIn
    <3>2. FPublished(n) \/ FRecordOf(n) = 0
      BY <2>2, <3>1 DEF FNameKnown, FStagedIn
    <3>3. fContent[n.ino] \in {"cut", "full"}
      <4>1. fContent[n.ino] \in FContents
        BY <1>0, <3>1 DEF FTyped
      <4> QED
        BY <2>2, <4>1 DEF FContents
    <3>4. FDigestAccepted(n)
      BY <1>0, <1>f, <3>1, <3>2, <3>3, LinkCounts DEF FDigestAccepted
    <3>5. FPublicationAccepted(n)
      BY <1>0, <3>1, <3>2, LinkCounts DEF FPublicationAccepted, FMatches
    <3> QED
      BY <3>2, <3>4, <3>5
  <2>3. ASSUME ~Reason, NEW id \in FRecordsIn("status")
        PROVE  Cardinality({n \in FStagedIn({"status"}) : n.id = id}) <= 1
    <3>1. id \in FRecords /\ fFinal["status"][id] # 0
      BY <2>3 DEF FRecordsIn
    <3>2. ASSUME NEW n \in FStagedIn({"status"}), n.id = id PROVE FPublished(n)
      BY <2>2, <2>3, <3>1, <3>2 DEF FRecordOf, FStagedIn
    <3> QED
      BY <1>0, <3>1, <3>2, OneSecondLink
  <2>4. ASSUME ~Reason PROVE FALSE
    <3>1. \A n \in FStagedIn({"status"}) : FDigestAccepted(n) /\ FPublicationAccepted(n)
      BY <2>2, <2>4
    <3>2. \A id \in FRecordsIn("status") :
             /\ fContent[fFinal["status"][id]] = "full"
             /\ Cardinality({n \in FStagedIn({"status"}) : n.id = id}) <= 1
      BY <1>e, <2>3, <2>4 DEF FStores
    <3>3. FRecordsIn("status") \subseteq FRecordsIn("issue")
      BY <1>c
    <3> QED
      BY <2>1, <3>1, <3>2, <3>3 DEF FStatusesAccepted
  <2> QED
    BY <1>2, <2>1, <2>4
<1>6. CASE Reason /\ (FStartDecisions \/ FStartAttempts \/ FStartStatuses)
  BY <1>2, <1>6 DEF FStartDecisions, FStartAttempts, FStartStatuses, FCheck
<1>7. fPhase = "refused" \/ FStartDecisions \/ FStartAttempts \/ FStartStatuses
  <2>1. ASSUME NEW who \in FRepairers, FReads(who) PROVE FALSE
    BY <1>0, <2>1, ReadsLittle
  <2> QED
    BY <1>0, <2>1 DEF FilesNext, FReads, FBegin, FMakeDirectory, FStage, FWrite, FLink, FUnlink,
       FPrepareFails, FWriteFails, FLinkFails, FUnlinkFails, FFails, FCrash
<1>8. CASE fPhase = "refused"
  <2>1. fSave.step = "idle" /\ \A who \in FRepairers : ~FReads(who)
    BY <1>0, <1>8, ReadsLittle DEF FSaveSound
  <2>2. UNCHANGED fVars
    BY <1>8, <2>1 DEF FilesNext, FReads, FBegin, FMakeDirectory, FStage, FWrite, FLink, FUnlink,
       FPrepareFails, FWriteFails, FLinkFails, FUnlinkFails, FCrash, FStartDecisions, FStartAttempts,
       FStartStatuses, FCheck
  <2> QED
    BY <1>1, <2>2
<1> QED
  BY <1>3, <1>4, <1>5, <1>6, <1>7, <1>8

LEMMA FilesStart == FilesInit => FilesInv
<1> SUFFICES ASSUME FilesInit PROVE FilesInv
  OBVIOUS
<1>2. \A s \in FStores, i \in FRecords : fFinal[s][i] = 0
  BY DEF FilesInit
<1>3. FTyped
  <2>1. fFinal \in [FStores -> [FRecords -> 0 .. FMaxSaves]]
    BY FilesAssumption DEF FilesInit
  <2>2. fContent \in [FInodes -> FContents]
    BY DEF FilesInit, FContents
  <2>3. fDirs \in [FTrees -> FDirs] /\ fRepair \in [FRepairers -> FRepairType]
    BY EmptyFacts DEF FilesInit, FDirs
  <2> QED
    BY <1>2, <2>1, <2>2, <2>3, EmptyFacts, FilesAssumption DEF FTyped, FilesInit
<1>4. FRecordsFull /\ FSaveSound /\ FRepairSound /\ FLeftoversKnown
  BY <1>2, EmptyFacts DEF FilesInit, FRecordsFull, FSaveSound, FRepairSound, FLeftoversKnown, FRepairers
<1>5. FNumbered
  <2>1. \A s \in FStores : FRecordsIn(s) = {}
    BY <1>2 DEF FRecordsIn
  <2>2. 0 \in Nat /\ 1 .. 0 = {}
    OBVIOUS
  <2> QED
    BY <2>1, <2>2, EmptyFacts DEF FNumbered, FStores, FilesInit
<1>6. FAnswersAreTrue /\ FRestartAccepts
  BY DEF FilesInit, FAnswersAreTrue, FRestartAccepts
<1> QED
  BY <1>3, <1>4, <1>5, <1>6 DEF FilesInv

LEMMA FilesInductive == FilesSpec => []FilesInv
<1>1. FilesInv /\ [FilesNext]_fVars => FilesInv'
  BY FTypedStep, FullStep, SaveStep, RepairStep, LeftoversStep, NumberedStep, AnswersStep, RestartStep
     DEF FilesInv
<1> QED
  BY FilesStart, <1>1, PTL DEF FilesSpec

(***************************************************************************)
(* FAnswersAreTrue holds of every behaviour: no GET outside the queue      *)
(* takes the staging name from under a save, a save's own reading fails    *)
(* only after this process failed to remove an earlier staging name, and   *)
(* what was answered stays published and complete through failures,        *)
(* retries, crashes and repairs.                                           *)
(***************************************************************************)
THEOREM AnswersStayTrue == FilesSpec => []FAnswersAreTrue
<1>1. FilesInv => FAnswersAreTrue
  BY DEF FilesInv
<1> QED
  BY FilesInductive, <1>1, PTL

(***************************************************************************)
(* FRestartAccepts holds of every behaviour: native-bundle-startup.ts      *)
(* refuses the record files for the four named reasons only.               *)
(***************************************************************************)
THEOREM RestartRefusesForFourReasons == FilesSpec => []FRestartAccepts
<1>1. FilesInv => FRestartAccepts
  BY DEF FilesInv
<1> QED
  BY FilesInductive, <1>1, PTL
===============================================================================
