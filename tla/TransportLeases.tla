---------------------------- MODULE TransportLeases ----------------------------
(***************************************************************************)
(* The short-lived Git credentials of the installed native Git service and *)
(* its shutdown (native-root-read-lifecycle.ts, native-workspace-write-    *)
(* lifecycle.ts, native-project-root-read-http.ts, native-project-         *)
(* workspace-write-http.ts, native-candidate-read-http.ts,                 *)
(* native-bundle-shutdown.ts).                                             *)
(*                                                                         *)
(* A client slot is one HTTP client of one kind with at most one lease.    *)
(* Every lease and Git request awaits a live proof; meanwhile the lease    *)
(* may expire and the service may begin to close.  Root reads and          *)
(* workspace writes hold a place of the operation gate from before the     *)
(* proof to the end of the Git backend, writes in the review queue as      *)
(* well; a candidate read holds both for its proof only.                   *)
(***************************************************************************)
EXTENDS Naturals, FiniteSets, Sequences

CONSTANTS TReaders, TWriters, TCandidates,  \* client slots of each kind
          TOperations,                      \* places of the operation gate
          TCapacity,                        \* unexpired leases of a registry
          TMaxRequests                      \* bound on the requests of a client

ASSUME TransportAssumption ==
    /\ TOperations \in Nat \ {0} /\ TCapacity \in Nat \ {0} /\ TMaxRequests \in Nat
    /\ TReaders \cap TWriters = {} /\ (TReaders \cup TWriters) \cap TCandidates = {}

TClients == TReaders \cup TWriters \cup TCandidates

VARIABLES
    tShutdown,   \* "serving", "dispatcher", "draining", "closing", "released"
    tOpen,       \* the gate admits operations
    tActive,     \* operations that hold a place of the gate
    tQueue,      \* the review controller's queue of clients; the head runs
    tLease,      \* [TClients -> "none", "live", "expired"]
    tStage,      \* [TClients -> what its request does]
    tRequests    \* [TClients -> requests so far]

tVars == <<tShutdown, tOpen, tActive, tQueue, tLease, tStage, tRequests>>

TransportInit ==
    /\ tShutdown = "serving" /\ tOpen = TRUE
    /\ tActive = 0 /\ tQueue = <<>>
    /\ tLease = [c \in TClients |-> "none"]
    /\ tStage = [c \in TClients |-> "idle"]
    /\ tRequests = [c \in TClients |-> 0]

TGoes(c, stage) == tStage' = [tStage EXCEPT ![c] = stage]
TClosed == tShutdown # "serving"

(* Readers ask the gate at once, the other kinds ask it at the head of the *)
(* review queue; writers ask for a lease as readers do.                    *)
TGateFirst(c, stage) == c \in TReaders \/ (c \in TWriters /\ stage = "leasing")

TPlace == tOpen /\ tActive < TOperations
TRegistry(c) == IF c \in TReaders THEN TReaders ELSE TWriters

(* A new request reaches a service that is not closed.                     *)
TArrives(c) ==
    /\ ~TClosed
    /\ tStage[c] = "idle" /\ tRequests[c] < TMaxRequests
    /\ tRequests' = [tRequests EXCEPT ![c] = @ + 1]

TAdmits(c, stage) ==
    \/ /\ TGateFirst(c, stage)
       /\ TPlace
       /\ tActive' = tActive + 1
       /\ TGoes(c, stage)
       /\ UNCHANGED tQueue
    \/ /\ TGateFirst(c, stage)
       /\ ~TPlace
       /\ UNCHANGED <<tActive, tStage, tQueue>>
    \/ /\ ~TGateFirst(c, stage)
       /\ tQueue' = Append(tQueue, c)
       /\ TGoes(c, IF stage = "leasing" THEN "lease queued" ELSE "git queued")
       /\ UNCHANGED tActive

(* handleLeaseRequest                                                      *)
TAskLease(c) ==
    /\ TArrives(c)
    /\ TAdmits(c, "leasing")
    /\ UNCHANGED <<tShutdown, tOpen, tLease>>

(* serveGit authenticates the lease before it waits for anything.          *)
TAskGit(c) ==
    /\ TArrives(c)
    /\ tLease[c] = "live"
    /\ TAdmits(c, "proving")
    /\ UNCHANGED <<tShutdown, tOpen, tLease>>

(* reviewController.run: the head of the queue takes a place of the gate,  *)
(* or fails when there is none.                                            *)
TRun(c) ==
    /\ tQueue # <<>> /\ Head(tQueue) = c
    /\ tStage[c] \in {"lease queued", "git queued"}
    /\ \/ /\ TPlace
          /\ tActive' = tActive + 1
          /\ TGoes(c, IF tStage[c] = "lease queued" THEN "leasing" ELSE "proving")
          /\ UNCHANGED tQueue
       \/ /\ ~TPlace
          /\ tQueue' = Tail(tQueue)
          /\ TGoes(c, "idle")
          /\ UNCHANGED tActive
    /\ UNCHANGED <<tShutdown, tOpen, tLease, tRequests>>

(* release, and the next of the queue's turn.                              *)
TReleases(c) ==
    /\ tActive' = tActive - 1
    /\ tQueue' = IF tQueue # <<>> /\ Head(tQueue) = c THEN Tail(tQueue) ELSE tQueue

(* issue prunes expired leases, then refuses at the registry's capacity.   *)
TIssuable(c) == Cardinality({d \in TRegistry(c) \ {c} : tLease[d] = "live"}) < TCapacity

(* The proof held: a lease is issued while the gate is open, also after    *)
(* the registries were cleared.                                            *)
TIssued(c) == IF tOpen /\ TIssuable(c) THEN [tLease EXCEPT ![c] = "live"] ELSE tLease

TIssue(c) ==
    /\ tStage[c] = "leasing" /\ c \notin TCandidates
    /\ tLease' = TIssued(c)
    /\ TReleases(c)
    /\ TGoes(c, "idle")
    /\ UNCHANGED <<tShutdown, tOpen, tRequests>>

(* A candidate lease has no limit, and is issued whatever happened to the  *)
(* service while the attempt was proved.                                   *)
TIssueCandidate(c) ==
    /\ tStage[c] = "leasing" /\ c \in TCandidates
    /\ tLease' = [tLease EXCEPT ![c] = "live"]
    /\ TReleases(c)
    /\ TGoes(c, "idle")
    /\ UNCHANGED <<tShutdown, tOpen, tRequests>>

(* The proof failed: the request is answered with the failure.             *)
TProofFails(c) ==
    /\ tStage[c] \in {"leasing", "proving"}
    /\ TReleases(c)
    /\ TGoes(c, "idle")
    /\ UNCHANGED <<tShutdown, tOpen, tLease, tRequests>>

\* Mutant: the lease is not authenticated again after the proof.
TAuthenticatedBefore(c) == tOpen

(* After the proof: the gate is still open, the lease still authenticates. *)
TAuthenticated(c) == tOpen /\ tLease[c] = "live"

(* serveGit of the root read and the workspace write service.  A push      *)
(* reads the proposal refs before its backend, any other request spawns it.*)
TServe(c) ==
    /\ tStage[c] = "proving" /\ c \notin TCandidates
    /\ \/ /\ TAuthenticated(c)
          /\ TGoes(c, "backend") \/ (c \in TWriters /\ TGoes(c, "refs"))
          /\ UNCHANGED <<tActive, tQueue>>
       \/ /\ ~TAuthenticated(c)
          /\ TReleases(c)
          /\ TGoes(c, "idle")
    /\ UNCHANGED <<tShutdown, tOpen, tLease, tRequests>>

(* readNativeProposalRefs: a Git child of up to thirty seconds, after which *)
(* neither the lease nor the gate is asked again; it may fail.             *)
TReadRefs(c) ==
    /\ tStage[c] = "refs" /\ c \in TWriters
    /\ \/ TGoes(c, "backend") /\ UNCHANGED <<tActive, tQueue>>
       \/ TReleases(c) /\ TGoes(c, "idle")
    /\ UNCHANGED <<tShutdown, tOpen, tLease, tRequests>>

(* serveGit of the candidate service: the attempt is proved again inside   *)
(* the queue, and the backend runs outside it and outside the gate.        *)
TServeCandidate(c) ==
    /\ tStage[c] = "proving" /\ c \in TCandidates
    /\ TReleases(c)
    /\ TGoes(c, "backend")
    /\ UNCHANGED <<tShutdown, tOpen, tLease, tRequests>>

(* The Git backend exits, is killed at its timeout, or loses its client.   *)
TBackendEnds(c) ==
    /\ tStage[c] = "backend"
    /\ TGoes(c, "idle")
    /\ IF c \in TCandidates THEN UNCHANGED <<tActive, tQueue>> ELSE TReleases(c)
    /\ UNCHANGED <<tShutdown, tOpen, tLease, tRequests>>

(* Thirty seconds after its issue.                                         *)
TExpire(c) ==
    /\ tLease[c] = "live"
    /\ tLease' = [tLease EXCEPT ![c] = "expired"]
    /\ UNCHANGED <<tShutdown, tOpen, tActive, tQueue, tStage, tRequests>>

-----------------------------------------------------------------------------
(* Shutdown: admission stops and the registries are cleared at once, ...   *)
TStopAdmission ==
    /\ tShutdown = "serving"
    /\ tShutdown' = "dispatcher"
    /\ tLease' = [c \in TClients |-> "none"]
    /\ UNCHANGED <<tOpen, tActive, tQueue, tStage, tRequests>>

(* ... the gate closes after the event dispatcher, ...                     *)
TCloseGate ==
    /\ tShutdown = "dispatcher"
    /\ tShutdown' = "draining"
    /\ tOpen' = FALSE
    /\ UNCHANGED <<tActive, tQueue, tLease, tStage, tRequests>>

\* Mutant: only the review queue is drained.
TIdleQueue == tQueue = <<>>

(* ... the review queue and the gate drain, ...                            *)
TIdle == tQueue = <<>> /\ tActive = 0

TDrain ==
    /\ tShutdown = "draining"
    /\ TIdle
    /\ tShutdown' = "closing"
    /\ UNCHANGED <<tOpen, tActive, tQueue, tLease, tStage, tRequests>>

(* ... the server closes its connections and the storage is released.      *)
TRelease ==
    /\ tShutdown = "closing"
    /\ tShutdown' = "released"
    /\ UNCHANGED <<tOpen, tActive, tQueue, tLease, tStage, tRequests>>

TransportStep(c) ==
    \/ TAskLease(c) \/ TAskGit(c) \/ TRun(c) \/ TIssue(c) \/ TIssueCandidate(c) \/ TProofFails(c)
    \/ TServe(c) \/ TReadRefs(c) \/ TServeCandidate(c) \/ TBackendEnds(c) \/ TExpire(c)

TransportNext ==
    \/ \E c \in TClients : TransportStep(c)
    \/ TStopAdmission \/ TCloseGate \/ TDrain \/ TRelease

TransportSpec == TransportInit /\ [][TransportNext]_tVars

-----------------------------------------------------------------------------
TransportTypeOK ==
    /\ tShutdown \in {"serving", "dispatcher", "draining", "closing", "released"}
    /\ tOpen \in BOOLEAN
    /\ tActive \in 0 .. TOperations
    /\ tQueue \in Seq(TClients)
    /\ tLease \in [TClients -> {"none", "live", "expired"}]
    /\ tStage \in [TClients -> {"idle", "lease queued", "git queued", "leasing", "proving", "refs", "backend"}]
    /\ tRequests \in [TClients -> 0 .. TMaxRequests]

(* When the service gives its storage up, no proof of any request and no   *)
(* backend of a root read or a workspace write is still at work on it,     *)
(* however the requests and the steps of the shutdown interleaved.         *)
TStorageQuiet ==
    tShutdown = "released" =>
        \A c \in TClients : /\ tStage[c] \notin {"leasing", "proving", "refs"}
                            /\ c \notin TCandidates => tStage[c] # "backend"

(* Git work for a root read or a workspace write begins only on a lease    *)
(* that is live then, not on one that was live when the request came, and  *)
(* never once the service stopped admission.  The backend of a push, which *)
(* waits for the proposal refs, may begin after its lease expired and      *)
(* during the shutdown, but not once the service lets its storage go.      *)
TBackendOnLiveLease ==
    [][\A c \in TReaders \cup TWriters :
          /\ tStage[c] \notin {"refs", "backend"} /\ tStage'[c] \in {"refs", "backend"}
                => tLease[c] = "live" /\ tShutdown = "serving"
          /\ tStage[c] = "refs" /\ tStage'[c] = "backend"
                => tShutdown \notin {"closing", "released"}]_tVars

(* The backend of a candidate read never starts on an expired lease, as    *)
(* specification/specs/local-details/native-qemu.md:235-237 has it.        *)
TCandidateBackendUnexpired ==
    [][\A c \in TCandidates :
          tStage[c] # "backend" /\ tStage'[c] = "backend" => tLease[c] # "expired"]_tVars
=============================================================================
