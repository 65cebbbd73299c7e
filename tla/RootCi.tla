------------------------------- MODULE RootCi -------------------------------
(***************************************************************************)
(* Ordinary CI for one registered Project: demands queued by event intake, *)
(* claims on host capacities, attempts issued by native Git, host results, *)
(* the report outbox and its reporter, and the capacity workers with their *)
(* journals and containers.                                                *)
(*                                                                         *)
(* Three processes interleave: the ordinary CI service, native Git, and    *)
(* one worker per capacity. A service handler runs atomically between two  *)
(* awaits; the awaits of the issue, activation and recovery handlers are   *)
(* calls to native Git, so those handlers have stages and outlive a worker *)
(* that gave up on them (orphans). Reservation, result intake and renewal  *)
(* await nothing after their body is read and are one step. Requests of    *)
(* one capacity reach the service in the order they were sent.             *)
(*                                                                         *)
(* A demand is claimed at most once (demand_id is UNIQUE in the claims     *)
(* table), so the rows of demand, claim, claim receipt, host result and    *)
(* outbox form one record per demand, and the claim id is the demand.      *)
(* Demands are numbered in the order of created_at.                        *)
(***************************************************************************)
EXTENDS Naturals, FiniteSets

CONSTANTS
  Demands,       \* 1..n
  Capacities,    \* host capacities, each served by one worker
  ReportTries,   \* attempts of submitNativeResult (3 in the code)
  MaxMoves,      \* bound on root movements and replaced proposals
  MaxRestarts,   \* bound on restarts of ordinary CI
  MaxCrashes,    \* bound on worker crashes
  MaxFaults,     \* bound on lost replies, timeouts and failed cleanups
  MaxLapses,     \* bound on expiries of the eligibility lease
  None           \* no demand, no capacity, no handler

ASSUME RootCiAssumption ==
  /\ Demands \subseteq Nat \ {0}
  /\ IsFiniteSet(Demands)
  /\ None \notin Demands
  /\ None \notin Capacities
  /\ ReportTries \in Nat \ {0}
  /\ {MaxMoves, MaxRestarts, MaxCrashes, MaxFaults, MaxLapses} \subseteq Nat

DemandStates ==
  {"none", "queued", "preparing", "active", "reported", "completed", "superseded"}
ClaimStates ==
  {"none", "preparing", "active", "reported", "recovering", "released"}
Row ==
  [demand   : DemandStates,
   root     : Nat,                   \* root sequence of the event receipt
   claim    : ClaimStates,
   receipt  : ClaimStates \ {"preparing"},
   recovery : {"none", "requested", "revoked"},
   outbox   : {"none", "pending", "delivered", "denied"},
   order    : Nat,                   \* position of the result in created_at order
   owner    : Capacities \cup {None},
   epoch    : Nat,                   \* service epoch of the reservation
   lease    : BOOLEAN]               \* the execution lease has not expired
NoRow ==
  [demand |-> "none", root |-> 0, claim |-> "none", receipt |-> "none",
   recovery |-> "none", outbox |-> "none", order |-> 0, owner |-> None,
   epoch |-> 0, lease |-> FALSE]

Handlers ==
       [op : {"issue"}, demand : Demands, stage : {"issue", "reply"}]
  \cup [op : {"activate"}, demand : Demands, stage : {"prove", "commit"}]
  \cup [op : {"recover"}, demand : Demands,
        stage : {"prove", "prepare", "revoke", "complete"}]
Journals == [kind : {"none", "claim", "reserved", "activation", "active",
                     "result", "recovery"},
             demand : Demands \cup {None}]
NoJournal == [kind |-> "none", demand |-> None]

VARIABLES
  row,        \* SQLite: everything stored about a demand
  admission,  \* SQLite: root sequence and freshness of the eligibility lease
  epoch,      \* SQLite: the active service epoch
  up,         \* the service runs and its generation is activated
  handler,    \* the request each waiting worker waits for
  orphans,    \* handlers nobody waits for
  reporter,   \* the result reporter: phase and delivery
  journal,    \* host disk: the journal of each capacity
  requested,  \* the claim stored under the request id of that journal
  pc,         \* where each worker is
  tries,      \* failed submissions of the current result
  container,  \* docker: the running container of each capacity
  launched,   \* demands whose container was ever started
  head,       \* native Git: sequence of the protected root
  withdrawn,  \* native Git: demands whose proposal was replaced
  attempt,    \* native Git: the attempt issued for each claim
  status,     \* native Git: demands with a published terminal status
  moves, restarts, crashes, faults, lapses

store   == <<row, admission, epoch>>
serving == <<up, handler, orphans, reporter>>
hosts   == <<journal, requested, pc, tries, container, launched>>
native  == <<head, withdrawn, attempt, status>>
budget  == <<moves, restarts, crashes, faults, lapses>>
vars    == <<store, serving, hosts, native, budget>>

Init ==
  /\ row = [d \in Demands |-> NoRow]
  /\ admission = [sequence |-> 0, fresh |-> TRUE]
  /\ epoch = 0
  /\ up = TRUE
  /\ handler = [c \in Capacities |-> None]
  /\ orphans = {}
  /\ reporter = [phase |-> "idle", demand |-> None]
  /\ journal = [c \in Capacities |-> NoJournal]
  /\ requested = [c \in Capacities |-> None]
  /\ pc = [c \in Capacities |-> "down"]
  /\ tries = [c \in Capacities |-> 0]
  /\ container = [c \in Capacities |-> None]
  /\ launched = {}
  /\ head = 0
  /\ withdrawn = {}
  /\ attempt = [d \in Demands |-> "none"]
  /\ status = {}
  /\ moves = 0 /\ restarts = 0 /\ crashes = 0 /\ faults = 0 /\ lapses = 0
-----------------------------------------------------------------------------
(* Native Git. *)

\* deriveAuthoritativeOrdinaryExecutionDescriptor and the status route both
\* refuse a review that nativeHumanReviewStaleReasons calls stale.
ReviewCurrent(d) == head = row[d].root /\ d \notin withdrawn

\* currentAttemptProof: the attempt is current and unrevoked, and its
\* descriptor can be derived again.
AttemptProved(d) == attempt[d] = "issued" /\ ReviewCurrent(d)

RootMoves ==
  /\ moves < MaxMoves
  /\ head' = head + 1
  /\ moves' = moves + 1
  /\ UNCHANGED <<store, serving, hosts, withdrawn, attempt, status,
                 restarts, crashes, faults, lapses>>

Withdraw(d) ==
  /\ moves < MaxMoves
  /\ row[d].demand # "none" /\ d \notin withdrawn
  /\ withdrawn' = withdrawn \cup {d}
  /\ moves' = moves + 1
  /\ UNCHANGED <<store, serving, hosts, head, attempt, status,
                 restarts, crashes, faults, lapses>>
-----------------------------------------------------------------------------
(* Admission, demands and epochs. *)

\* Mutant: root movement supersedes demands that already run.
SupersededWhileActive(r) ==
  IF r.demand \in {"queued", "preparing", "active"}
  THEN [r EXCEPT !.demand = "superseded"] ELSE r

Superseded(r) ==
  IF r.demand \in {"queued", "preparing"}
  THEN [r EXCEPT !.demand = "superseded"] ELSE r

\* registerMutation with a policy proof that native Git gave at some sequence
\* not below the admitted one: a lower proof conflicts and changes nothing.
Register ==
  /\ up
  /\ \E s \in admission.sequence .. head :
       /\ admission' = [sequence |-> s, fresh |-> TRUE]
       /\ row' = IF s > admission.sequence
                 THEN [d \in Demands |-> Superseded(row[d])] ELSE row
  /\ UNCHANGED <<epoch, serving, hosts, native, budget>>

AdmissionLapses ==
  /\ lapses < MaxLapses
  /\ admission.fresh
  /\ admission' = [admission EXCEPT !.fresh = FALSE]
  /\ lapses' = lapses + 1
  /\ UNCHANGED <<row, epoch, serving, hosts, native,
                 moves, restarts, crashes, faults>>

\* commit: the event receipt and its queued demand, in one transaction.
CommitReceipt(d) ==
  /\ up /\ admission.fresh
  /\ row[d].demand = "none"
  /\ \A e \in Demands : e < d => row[e].demand # "none"
  /\ row' = [row EXCEPT ![d].demand = "queued",
                        ![d].root = admission.sequence]
  /\ UNCHANGED <<admission, epoch, serving, hosts, native, budget>>

\* The admission the claim rests on is active and still at the receipt's root.
AtAdmittedRoot(d) == row[d].root = admission.sequence

\* currentReservation, and verify for a claim of the serving epoch.
CurrentReservation(d) ==
  /\ row[d].claim = "preparing" /\ row[d].demand = "preparing"
  /\ admission.fresh /\ AtAdmittedRoot(d)
-----------------------------------------------------------------------------
(* The capacity worker: what happens to it when a call returns. *)

At(c, where) == pc' = [pc EXCEPT ![c] = where]
Journaled(c, kind, d) ==
  journal' = [journal EXCEPT ![c] = [kind |-> kind, demand |-> d]]
Cleared(c) == journal' = [journal EXCEPT ![c] = NoJournal]
JobOf(c) == journal[c].demand

\* recover: the recovery request is journaled before it is sent.
AsksRecovery(c) == Journaled(c, "recovery", JobOf(c)) /\ At(c, "recover")

\* A call threw: the worker rejects and its process ends. The journal stays.
Dies(c) == At(c, "down") /\ UNCHANGED journal

\* The service committed, but its reply never arrives.
ReplyLost(c) ==
  /\ faults < MaxFaults
  /\ faults' = faults + 1
  /\ Dies(c)
  /\ UNCHANGED <<moves, restarts, crashes, lapses>>

\* A service that is not activated answers 503; one that is down, nothing.
Unavailable(c) ==
  /\ ~up
  /\ pc[c] \in {"reserve", "issue", "activate", "recover", "replay"}
  /\ Dies(c)
  /\ UNCHANGED <<store, serving, requested, tries, container, launched,
                 native, budget>>

\* A handler that was waited for answers its worker; an orphan answers nobody.
Orphan(c) ==
  /\ orphans' = orphans \cup ({handler[c]} \ {None})
  /\ handler' = [handler EXCEPT ![c] = None]

Holds(s, h) == IF s = None THEN h \in orphans ELSE handler[s] = h

Advance(s, h, stage) ==
  LET next == [h EXCEPT !.stage = stage]
  IN  /\ orphans' = IF s = None THEN (orphans \ {h}) \cup {next} ELSE orphans
      /\ handler' = IF s = None THEN handler ELSE [handler EXCEPT ![s] = next]
      /\ UNCHANGED <<journal, pc>>

Ends(s, h) ==
  /\ orphans' = IF s = None THEN orphans \ {h} ELSE orphans
  /\ handler' = IF s = None THEN handler ELSE [handler EXCEPT ![s] = None]

\* A recovery made because the lease was lost returns to the polling loop; one
\* made because the execution failed rethrows that failure and ends the worker.
Returns(c) == At(c, "poll") \/ At(c, "down")

\* The worker's continuation after a successful issue, activation, recovery.
Answers(s, h) ==
  /\ Ends(s, h)
  /\ IF s = None THEN UNCHANGED <<journal, pc>>
     ELSE CASE h.op = "issue"    -> Journaled(s, "activation", h.demand) /\ At(s, "activate")
            [] h.op = "activate" -> Journaled(s, "active", h.demand) /\ At(s, "lease")
            [] h.op = "recover"  -> Cleared(s) /\ Returns(s)

\* A conflict, a rejection by native Git or its absence: an error answer.
Rejects(s, h) ==
  /\ Ends(s, h)
  /\ IF s = None THEN UNCHANGED <<journal, pc>> ELSE Dies(s)

Awaits(c, op, stage) ==
  /\ handler' = [handler EXCEPT ![c] =
                   [op |-> op, demand |-> JobOf(c), stage |-> stage]]
  /\ At(c, "waiting")
  /\ UNCHANGED <<orphans, journal>>
-----------------------------------------------------------------------------
(* Reservation: POST /v1/host-claims. *)

Poll(c) ==
  /\ pc[c] = "poll"
  /\ Journaled(c, "claim", None)
  /\ requested' = [requested EXCEPT ![c] = None]
  /\ At(c, "reserve")
  /\ UNCHANGED <<store, serving, tries, container, launched, native, budget>>

\* Mutant: a reported claim no longer occupies its capacity.
OccupiedUnlessReported(c) ==
  {d \in Demands : row[d].owner = c /\ row[d].claim \notin {"reported", "released"}}

Occupied(c) ==
  {d \in Demands : row[d].owner = c /\ row[d].claim # "released"}
Claimable ==
  {d \in Demands : row[d].demand = "queued" /\ admission.fresh /\ AtAdmittedRoot(d)}
Oldest(S) == CHOOSE d \in S : \A e \in S : d <= e

ReserveReturns(c, d) ==
  \/ Journaled(c, "reserved", d) /\ At(c, "issue") /\ UNCHANGED budget
  \/ ReplyLost(c)

ReserveReplay(c) ==
  /\ up /\ pc[c] = "reserve" /\ requested[c] # None
  /\ ReserveReturns(c, requested[c])
  /\ UNCHANGED <<store, serving, requested, tries, container, launched, native>>

\* Nothing to claim, or the capacity is still taken: a claim that waits for its
\* report answers "none", any other claim is a conflict and throws. No worker
\* meets that conflict while its claims are journaled (ClaimIsJournaled).
ReserveRefused(c) ==
  /\ up /\ pc[c] = "reserve" /\ requested[c] = None
  /\ Occupied(c) # {} \/ Claimable = {}
  /\ IF \E d \in Occupied(c) : row[d].claim # "reported"
     THEN Dies(c)
     ELSE Cleared(c) /\ At(c, "poll")
  /\ UNCHANGED <<store, serving, requested, tries, container, launched,
                 native, budget>>

\* The claim that binds a demand to a capacity and to the serving epoch.
ClaimOf(c, d) ==
  [row[d] EXCEPT !.demand = "preparing", !.claim = "preparing",
                 !.owner = c, !.epoch = epoch]

Reserve(c) ==
  /\ up /\ pc[c] = "reserve" /\ requested[c] = None
  /\ Occupied(c) = {} /\ Claimable # {}
  /\ LET d == Oldest(Claimable)
     IN  /\ row' = [row EXCEPT ![d] = ClaimOf(c, d)]
         /\ requested' = [requested EXCEPT ![c] = d]
         /\ ReserveReturns(c, d)
  /\ UNCHANGED <<admission, epoch, serving, tries, container, launched, native>>
-----------------------------------------------------------------------------
(* Issuance: POST /v1/host-attempts. *)

IssueCall(c) ==
  /\ up /\ pc[c] = "issue"
  /\ IF CurrentReservation(JobOf(c)) /\ row[JobOf(c)].epoch = epoch
     THEN Awaits(c, "issue", "issue")
     ELSE Dies(c) /\ UNCHANGED <<handler, orphans>>
  /\ UNCHANGED <<store, up, reporter, requested, tries, container, launched,
                 native, budget>>

\* The issue route of native Git, with its callback verifyClaim to ordinary CI.
\* (For a claim of a stale epoch the route replays an existing attempt, but the
\* handler that asked for it died with the service of that epoch.)
IssueAttempt(s, h) ==
  /\ Holds(s, h) /\ h.op = "issue" /\ h.stage = "issue"
  /\ IF /\ ReviewCurrent(h.demand)
        /\ attempt[h.demand] # "revoked"
        /\ row[h.demand].epoch = epoch /\ CurrentReservation(h.demand)
     THEN attempt' = [attempt EXCEPT ![h.demand] = "issued"] /\ Advance(s, h, "reply")
     ELSE Rejects(s, h) /\ UNCHANGED attempt
  /\ UNCHANGED <<store, up, reporter, requested, tries, container, launched,
                 head, withdrawn, status, budget>>

IssueReply(s, h) ==
  /\ Holds(s, h) /\ h.op = "issue" /\ h.stage = "reply"
  /\ Answers(s, h)
  /\ UNCHANGED <<store, up, reporter, requested, tries, container, launched,
                 native, budget>>
-----------------------------------------------------------------------------
(* Activation: POST /v1/host-claim-activations. *)

Activatable(d) == row[d].epoch = epoch /\ CurrentReservation(d)

\* The receipt of an activation answers the same request again, whatever
\* became of its claim since.
ActivationReplay(d) == row[d].receipt # "none"

ActivateCall(c) ==
  /\ up /\ pc[c] = "activate"
  /\ LET d == JobOf(c)
     IN \/ /\ ActivationReplay(d)
           /\ \/ Journaled(c, "active", d) /\ At(c, "lease") /\ UNCHANGED budget
              \/ ReplyLost(c)
           /\ UNCHANGED <<handler, orphans>>
        \/ /\ ~ActivationReplay(d) /\ Activatable(d)
           /\ Awaits(c, "activate", "prove") /\ UNCHANGED budget
        \/ /\ ~ActivationReplay(d) /\ ~Activatable(d)
           /\ Dies(c) /\ UNCHANGED <<handler, orphans, budget>>
  /\ UNCHANGED <<store, up, reporter, requested, tries, container, launched, native>>

Activate(s, h) ==
  /\ Holds(s, h) /\ h.op = "activate" /\ h.stage = "commit"
  /\ IF Activatable(h.demand) /\ ~ActivationReplay(h.demand)
     THEN /\ row' = [row EXCEPT ![h.demand].demand = "active",
                                ![h.demand].claim = "active",
                                ![h.demand].receipt = "active",
                                ![h.demand].lease = TRUE]
          /\ Answers(s, h)
     ELSE Rejects(s, h) /\ UNCHANGED row
  /\ UNCHANGED <<admission, epoch, up, reporter, requested, tries, container,
                 launched, native, budget>>

\* assertCurrent, awaited by the activation and by the recovery handler.
ProveAttempt(s, h) ==
  /\ Holds(s, h) /\ h.stage = "prove"
  /\ IF AttemptProved(h.demand)
     THEN Advance(s, h, IF h.op = "activate" THEN "commit" ELSE "prepare")
     ELSE Rejects(s, h)
  /\ UNCHANGED <<store, up, reporter, requested, tries, container, launched,
                 native, budget>>
-----------------------------------------------------------------------------
(* Execution: executeNativeHostClaim. *)

\* What renew and the result intake ask of a claim; neither looks at the expiry
\* of the eligibility lease.
ActiveClaim(d) ==
  /\ row[d].demand = "active" /\ row[d].claim = "active" /\ row[d].receipt = "active"
  /\ row[d].lease /\ row[d].epoch = epoch /\ AtAdmittedRoot(d)

Renewable(d) == up /\ ActiveClaim(d)

\* readNativeRootCiCandidateAssignment does look at it.
Assigned(d) == ActiveClaim(d) /\ admission.fresh

\* The candidate lease: the assignment, then the proof of native Git.
CandidateReadable(d) == up /\ Assigned(d) /\ AttemptProved(d)

StartLease(c) ==
  /\ pc[c] = "lease" /\ Renewable(JobOf(c))
  /\ At(c, "fetch")
  /\ UNCHANGED <<store, serving, journal, requested, tries, container, launched,
                 native, budget>>

FetchCandidate(c) ==
  /\ pc[c] = "fetch" /\ CandidateReadable(JobOf(c))
  /\ At(c, "launch")
  /\ UNCHANGED <<store, serving, journal, requested, tries, container, launched,
                 native, budget>>

\* Nothing is asked of the service between the candidate lease and docker run.
Launch(c) ==
  /\ pc[c] = "launch"
  /\ container' = [container EXCEPT ![c] = JobOf(c)]
  /\ launched' = launched \cup {JobOf(c)}
  /\ At(c, "run")
  /\ UNCHANGED <<store, serving, journal, requested, tries, native, budget>>

\* The job ended, timed out or was cancelled, and its resources are removed.
Complete(c) ==
  /\ pc[c] = "run"
  /\ container' = [container EXCEPT ![c] = None]
  /\ At(c, "finished")
  /\ UNCHANGED <<store, serving, journal, requested, tries, launched, native, budget>>

Submit(c) ==
  /\ pc[c] = "finished"
  /\ Journaled(c, "result", JobOf(c))
  /\ tries' = [tries EXCEPT ![c] = 0]
  /\ At(c, "report")
  /\ UNCHANGED <<store, serving, requested, container, launched, native, budget>>

\* The stages of an execution, each with the callbacks of the claim it runs.
Executing == {"lease", "fetch", "launch", "run", "finished"}

\* Mutant: recovery is asked for while the container still runs.
AbandonWithoutCleanup(c) ==
  /\ pc[c] \in Executing \cup {"report"} /\ ~Renewable(JobOf(c))
  /\ AsksRecovery(c)
  /\ UNCHANGED <<store, serving, requested, tries, container, launched, native, budget>>

\* A denied renewal or candidate read, or a failure of the executor: remove the
\* container, then ask for recovery.
Abandon(c) ==
  /\ pc[c] \in Executing \cup {"report"}
  /\ \/ /\ \/ ~Renewable(JobOf(c))
           \/ pc[c] = "fetch" /\ ~CandidateReadable(JobOf(c))
        /\ UNCHANGED faults
     \/ pc[c] \in Executing /\ faults < MaxFaults /\ faults' = faults + 1
  /\ container' = [container EXCEPT ![c] = None]
  /\ AsksRecovery(c)
  /\ UNCHANGED <<store, serving, requested, tries, launched, native,
                 moves, restarts, crashes, lapses>>

\* NativeHostCleanupError: the worker ends with its container and its journal.
CleanupFails(c) ==
  /\ pc[c] \in {"run", "launch"} /\ faults < MaxFaults
  /\ faults' = faults + 1
  /\ Dies(c)
  /\ UNCHANGED <<store, serving, requested, tries, container, launched, native,
                 moves, restarts, crashes, lapses>>
-----------------------------------------------------------------------------
(* Result intake: POST /v1/host-results. *)

HasResult(d) == row[d].outbox # "none"
Acceptable(d) == HasResult(d) \/ ActiveClaim(d)

\* accept: an exact replay changes nothing.
Accept(d) ==
  row' = IF HasResult(d) THEN row
         ELSE [row EXCEPT ![d].demand = "reported", ![d].claim = "reported",
                          ![d].receipt = "reported", ![d].outbox = "pending",
                          ![d].order = 1 + Cardinality({e \in Demands : HasResult(e)})]

\* Mutant: a result that cannot be submitted is dropped.
RetryReportDrops(c) ==
  /\ tries' = [tries EXCEPT ![c] = @ + 1]
  /\ IF tries[c] + 1 = ReportTries
     THEN Cleared(c) /\ At(c, "poll")
     ELSE UNCHANGED <<journal, pc>>

\* submitNativeResult gives up after ReportTries failures of any kind.
RetryReport(c) ==
  /\ tries' = [tries EXCEPT ![c] = @ + 1]
  /\ IF tries[c] + 1 = ReportTries
     THEN AsksRecovery(c)
     ELSE UNCHANGED <<journal, pc>>

Report(c) ==
  /\ pc[c] = "report"
  /\ \/ /\ up /\ Acceptable(JobOf(c)) /\ Accept(JobOf(c))
        /\ \/ Cleared(c) /\ At(c, "poll") /\ UNCHANGED <<tries, faults>>
           \/ faults < MaxFaults /\ faults' = faults + 1 /\ RetryReport(c)
     \/ /\ ~(up /\ Acceptable(JobOf(c)))
        /\ RetryReport(c) /\ UNCHANGED <<row, faults>>
  /\ UNCHANGED <<admission, epoch, serving, requested, container, launched, native,
                 moves, restarts, crashes, lapses>>

\* The journaled result of a restarted worker: one attempt, and a definitive
\* answer against it turns into a recovery.
ReplayReport(c) ==
  /\ up /\ pc[c] = "replay"
  /\ \/ /\ Acceptable(JobOf(c)) /\ Accept(JobOf(c))
        /\ \/ Cleared(c) /\ At(c, "poll") /\ UNCHANGED budget
           \/ ReplyLost(c)
     \/ /\ ~Acceptable(JobOf(c))
        /\ AsksRecovery(c)
        /\ UNCHANGED <<row, budget>>
  /\ UNCHANGED <<admission, epoch, serving, requested, tries, container, launched, native>>
-----------------------------------------------------------------------------
(* Recovery: POST /v1/host-recoveries. *)

\* Mutant: a recovery already under way must prove its attempt again.
RecoverCallProvesAgain(c) ==
  /\ up /\ pc[c] = "recover"
  /\ LET r == row[JobOf(c)]
     IN \/ /\ r.receipt = "released" /\ r.recovery = "revoked"
           /\ Cleared(c) /\ Returns(c)
           /\ UNCHANGED <<handler, orphans>>
        \/ /\ r.receipt = "released" /\ r.recovery # "revoked"
           /\ Dies(c) /\ UNCHANGED <<handler, orphans>>
        \/ /\ r.receipt \in {"active", "reported", "recovering"}
           /\ Awaits(c, "recover", "prove")
  /\ UNCHANGED <<store, up, reporter, requested, tries, container, launched,
                 native, budget>>

\* A receipt this recovery released answers at once, one that the reporter
\* released conflicts, a recovering one is pending.
RecoveryReplay(r) ==
  CASE r.receipt = "released"   -> IF r.recovery = "revoked" THEN "released" ELSE "conflict"
    [] r.receipt = "recovering" -> "pending"
    [] OTHER                    -> "none"

\* A pending recovery skips proof and preparation.
RecoverCall(c) ==
  /\ up /\ pc[c] = "recover"
  /\ LET replay == RecoveryReplay(row[JobOf(c)])
     IN \/ /\ replay = "released"
           /\ \/ Cleared(c) /\ Returns(c) /\ UNCHANGED budget
              \/ ReplyLost(c)
           /\ UNCHANGED <<handler, orphans>>
        \/ /\ replay = "conflict"
           /\ Dies(c) /\ UNCHANGED <<handler, orphans, budget>>
        \/ /\ replay = "pending" /\ Awaits(c, "recover", "revoke")
           /\ UNCHANGED budget
        \/ /\ replay = "none" /\ Awaits(c, "recover", "prove")
           /\ UNCHANGED budget
  /\ UNCHANGED <<store, up, reporter, requested, tries, container, launched, native>>

\* Mutant: the claim is released without waiting for the revocation.
PrepareRecoverySkipsRevocation(s, h) ==
  /\ Holds(s, h) /\ h.op = "recover" /\ h.stage = "prepare"
  /\ row[h.demand].receipt \in {"active", "reported", "recovering"}
  /\ row' = [row EXCEPT ![h.demand].receipt = "recovering",
                        ![h.demand].claim = "recovering",
                        ![h.demand].recovery = "requested"]
  /\ Advance(s, h, "complete")
  /\ UNCHANGED <<admission, epoch, up, reporter, requested, tries, container,
                 launched, native, budget>>

PrepareRecovery(s, h) ==
  /\ Holds(s, h) /\ h.op = "recover" /\ h.stage = "prepare"
  /\ LET r == row[h.demand]
     IN \/ /\ \/ r.receipt \in {"active", "recovering"}
              \/ r.receipt = "reported" /\ r.outbox = "pending"
           /\ row' = [row EXCEPT ![h.demand].receipt = "recovering",
                                 ![h.demand].claim = "recovering",
                                 ![h.demand].recovery = "requested"]
           /\ Advance(s, h, "revoke")
        \/ /\ r.receipt = "released" /\ r.recovery = "revoked"
           /\ Answers(s, h) /\ UNCHANGED row
        \/ /\ \/ r.receipt = "released" /\ r.recovery # "revoked"
              \/ r.receipt = "reported" /\ r.outbox # "pending"
           /\ Rejects(s, h) /\ UNCHANGED row
  /\ UNCHANGED <<admission, epoch, up, reporter, requested, tries, container,
                 launched, native, budget>>

\* The revoke route of native Git asks nothing about the review.
RevokeAttempt(s, h) ==
  /\ Holds(s, h) /\ h.op = "recover" /\ h.stage = "revoke"
  /\ attempt' = [attempt EXCEPT ![h.demand] = "revoked"]
  /\ Advance(s, h, "complete")
  /\ UNCHANGED <<store, up, reporter, requested, tries, container, launched,
                 head, withdrawn, status, budget>>

CompleteRecovery(s, h) ==
  /\ Holds(s, h) /\ h.op = "recover" /\ h.stage = "complete"
  /\ LET r == row[h.demand]
         released == [r EXCEPT !.claim = "released", !.receipt = "released",
                               !.recovery = "revoked"]
     IN \/ /\ r.receipt = "recovering" /\ r.outbox = "pending"
           /\ row' = [row EXCEPT ![h.demand] =
                        [released EXCEPT !.outbox = "denied", !.demand = "completed"]]
           /\ Answers(s, h)
        \/ /\ r.receipt = "recovering" /\ r.outbox = "none"
           /\ row' = [row EXCEPT ![h.demand] = [released EXCEPT !.demand = "superseded"]]
           /\ Answers(s, h)
        \/ /\ r.receipt # "recovering"
           /\ Rejects(s, h) /\ UNCHANGED row
  /\ UNCHANGED <<admission, epoch, up, reporter, requested, tries, container,
                 launched, native, budget>>
-----------------------------------------------------------------------------
(* The result reporter. *)

Reported(d) == row[d].claim = "reported" /\ row[d].receipt = "reported"
Deliverable == {d \in Demands : row[d].outbox = "pending" /\ Reported(d)}
Idle == reporter' = [phase |-> "idle", demand |-> None]

TakeOldest ==
  /\ up /\ reporter.phase = "idle"
  /\ \E d \in Deliverable :
       /\ \A e \in Deliverable : row[d].order <= row[e].order
       /\ reporter' = [phase |-> "send", demand |-> d]
  /\ UNCHANGED <<store, up, handler, orphans, hosts, native, budget>>

\* The status route of native Git: current review, current attempt, and either
\* the stored status or the current-result proof of ordinary CI.
Publishable(d) ==
  /\ ReviewCurrent(d) /\ attempt[d] = "issued"
  /\ \/ d \in status
     \/ /\ Reported(d) /\ row[d].demand = "reported" /\ row[d].outbox = "pending"
        /\ AtAdmittedRoot(d)

\* Any answer but an acknowledgement, or none, ends in a delay and a retry.
Send ==
  /\ up /\ reporter.phase = "send"
  /\ LET d == reporter.demand
     IN \/ /\ Publishable(d)
           /\ status' = status \cup {d}
           /\ \/ reporter' = [reporter EXCEPT !.phase = "ack"] /\ UNCHANGED faults
              \/ faults < MaxFaults /\ faults' = faults + 1 /\ Idle
        \/ ~Publishable(d) /\ Idle /\ UNCHANGED <<status, faults>>
  /\ UNCHANGED <<store, up, handler, orphans, hosts, head, withdrawn, attempt,
                 moves, restarts, crashes, lapses>>

Acknowledgeable(d) ==
  /\ row[d].outbox = "pending" /\ Reported(d) /\ row[d].demand = "reported"
  /\ row[d].recovery = "none"
  /\ admission.fresh /\ AtAdmittedRoot(d)

Acknowledge ==
  /\ up /\ reporter.phase = "ack"
  /\ LET d == reporter.demand
     IN row' = IF Acknowledgeable(d)
               THEN [row EXCEPT ![d].outbox = "delivered", ![d].claim = "released",
                                ![d].receipt = "released", ![d].demand = "completed"]
               ELSE row
  /\ Idle
  /\ UNCHANGED <<admission, epoch, up, handler, orphans, hosts, native, budget>>
-----------------------------------------------------------------------------
(* Timeouts, crashes, restarts. *)

\* finalizationSignal: the worker stops waiting, the handler goes on.
GiveUp(c) ==
  /\ pc[c] = "waiting" /\ faults < MaxFaults
  /\ faults' = faults + 1
  /\ Orphan(c) /\ Dies(c)
  /\ UNCHANGED <<store, up, reporter, requested, tries, container, launched, native,
                 moves, restarts, crashes, lapses>>

Crash(c) ==
  /\ pc[c] # "down" /\ crashes < MaxCrashes
  /\ crashes' = crashes + 1
  /\ Orphan(c) /\ Dies(c)
  /\ UNCHANGED <<store, up, reporter, requested, tries, container, launched, native,
                 moves, restarts, faults, lapses>>

\* Mutant: a worker that finds an active claim in its journal runs it again.
StartResumes(c) ==
  /\ up /\ pc[c] = "down"
  /\ IF journal[c].kind = "active"
     THEN At(c, "lease") /\ container' = [container EXCEPT ![c] = None]
     ELSE journal[c].kind = "none" /\ At(c, "poll") /\ UNCHANGED container
  /\ UNCHANGED <<store, serving, journal, requested, tries, launched, native, budget>>

\* replay of the journal. Recovery and result replays remove the container first.
Start(c) ==
  /\ up /\ pc[c] = "down"
  /\ At(c, CASE journal[c].kind = "none"       -> "poll"
             [] journal[c].kind = "claim"      -> "reserve"
             [] journal[c].kind = "reserved"   -> "issue"
             [] journal[c].kind = "activation" -> "activate"
             [] journal[c].kind = "result"     -> "replay"
             [] journal[c].kind \in {"active", "recovery"} -> "recover")
  /\ IF journal[c].kind \in {"active", "result", "recovery"}
     THEN container' = [container EXCEPT ![c] = None] ELSE UNCHANGED container
  /\ IF journal[c].kind = "active"
     THEN Journaled(c, "recovery", JobOf(c)) ELSE UNCHANGED journal
  /\ UNCHANGED <<store, serving, requested, tries, launched, native, budget>>

ServiceStops ==
  /\ up /\ restarts < MaxRestarts
  /\ up' = FALSE
  /\ restarts' = restarts + 1
  /\ handler' = [c \in Capacities |-> None]
  /\ orphans' = {}
  /\ Idle
  /\ pc' = [c \in Capacities |-> IF pc[c] = "waiting" THEN "down" ELSE pc[c]]
  /\ UNCHANGED <<store, journal, requested, tries, container, launched, native,
                 moves, crashes, faults, lapses>>

\* The checks of a starting service, for the states a row holds: a database
\* that fails them keeps the service from starting.

\* No receipt is of a later root than its admission.
ReceiptConsistent(d) == row[d].root <= admission.sequence

DemandConsistent(d) ==
  row[d].demand \in {"queued", "preparing"} => AtAdmittedRoot(d)

ClaimConsistent(d) ==
  LET r == row[d]
  IN CASE r.claim = "none"       -> TRUE
       [] r.claim = "preparing"  ->
            r.demand \in {"preparing", "superseded"} /\ r.receipt = "none"
       [] r.claim = "active"     ->
            r.demand = "active" /\ r.receipt = "active" /\ r.outbox = "none"
       [] r.claim = "reported"   ->
            r.demand = "reported" /\ r.receipt = "reported" /\ r.outbox = "pending"
       [] r.claim = "recovering" ->
            /\ r.receipt = "recovering" /\ r.recovery # "none"
            /\ r.demand \in {"preparing", "active", "reported"}
            /\ r.demand = "reported" => r.outbox = "pending"
       [] r.claim = "released"   ->
            /\ r.receipt = "released"
            /\ \/ r.demand = "completed" /\ r.outbox = "delivered" /\ r.recovery = "none"
               \/ /\ \/ r.demand = "completed" /\ r.outbox = "denied"
                     \/ r.demand = "superseded" /\ r.outbox = "none"
                  /\ r.recovery = "revoked"

ResultConsistent(d) ==
  LET r == row[d]
  IN CASE r.outbox = "none"    -> TRUE
       [] r.outbox = "pending" ->
            /\ r.demand = "reported"
            /\ \/ Reported(d) /\ r.recovery = "none"
               \/ r.claim = "recovering" /\ r.receipt = "recovering"
                  /\ r.recovery = "requested"
       [] OTHER ->
            /\ r.demand = "completed" /\ r.claim = "released" /\ r.receipt = "released"
            /\ r.recovery = IF r.outbox = "denied" THEN "revoked" ELSE "none"

StoreConsistent ==
  \A d \in Demands : /\ ReceiptConsistent(d) /\ DemandConsistent(d)
                     /\ ClaimConsistent(d) /\ ResultConsistent(d)

\* activateEpoch retires every other epoch.
ActivateEpoch == epoch' = epoch + 1

\* The restarted service checks its store before it serves.
ServiceActivates ==
  /\ ~up
  /\ StoreConsistent
  /\ up' = TRUE
  /\ ActivateEpoch
  /\ UNCHANGED <<row, admission, handler, orphans, reporter, hosts, native, budget>>

\* The worker did not renew in time.
LeaseExpires(d) ==
  /\ row[d].receipt = "active" /\ row[d].lease
  /\ row' = [row EXCEPT ![d].lease = FALSE]
  /\ UNCHANGED <<admission, epoch, serving, hosts, native, budget>>
-----------------------------------------------------------------------------
(* The specification. *)

HandlerStep(s) ==
  \E h \in IF s = None THEN orphans ELSE {handler[s]} \ {None} :
    \/ IssueAttempt(s, h) \/ IssueReply(s, h)
    \/ ProveAttempt(s, h) \/ Activate(s, h)
    \/ PrepareRecovery(s, h) \/ RevokeAttempt(s, h) \/ CompleteRecovery(s, h)

WorkerStep(c) ==
  \/ Poll(c) \/ ReserveReplay(c) \/ ReserveRefused(c) \/ Reserve(c)
  \/ IssueCall(c) \/ ActivateCall(c) \/ Unavailable(c)
  \/ StartLease(c) \/ FetchCandidate(c) \/ Launch(c) \/ Complete(c) \/ Submit(c)
  \/ Abandon(c) \/ CleanupFails(c)
  \/ Report(c) \/ ReplayReport(c) \/ RecoverCall(c)

ReporterStep == TakeOldest \/ Send \/ Acknowledge

Next ==
  \/ \E c \in Capacities : WorkerStep(c) \/ Start(c) \/ GiveUp(c) \/ Crash(c)
  \/ \E s \in Capacities \cup {None} : HandlerStep(s)
  \/ ReporterStep
  \/ Register \/ AdmissionLapses \/ RootMoves \/ ServiceStops \/ ServiceActivates
  \/ \E d \in Demands : CommitReceipt(d) \/ Withdraw(d) \/ LeaseExpires(d)

Spec == Init /\ [][Next]_vars

\* Promises of the Node event loops settle, the reporter is one endless loop, a
\* job has a wall-clock limit, and the operator keeps workers running.
Fairness ==
  /\ \A c \in Capacities :
       WF_vars(WorkerStep(c)) /\ WF_vars(Start(c)) /\ WF_vars(HandlerStep(c))
  /\ WF_vars(ReporterStep) /\ WF_vars(ServiceActivates)

FairSpec == Spec /\ Fairness
-----------------------------------------------------------------------------
(* Properties. *)

Locations ==
  {"down", "poll", "reserve", "issue", "activate", "waiting", "lease", "fetch",
   "launch", "run", "finished", "report", "replay", "recover"}

\* Every variable holds a value of its type, with the counters of the worker
\* and of the faults within their bounds.
TypeOK ==
  /\ row \in [Demands -> Row]
  /\ admission \in [sequence : Nat, fresh : BOOLEAN]
  /\ epoch \in Nat /\ up \in BOOLEAN
  /\ handler \in [Capacities -> Handlers \cup {None}]
  /\ orphans \subseteq Handlers
  /\ reporter \in [phase : {"idle", "send", "ack"}, demand : Demands \cup {None}]
  /\ journal \in [Capacities -> Journals]
  /\ requested \in [Capacities -> Demands \cup {None}]
  /\ pc \in [Capacities -> Locations]
  /\ tries \in [Capacities -> 0 .. ReportTries]
  /\ container \in [Capacities -> Demands \cup {None}]
  /\ launched \subseteq Demands
  /\ head \in Nat /\ withdrawn \subseteq Demands
  /\ attempt \in [Demands -> {"none", "issued", "revoked"}]
  /\ status \subseteq Demands
  /\ moves \in 0 .. MaxMoves /\ restarts \in 0 .. MaxRestarts
  /\ crashes \in 0 .. MaxCrashes /\ faults \in 0 .. MaxFaults
  /\ lapses \in 0 .. MaxLapses

\* Whatever interleaving of root movement, results, deliveries and recoveries
\* the service was stopped in, its startup check of receipts, demands,
\* claims and results (assertNativeRootCiEventReceiptIntegrity) accepts the
\* store: no reachable state keeps ordinary CI from starting.
StartupIntegrity == StoreConsistent

\* A claim that fences its capacity is always named by the journal of its owner,
\* in a kind whose replay continues or recovers exactly that claim: no crash,
\* lost reply or orphaned handler makes the host forget it.
ClaimIsJournaled ==
  \A d \in Demands :
    LET j == journal[row[d].owner]
    IN  /\ row[d].claim = "preparing" =>
             \/ j.kind \in {"reserved", "activation"} /\ j.demand = d
             \/ j.kind = "claim" /\ requested[row[d].owner] = d
        /\ row[d].claim = "active" =>
             j.kind \in {"activation", "active", "result", "recovery"} /\ j.demand = d
        /\ row[d].claim = "recovering" => j.kind = "recovery" /\ j.demand = d

\* A running container belongs to the journaled active claim of its capacity:
\* the claim is not reported, recovered or released while candidate code runs.
ContainerFenced ==
  \A c \in Capacities : container[c] # None =>
    /\ journal[c] = [kind |-> "active", demand |-> container[c]]
    /\ row[container[c]].claim = "active" /\ row[container[c]].owner = c

\* A result is accepted, and a status published, only for a demand whose
\* container was started and is gone: cleanupComplete is not a mere claim.
EvidenceAfterCleanup ==
  \A d \in Demands : HasResult(d) \/ d \in status =>
    d \in launched /\ \A c \in Capacities : container[c] # d

\* Candidate code runs only where the service counts it: the two above together.
RunFenced == ContainerFenced /\ EvidenceAfterCleanup

\* A capacity never owes two claims, a reported but undelivered one included.
SingleOccupancy ==
  \A d, e \in Demands :
    /\ row[d].owner = row[e].owner /\ row[d].owner # None
    /\ row[d].claim # "released" /\ row[e].claim # "released"
    => d = e

\* A delivered result has its published native status, and its attempt was not
\* revoked by a recovery that raced the acknowledgement.
DeliveredIsCurrentEvidence ==
  \A d \in Demands : row[d].outbox = "delivered" => d \in status /\ attempt[d] = "issued"

\* A claim released by anything but a delivery had its attempt revoked in native
\* Git first, so a freed capacity can leave no attempt that still counts.
ReleaseAfterRevocation ==
  \A d \in Demands :
    row[d].claim = "released" /\ row[d].outbox # "delivered" => attempt[d] = "revoked"

\* A claim ends one way, as evidence or as a revoked attempt: the two above
\* together, through results, recoveries and restarts in any order.
EndsOneWay == DeliveredIsCurrentEvidence /\ ReleaseAfterRevocation

\* Candidate code of one demand is started at most once, across crashes, journal
\* replays and service restarts.
RunsOnce ==
  [][\A c \in Capacities :
       container'[c] \notin {None, container[c]} => container'[c] \notin launched]_vars

\* With native Git and the service up and the root unmoved, every claim is
\* released again: by delivery or by recovery, whatever the host goes through.
ClaimReturns ==
  \A d \in Demands : row[d].claim # "none" ~> row[d].claim = "released"

\* The documented outcome of root rotation: it "denies pending old-generation
\* delivery", so a pending result whose root was replaced does not stay pending.
RootMovementDeniesReport ==
  \A d \in Demands :
    row[d].outbox = "pending" /\ ~AtAdmittedRoot(d)
      ~> row[d].outbox \in {"denied", "delivered"}

\* The documented outcome of tuple drift: it "fences reuse until exact recovery",
\* so the capacity of an active claim whose review went stale is freed again.
DriftIsRecoverable ==
  \A d \in Demands :
    row[d].claim = "active" /\ ~ReviewCurrent(d) ~> row[d].claim = "released"
=============================================================================
