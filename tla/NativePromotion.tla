--------------------------- MODULE NativePromotion ---------------------------
(***************************************************************************)
(* The installed native Git service of DIM for one registered Project: the *)
(* protected ref, the workspaces' proposal refs, immutable review          *)
(* envelopes, human approvals and revocations, CI attempts and statuses,   *)
(* the promotion ledger (intent and finalized rows), the proposal          *)
(* reconciler, and crash recovery.                                         *)
(*                                                                         *)
(* Every operation runs inside the review controller's promise queue, so   *)
(* operations never overlap; what interleaves is their durable steps with  *)
(* crashes, with failing Git children, and with the whole next operation   *)
(* after a failure left something half done. pc is the point the one       *)
(* running operation has reached. Variables above the dashed line in vars  *)
(* are durable, the others die with the process.                           *)
(*                                                                         *)
(* A commit id stands for commit and tree together (a commit determines    *)
(* its tree). A review id is a digest of (proposal ref, protected head,    *)
(* candidate) under the imported policy, which never changes for one       *)
(* import, so the triple itself is the id.                                 *)
(***************************************************************************)
EXTENDS Naturals, Sequences, FiniteSets

CONSTANTS
  Commits,            \* commit ids
  Imported,           \* the commit the root import installed
  Ancestor,           \* git merge-base --is-ancestor, a set of pairs
  Proposals,          \* proposal refs of all workspaces
  Reviewers,          \* configured human reviewers
  RequiredReviewers,  \* <<head, candidate>> |-> reviewers the policy asks for
  Requests,           \* approval request ids
  Jobs,               \* promotion-required jobs of the policy
  QemuJobs,           \* those of them that run under QEMU
  Planned,            \* candidates whose valid plan contains every required job
  MaxAttempts,        \* bound on attempts per job (256 in the code)
  Retries,            \* length of the reconciliation loop's retry delays
  MaxCrashes,         \* bound on process crashes
  MaxFaults,          \* bound on failing Git children and file systems
  None                \* the absent commit or transition

ReviewIds == [proposal : Proposals, head : Commits, candidate : Commits]
Transitions == [sequence : Nat \ {0}, review : ReviewIds]
Approvals == [review : ReviewIds, reviewer : Reviewers, request : Requests]
Attempt == [number : Nat, revoked : BOOLEAN,
            result : {"none", "success", "failure"}]
NoAttempt == [number |-> 0, revoked |-> FALSE, result |-> "none"]

ASSUME CommitAssumption ==
  /\ Imported \in Commits
  /\ None \notin Commits
  /\ None \notin Transitions
  /\ None \notin Proposals

\* Reachability between commits is a partial order.
ASSUME AncestorAssumption ==
  /\ Ancestor \subseteq Commits \X Commits
  /\ \A c \in Commits : <<c, c>> \in Ancestor
  /\ \A a, b \in Commits :
       <<a, b>> \in Ancestor /\ <<b, a>> \in Ancestor => a = b
  /\ \A a, b, c \in Commits :
       <<a, b>> \in Ancestor /\ <<b, c>> \in Ancestor => <<a, c>> \in Ancestor

ASSUME PolicyAssumption ==
  /\ RequiredReviewers \in [Commits \X Commits -> SUBSET Reviewers]
  /\ QemuJobs \subseteq Jobs
  /\ Planned \subseteq Commits

ASSUME BoundAssumption ==
  /\ MaxAttempts \in Nat
  /\ Retries \in Nat
  /\ MaxCrashes \in Nat
  /\ MaxFaults \in Nat

VARIABLES
  protectedRef,  \* Git: the protected ref
  proposalRef,   \* Git: proposal ref |-> commit or None
  finalized,     \* ledger: native_project_root_promotion_finalized
  intent,        \* ledger: native_project_root_promotion_intent row or None
  reviews,       \* dim-authoritative-reviews: published envelopes
  approvals,     \* dim-authoritative-approvals
  revocations,   \* the approvals a published revocation names
  attempt,       \* <<review, job>> |-> the last issued attempt and its status
  bound,         \* bundle_activation: this generation's activation is bound
  \* ---- volatile ----
  service,       \* "down", "recovering" or "up"
  ready,         \* businessReady
  pc,            \* where the running serialized operation stands
  receiving,     \* the proposal a receive-pack is publishing
  promoting,     \* the transition a promotion holds in memory
  todo,          \* proposals a reconciliation still has to visit
  caller,        \* who started it: "startup", "activate" or "loop"
  wake,          \* the reconciliation loop has a run pending
  failures,      \* consecutive failures of the loop
  exhausted,     \* the loop gave up
  crashes,       \* crashes so far
  faults         \* injected faults so far

durable == <<protectedRef, proposalRef, finalized, intent, reviews, approvals,
             revocations, attempt, bound>>
loop == <<wake, failures, exhausted>>
volatile == <<service, ready, pc, receiving, promoting, todo, caller, loop>>
vars == <<durable, volatile, crashes, faults>>

-----------------------------------------------------------------------------
(* What the service reads *)

\* foldCurrentHead: the head after the last finalized transition.
LedgerHead ==
  IF finalized = <<>> THEN Imported
  ELSE finalized[Len(finalized)].review.candidate

\* Mutant: a target that ignores an unresolved intent.
RootTargetIgnoringIntent == bound /\ protectedRef = LedgerHead

\* resolveAuthoritativeNativeRootTarget: every operation starts here. It
\* throws while an intent is unresolved and when the ref left the ledger.
RootTarget == bound /\ intent = None /\ protectedRef = LedgerHead

Serving == service = "up" /\ pc = "idle" /\ RootTarget

CurrentReview(p) ==
  [proposal |-> p, head |-> LedgerHead, candidate |-> proposalRef[p]]

\* nativeHumanReviewStaleReasons returned no reason.
Fresh(r) ==
  /\ r.head = LedgerHead
  /\ r.head = protectedRef
  /\ r.candidate = proposalRef[r.proposal]

Pushed == {p \in Proposals : proposalRef[p] # None}

ReviewersOf(r) == RequiredReviewers[<<r.head, r.candidate>>]

Active(r) == {a \in approvals \ revocations : a.review = r}

HasActiveNever(r, v) == FALSE \* Mutant: the active approval is not looked up.
HasActive(r, v) == \E a \in Active(r) : a.reviewer = v

\* The sorted active approvals name exactly the required reviewers.
Approved(r) == {a.reviewer : a \in Active(r)} = ReviewersOf(r)

\* Every required job's current attempt is unrevoked and succeeded.
Evidenced(r) ==
  /\ r.candidate \in Planned
  /\ \A j \in Jobs : /\ attempt[<<r, j>>].number > 0
                     /\ ~attempt[<<r, j>>].revoked
                     /\ attempt[<<r, j>>].result = "success"

Eligible(r) == Approved(r) /\ Evidenced(r)

TransitionFromZero(r) == [sequence |-> Len(finalized), review |-> r] \* Mutant.
Transition(r) == [sequence |-> Len(finalized) + 1, review |-> r]

FinalizedReviews == {finalized[i].review : i \in DOMAIN finalized}
-----------------------------------------------------------------------------
(* Initial state: a root import has just been finalized. *)

Init ==
  /\ protectedRef = Imported
  /\ proposalRef = [p \in Proposals |-> None]
  /\ finalized = <<>>
  /\ intent = None
  /\ reviews = {}
  /\ approvals = {}
  /\ revocations = {}
  /\ attempt = [x \in ReviewIds \X Jobs |-> NoAttempt]
  /\ bound = FALSE
  /\ service = "down"
  /\ ready = FALSE
  /\ pc = "idle"
  /\ receiving = None
  /\ promoting = None
  /\ todo = {}
  /\ caller = "startup"
  /\ wake = FALSE
  /\ failures = 0
  /\ exhausted = FALSE
  /\ crashes = 0
  /\ faults = 0

Fault == faults < MaxFaults /\ faults' = faults + 1

\* The operation ends and the queue admits the next one.
Release ==
  /\ pc' = "idle"
  /\ receiving' = None
  /\ promoting' = None

refs == <<protectedRef, proposalRef>>
ledger == <<finalized, intent>>
decisions == <<approvals, revocations>>
operation == <<pc, receiving, promoting>>
reconciliation == <<todo, caller>>
status == <<service, ready>>

\* The process is gone: its memory is what a fresh start begins with.
Exit ==
  /\ service' = "down"
  /\ ready' = FALSE
  /\ Release
  /\ todo' = {}
  /\ caller' = "startup"
  /\ wake' = FALSE
  /\ failures' = 0
  /\ exhausted' = FALSE

-----------------------------------------------------------------------------
(* Pushes and review publication *)

\* Mutant: receive.denyNonFastForwards is not set.
CanReceiveForced(p, c) ==
  Serving /\ (ready \/ exhausted) /\ proposalRef[p] # c

\* git receive-pack under a workspace-write lease: create or fast-forward.
\* businessReady is tested before the request joins the queue, so a request
\* admitted in time still runs after the loop gave up and cleared it.
CanReceive(p, c) ==
  /\ Serving
  /\ ready \/ exhausted
  /\ proposalRef[p] = None \/ <<proposalRef[p], c>> \in Ancestor
  /\ proposalRef[p] # c

Receive(p, c) ==
  /\ CanReceive(p, c)
  /\ proposalRef' = [proposalRef EXCEPT ![p] = c]
  /\ pc' = "received"
  /\ receiving' = p
  /\ UNCHANGED <<protectedRef, ledger, reviews, decisions, attempt, bound, status,
                 promoting, reconciliation, loop, crashes, faults>>

\* The backend was killed (timeout, aborted body) after receive-pack moved
\* the ref: afterSuccessfulWrite is not called and nothing is woken.
ReceiveKilled(p, c) ==
  /\ CanReceive(p, c)
  /\ Fault
  /\ proposalRef' = [proposalRef EXCEPT ![p] = c]
  /\ UNCHANGED <<protectedRef, ledger, reviews, decisions, attempt, bound,
                 volatile, crashes>>

\* afterSuccessfulWrite: createAuthoritativeNativeReview and its store.
PublishReview ==
  /\ pc = "received"
  /\ RootTarget
  /\ reviews' = reviews \cup {CurrentReview(receiving)}
  /\ Release
  /\ UNCHANGED <<refs, ledger, decisions, attempt, bound, status,
                 reconciliation, loop, crashes, faults>>

\* Mutant: the failure is only reported to the pusher.
PublishReviewFailsSilently ==
  /\ pc = "received"
  /\ Fault
  /\ Release
  /\ UNCHANGED <<durable, status, reconciliation, loop, crashes>>

\* Publication failed: the reconciliation loop is woken unless it gave up.
PublishReviewFails ==
  /\ pc = "received"
  /\ Fault
  /\ wake' = (wake \/ ~exhausted)
  /\ Release
  /\ UNCHANGED <<durable, status, reconciliation, failures, exhausted, crashes>>

-----------------------------------------------------------------------------
(* Proposal reconciliation: at startup, on activation, and in the loop *)

\* Mutants: refs nobody pushed are visited too; refs that ever had a review
\* are skipped.
BeginReconcileEveryRef(who) ==
  pc' = "reconciling" /\ todo' = Proposals /\ caller' = who
BeginReconcileUnseen(who) ==
  /\ pc' = "reconciling"
  /\ todo' = {p \in Pushed : \A r \in reviews : r.proposal # p}
  /\ caller' = who

BeginReconcile(who) ==
  /\ pc' = "reconciling"
  /\ todo' = Pushed
  /\ caller' = who

LoopRun ==
  /\ service = "up" /\ pc = "idle"
  /\ wake
  /\ wake' = FALSE
  /\ BeginReconcile("loop")
  /\ UNCHANGED <<durable, status, receiving, promoting, failures, exhausted,
                 crashes, faults>>

\* POST /v1/activation: bind, then reconcile; businessReady only afterwards.
Activate ==
  /\ service = "up" /\ pc = "idle"
  /\ ~ready
  /\ bound' = TRUE
  /\ BeginReconcile("activate")
  /\ UNCHANGED <<refs, ledger, reviews, decisions, attempt, status, receiving,
                 promoting, loop, crashes, faults>>

ReconcileOne(p) ==
  /\ pc = "reconciling"
  /\ p \in todo
  /\ RootTarget
  /\ reviews' = reviews \cup {CurrentReview(p)}
  /\ todo' = todo \ {p}
  /\ UNCHANGED <<refs, ledger, decisions, attempt, bound, status, operation,
                 caller, loop, crashes, faults>>

ReconcileDone ==
  /\ pc = "reconciling"
  /\ todo = {}
  /\ service' = "up"
  /\ ready' = (ready \/ caller # "loop")
  /\ failures' = IF caller = "loop" THEN 0 ELSE failures
  /\ Release
  /\ UNCHANGED <<durable, reconciliation, wake, exhausted, crashes, faults>>

\* The loop retries after a delay until the delays run out; then the service
\* stops being ready for good (until it is activated again or restarted).
LoopFailure ==
  /\ IF failures < Retries
       THEN /\ failures' = failures + 1
            /\ wake' = TRUE
            /\ UNCHANGED <<exhausted, ready>>
       ELSE /\ exhausted' = TRUE
            /\ ready' = FALSE
            /\ wake' = FALSE
            /\ UNCHANGED failures
  /\ Release
  /\ todo' = {}
  /\ UNCHANGED <<service, caller>>

ReconcileFails ==
  /\ pc = "reconciling"
  /\ todo # {}
  /\ IF RootTarget THEN Fault ELSE UNCHANGED faults
  /\ CASE caller = "startup" -> Exit
       [] caller = "activate" -> /\ Release
                                 /\ todo' = {}
                                 /\ UNCHANGED <<status, caller, loop>>
       [] caller = "loop" -> LoopFailure
  /\ UNCHANGED <<durable, crashes>>

-----------------------------------------------------------------------------
(* Human decisions *)

\* A replayed request changes nothing, so only a new one is a step.
Approve(r, v, q) ==
  LET a == [review |-> r, reviewer |-> v, request |-> q] IN
  /\ Serving
  /\ r \in reviews
  /\ v \in ReviewersOf(r)
  /\ Fresh(r)
  /\ a \notin approvals
  /\ ~HasActive(r, v)
  /\ approvals' = approvals \cup {a}
  /\ UNCHANGED <<refs, ledger, reviews, revocations, attempt, bound, volatile,
                 crashes, faults>>

\* Allowed on a stale review too.
Revoke(a) ==
  /\ Serving
  /\ a \in approvals \ revocations
  /\ revocations' = revocations \cup {a}
  /\ UNCHANGED <<refs, ledger, reviews, approvals, attempt, bound, volatile,
                 crashes, faults>>

-----------------------------------------------------------------------------
(* CI attempts and terminal statuses *)

SetAttempt(r, j, a) ==
  /\ attempt' = [attempt EXCEPT ![<<r, j>>] = a]
  /\ UNCHANGED <<refs, ledger, reviews, decisions, bound, volatile, crashes,
                 faults>>

\* A QEMU job has one unrevoked attempt at a time; an ordinary one is
\* simply superseded by the next.
IssueAttempt(r, j) ==
  LET last == attempt[<<r, j>>] IN
  /\ Serving
  /\ r \in reviews
  /\ Fresh(r)
  /\ r.candidate \in Planned
  /\ last.number < MaxAttempts
  /\ j \in QemuJobs => last.number = 0 \/ last.revoked
  /\ SetAttempt(r, j, [number |-> last.number + 1, revoked |-> FALSE,
                           result |-> "none"])

RevokeAttempt(r, j) ==
  LET last == attempt[<<r, j>>] IN
  /\ Serving
  /\ last.number > 0
  /\ ~last.revoked
  /\ SetAttempt(r, j, [last EXCEPT !.revoked = TRUE])

\* The ordinary intake re-derives the whole review tuple, the QEMU intake
\* only the current attempt.
ReportStatus(r, j, result) ==
  LET last == attempt[<<r, j>>] IN
  /\ Serving
  /\ last.number > 0
  /\ ~last.revoked
  /\ last.result = "none"
  /\ j \notin QemuJobs => Fresh(r)
  /\ SetAttempt(r, j, [last EXCEPT !.result = result])

-----------------------------------------------------------------------------
(* Promotion: promoteInstalledNativeReview *)

AlreadyCurrentNever(r) == FALSE \* Mutant: no replay check.
AlreadyCurrent(r) == r \in FinalizedReviews /\ LedgerHead = r.candidate

PromoteIntent(r) ==
  /\ Serving
  /\ r \in reviews
  /\ ~AlreadyCurrent(r)
  /\ Fresh(r)
  /\ Eligible(r)
  /\ <<r.head, r.candidate>> \in Ancestor
  /\ intent' = Transition(r)
  /\ promoting' = Transition(r)
  /\ pc' = "intended"
  /\ UNCHANGED <<refs, finalized, reviews, decisions, attempt, bound, status,
                 receiving, reconciliation, loop, crashes, faults>>

\* git update-ref --stdin: update the protected ref, verify the proposal.
SwapApplies(t) ==
  /\ protectedRef = t.review.head
  /\ proposalRef[t.review.proposal] = t.review.candidate

Swap ==
  /\ pc = "intended"
  /\ IF SwapApplies(promoting)
       THEN /\ protectedRef' = promoting.review.candidate
            /\ pc' = "swapped"
            /\ UNCHANGED <<receiving, promoting>>
       ELSE Release /\ UNCHANGED protectedRef
  /\ UNCHANGED <<proposalRef, ledger, reviews, decisions, attempt, bound, status,
                 reconciliation, loop, crashes, faults>>

\* The Git child dies before or after its commit; the promotion throws and
\* leaves the intent behind.
SwapDies ==
  /\ pc = "intended"
  /\ Fault
  /\ \/ UNCHANGED protectedRef
     \/ SwapApplies(promoting) /\ protectedRef' = promoting.review.candidate
  /\ Release
  /\ UNCHANGED <<proposalRef, ledger, reviews, decisions, attempt, bound, status,
                 reconciliation, loop, crashes>>

\* finalizeNativeProjectRootPromotion: one transaction. Its insert fails on a
\* second row for the same review; the intent then stays.
FinalizeCommits ==
  /\ intent = promoting
  /\ promoting.review \notin FinalizedReviews

Finalize ==
  /\ pc = "swapped"
  /\ FinalizeCommits
  /\ finalized' = Append(finalized, promoting)
  /\ intent' = None
  /\ Release
  /\ UNCHANGED <<refs, reviews, decisions, attempt, bound, status,
                 reconciliation, loop, crashes, faults>>

\* Mutant: deleting the intent is a transaction of its own.
FinalizeFailsHalfway ==
  /\ pc = "swapped"
  /\ Fault
  /\ intent' = None
  /\ Exit
  /\ UNCHANGED <<refs, finalized, reviews, decisions, attempt, bound, crashes>>

\* A failing transaction: a promotion throws, a recovering process exits.
FinalizeFails ==
  /\ pc = "swapped"
  /\ IF FinalizeCommits THEN Fault ELSE UNCHANGED faults
  /\ IF service = "recovering"
       THEN Exit
       ELSE Release /\ UNCHANGED <<status, reconciliation, loop>>
  /\ UNCHANGED <<durable, crashes>>

-----------------------------------------------------------------------------
(* Crash, restart, recovery: recoverNativeProjectRootPromotions *)

Crash ==
  /\ service # "down"
  /\ crashes < MaxCrashes
  /\ crashes' = crashes + 1
  /\ Exit
  /\ UNCHANGED <<durable, faults>>

\* Graceful shutdown drains the queue first.
Stop ==
  /\ service = "up" /\ pc = "idle"
  /\ Exit
  /\ UNCHANGED <<durable, crashes, faults>>

Start ==
  /\ service = "down"
  /\ service' = "recovering"
  /\ UNCHANGED <<durable, ready, operation, reconciliation, loop, crashes, faults>>

Recovering == service = "recovering" /\ pc = "idle"

\* Mutant: recovery always swaps and so needs the old head.
RecoverIntentUnswapped ==
  /\ Recovering
  /\ intent # None
  /\ SwapApplies(intent)
  /\ protectedRef' = intent.review.candidate
  /\ pc' = "swapped"
  /\ promoting' = intent
  /\ UNCHANGED <<proposalRef, ledger, reviews, decisions, attempt, bound, status,
                 receiving, reconciliation, loop, crashes, faults>>

\* The ref still has the expected head: swap again. Anything but expected
\* head or candidate is foreign and stops the process.
RecoverIntent ==
  /\ Recovering
  /\ intent # None
  /\ \/ /\ SwapApplies(intent)
        /\ protectedRef' = intent.review.candidate
     \/ /\ protectedRef # intent.review.head
        /\ protectedRef = intent.review.candidate
        /\ UNCHANGED protectedRef
  /\ pc' = "swapped"
  /\ promoting' = intent
  /\ UNCHANGED <<proposalRef, ledger, reviews, decisions, attempt, bound, status,
                 receiving, reconciliation, loop, crashes, faults>>

RecoverFails ==
  /\ Recovering
  /\ intent # None
  /\ \/ protectedRef = intent.review.head /\ ~SwapApplies(intent) /\ UNCHANGED faults
     \/ protectedRef \notin {intent.review.head, intent.review.candidate}
          /\ UNCHANGED faults
     \/ Fault
  /\ Exit
  /\ UNCHANGED <<durable, crashes>>

RecoverDone ==
  /\ Recovering
  /\ intent = None
  /\ IF bound
       THEN BeginReconcile("startup") /\ UNCHANGED service
       ELSE service' = "up" /\ UNCHANGED <<pc, reconciliation>>
  /\ UNCHANGED <<durable, ready, receiving, promoting, loop, crashes, faults>>

-----------------------------------------------------------------------------
Next ==
  \/ \E p \in Proposals, c \in Commits : Receive(p, c) \/ ReceiveKilled(p, c)
  \/ PublishReview
  \/ PublishReviewFails
  \/ LoopRun
  \/ Activate
  \/ \E p \in Proposals : ReconcileOne(p)
  \/ ReconcileDone
  \/ ReconcileFails
  \/ \E r \in reviews, v \in Reviewers, q \in Requests : Approve(r, v, q)
  \/ \E a \in approvals : Revoke(a)
  \/ \E r \in reviews, j \in Jobs : IssueAttempt(r, j) \/ RevokeAttempt(r, j)
  \/ \E r \in reviews, j \in Jobs, result \in {"success", "failure"} :
       ReportStatus(r, j, result)
  \/ \E r \in reviews : PromoteIntent(r)
  \/ Swap
  \/ SwapDies
  \/ Finalize
  \/ FinalizeFails
  \/ Crash
  \/ Stop
  \/ Start
  \/ RecoverIntent
  \/ RecoverFails
  \/ RecoverDone

Spec == Init /\ [][Next]_vars

-----------------------------------------------------------------------------
(* Fairness: every step of a running operation is taken (the event loop     *)
(* runs queued continuations and timers). Requests, crashes and faults are *)
(* not fair. The generated Compose service has no restart policy, so       *)
(* WF_vars(Start) is an assumption on the operator: a service that is down *)
(* is started again.                                                       *)
Fairness ==
  /\ WF_vars(Start)
  /\ WF_vars(RecoverIntent \/ RecoverDone)
  /\ WF_vars(Finalize)
  /\ WF_vars(Swap)
  /\ WF_vars(PublishReview)
  /\ WF_vars(LoopRun)
  /\ WF_vars(\E p \in Proposals : ReconcileOne(p))
  /\ WF_vars(ReconcileDone)
  /\ WF_vars(ReconcileFails /\ ~RootTarget)

FairSpec == Spec /\ Fairness

-----------------------------------------------------------------------------
(* Properties *)

\* Every variable ranges over the values its table, file or field can hold.
TypeOK ==
  /\ protectedRef \in Commits
  /\ proposalRef \in [Proposals -> Commits \cup {None}]
  /\ finalized \in Seq(Transitions)
  /\ intent \in Transitions \cup {None}
  /\ reviews \subseteq ReviewIds
  /\ approvals \subseteq Approvals
  /\ revocations \subseteq approvals
  /\ attempt \in [ReviewIds \X Jobs -> Attempt]
  /\ bound \in BOOLEAN
  /\ service \in {"down", "recovering", "up"}
  /\ ready \in BOOLEAN
  /\ pc \in {"idle", "received", "reconciling", "intended", "swapped"}
  /\ receiving \in Proposals \cup {None}
  /\ promoting \in Transitions \cup {None}
  /\ todo \subseteq Proposals
  /\ caller \in {"startup", "activate", "loop"}
  /\ wake \in BOOLEAN
  /\ failures \in Nat
  /\ exhausted \in BOOLEAN
  /\ crashes \in Nat
  /\ faults \in Nat

\* The protected ref is at the ledger's head, or one finished swap ahead of it
\* with the intent still there to say so: recovery never meets a foreign head
\* (native-project-root-promotion-recovery.ts), however crashes and dying Git
\* children cut a promotion.
HeadMatchesLedger ==
  \/ protectedRef = LedgerHead
  \/ intent # None /\ protectedRef = intent.review.candidate

\* The finalized rows are the contiguous chain that
\* assertNativeProjectRootPromotionRows and foldCurrentHead insist on: a state
\* that breaks it can never be served again.
LedgerChain ==
  \A i \in DOMAIN finalized :
    /\ finalized[i].sequence = i
    /\ finalized[i].review.head =
         IF i = 1 THEN Imported ELSE finalized[i - 1].review.candidate
    /\ <<finalized[i].review.head, finalized[i].review.candidate>> \in Ancestor

\* What the policy asks of a promotion, stated apart from the code that checks
\* it: the reviewers with an unrevoked approval of r are the required ones, and
\* the last attempt of each required job is unrevoked and succeeded.
Authorized(r) ==
  /\ \A v \in Reviewers :
       v \in RequiredReviewers[<<r.head, r.candidate>>] <=>
         \E a \in approvals \ revocations : a.review = r /\ a.reviewer = v
  /\ \A j \in Jobs : /\ ~attempt[<<r, j>>].revoked
                     /\ attempt[<<r, j>>].result = "success"

\* A saved intent can always be carried through by a restart: it continues the
\* chain, its proposal still has the verified candidate, its finalized row will
\* not collide with an earlier one, and the authorization that was checked
\* before it was saved still holds, because nothing else is admitted meanwhile.
IntentRecoverable ==
  intent # None =>
    /\ intent.sequence = Len(finalized) + 1
    /\ intent.review.head = LedgerHead
    /\ intent.review.candidate = proposalRef[intent.review.proposal]
    /\ intent.review \notin FinalizedReviews
    /\ Authorized(intent.review)

\* No reviewer ever has two active approvals on one review; with two,
\* readAuthoritativeNativeDecisions throws on every later read.
OneActiveApproval ==
  \A a, b \in approvals \ revocations :
    a.review = b.review /\ a.reviewer = b.reviewer => a = b

Stale(r) == r.head # LedgerHead \/ r.candidate # proposalRef[r.proposal]

\* A stale review stays stale: approvals and evidence given for an abandoned
\* candidate or an old head never come back to life, whatever is pushed and
\* promoted later.
StaleStaysStale == [][\A r \in reviews : Stale(r) => Stale(r)']_vars

\* The service becomes ready for pushes only when every proposal ref has a
\* review of its present commit against the present head: a ref whose envelope
\* was lost to a crash or a killed backend has been reconciled.
ReadyMeansReviewed ==
  [][~ready /\ ready' => \A p \in Pushed : CurrentReview(p) \in reviews]_vars

\* Promotions as the abstract protected head sees them: an intent counts from
\* the moment the ref is at its candidate.
Log == IF intent # None /\ protectedRef = intent.review.candidate
         THEN Append(finalized, intent) ELSE finalized

Abstract == INSTANCE ProtectedHead WITH
  head <- protectedRef, log <- Log, eligible <- {r \in reviews : Authorized(r)}

\* Every move of the protected ref, by a promotion or by recovery after any
\* crash, is one authorized promotion recorded exactly once.
ImplementsProtectedHead == Abstract!Spec

\* A restart resolves what a crash or a dead Git child left unresolved.
RecoveryResolvesIntent ==
  (service = "recovering" /\ intent # None) ~> (intent = None)

\* A proposal whose receive was accepted gets its review, by the receive
\* itself, by the reconciliation loop or by a restart, unless the loop gave up
\* and the service reports itself unavailable.
AcceptedPushIsReviewed ==
  \A p \in Proposals :
    (pc = "received" /\ receiving = p) ~>
      (exhausted \/ CurrentReview(p) \in reviews)
=============================================================================
