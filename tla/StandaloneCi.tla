----------------------------- MODULE StandaloneCi -----------------------------
(***************************************************************************)
(* The standalone native Git review service (native-git/review-service.ts, *)
(* promotion-service.ts and their stores) together with the ordinary       *)
(* authority it verifies against (core/nativeOrdinary*.ts): review events  *)
(* become demands, a host claims one, Git issues the attempt, the host     *)
(* runs it and reports, the authority delivers the status, a promoter      *)
(* moves the protected head.  Each service asks the other before it acts,  *)
(* and each answer may be stale when it is used.                           *)
(*                                                                         *)
(* All reviews propose a child of head 0 and need one approval and one     *)
(* job.  A claim is the number of the host's request: receipt, claim row   *)
(* and attempt share it.  Receipt and claim rows change together, an       *)
(* assignment row exists while the claim is active or reported and a       *)
(* capacity fence while it is recovering, so one state stands for all.     *)
(***************************************************************************)
EXTENDS Naturals, Sequences, FiniteSets, SequencesExt

CONSTANTS AReviews,     \* review identities
          ALanes,       \* host capacities
          AMaxClaims,   \* bound on claim requests
          AMaxEpochs,   \* bound on starts of the authority
          AMaxFaults    \* bound on crashes and lost messages

ASSUME StandaloneAssumption ==
    /\ 0 \notin AReviews
    /\ AMaxClaims \in Nat \ {0} /\ AMaxEpochs \in Nat \ {0} /\ AMaxFaults \in Nat

VARIABLES
    aHead,       \* the protected head
    aCreated,    \* review envelopes in the outbox, oldest first
    aAcked,      \* reviews with a delivery marker
    aMoved,      \* reviews whose proposal ref has moved on
    aApproved,   \* reviews with an approval that is not revoked
    aAttempts,   \* per review, its issued attempts
    aRevoked,    \* revoked attempts
    aStatus,     \* recorded statuses
    aLock,       \* holder of the protected ref's serializer key
    aPromotion,  \* the promotion under way
    aRecording,  \* the status request Git is serving
    aIntake,     \* the event delivery under way
    aAdmission,  \* the active admission (generation 0: none), generations made
    aDemand,     \* demands
    aClaims,     \* claims and receipts
    aOutbox,     \* report outbox
    aReporter,   \* claim the reporter waits for, 0 when none
    aHandler,    \* claim requests being served
    aEpoch,      \* starts of the authority
    aHost,       \* hosts: stage, journal, claim, result
    aContainers, \* claims whose container exists
    aFaults

aGitVars == <<aHead, aCreated, aAcked, aMoved, aApproved, aAttempts, aRevoked, aStatus, aLock, aPromotion, aRecording>>
aIntakeVars == <<aIntake, aAdmission, aEpoch>>
aClaimVars == <<aDemand, aClaims, aOutbox>>
aHostVars == <<aHost, aContainers>>
aVars == <<aGitVars, aIntakeVars, aClaimVars, aReporter, aHandler, aHostVars, aFaults>>

AClaimIds == 1..AMaxClaims
ASlots == 1..2
ANoClaim == [state |-> "unused", lane |-> "none", review |-> 0, gen |-> 0, result |-> "none", recovered |-> FALSE]
AIdle == [stage |-> "none", review |-> 0]
AFree == [stage |-> "none", claim |-> 0, epoch |-> 0]
AResting == [stage |-> "down", journal |-> "none", claim |-> 0, result |-> "none"]

StandaloneInit ==
    /\ aHead = 0 /\ aCreated = <<>> /\ aAcked = {} /\ aMoved = {} /\ aApproved = {}
    /\ aAttempts = [r \in AReviews |-> <<>>] /\ aRevoked = {} /\ aStatus = [n \in AClaimIds |-> "none"]
    /\ aLock = "free" /\ aPromotion = AIdle /\ aRecording = [stage |-> "none", claim |-> 0]
    /\ aIntake = AIdle /\ aAdmission = [gen |-> 0, fresh |-> FALSE, made |-> 0]
    /\ aDemand = [r \in AReviews |-> [state |-> "none", gen |-> 0]]
    /\ aClaims = [n \in AClaimIds |-> ANoClaim] /\ aOutbox = [n \in AClaimIds |-> "none"]
    /\ aReporter = 0 /\ aHandler = [i \in ASlots |-> AFree] /\ aEpoch = 1
    /\ aHost = [l \in ALanes |-> AResting] /\ aContainers = {}
    /\ aFaults = 0

AFault == aFaults < AMaxFaults /\ aFaults' = aFaults + 1

-----------------------------------------------------------------------------
(* Reviews.                                                                *)

(* status: head or candidate changed since the review.                     *)
AStale(r) == aHead # 0 \/ r \in aMoved

ACurrentAttempt(r, n) ==
    /\ aAttempts[r] # <<>> /\ Last(aAttempts[r]) = n
    /\ n \notin aRevoked

(* createOnce: one immutable envelope per review identity.                 *)
AEnveloped(r) == r \in Range(aCreated)

ACreate(r) ==
    /\ ~AEnveloped(r) /\ ~AStale(r)
    /\ aCreated' = Append(aCreated, r)
    /\ UNCHANGED <<aHead, aAcked, aMoved, aApproved, aAttempts, aRevoked, aStatus, aLock, aPromotion, aRecording,
                   aIntakeVars, aClaimVars, aReporter, aHandler, aHostVars, aFaults>>

(* A workspace pushes another candidate over the proposal ref.             *)
APush(r) ==
    /\ r \in Range(aCreated) \ aMoved
    /\ aMoved' = aMoved \cup {r}
    /\ UNCHANGED <<aHead, aCreated, aAcked, aApproved, aAttempts, aRevoked, aStatus, aLock, aPromotion, aRecording,
                   aIntakeVars, aClaimVars, aReporter, aHandler, aHostVars, aFaults>>

ADecision(approved) ==
    /\ aLock = "free"
    /\ aApproved' = approved
    /\ UNCHANGED <<aHead, aCreated, aAcked, aMoved, aAttempts, aRevoked, aStatus, aLock, aPromotion, aRecording,
                   aIntakeVars, aClaimVars, aReporter, aHandler, aHostVars, aFaults>>

AApprove(r) ==
    /\ r \in Range(aCreated) \ aApproved /\ ~AStale(r)
    /\ ADecision(aApproved \cup {r})

\* Mutant: a revocation does not wait for the protected ref's key.
ARevokeApprovalUnserialized(r) ==
    /\ r \in aApproved
    /\ aApproved' = aApproved \ {r}
    /\ UNCHANGED <<aHead, aCreated, aAcked, aMoved, aAttempts, aRevoked, aStatus, aLock, aPromotion, aRecording,
                   aIntakeVars, aClaimVars, aReporter, aHandler, aHostVars, aFaults>>
ARevokeApproval(r) ==
    /\ r \in aApproved
    /\ ADecision(aApproved \ {r})

-----------------------------------------------------------------------------
(* The authority's answers, as Git asks for them.                          *)

(* NativeOrdinaryVerificationStore.admitted.                               *)
AAdmitted(n) == aAdmission.fresh /\ aAdmission.gen = aClaims[n].gen

(* current: an active claim, or a result that was not denied.              *)
AAttemptCurrent(n) ==
    /\ aAdmission.gen = aClaims[n].gen
    /\ \/ aClaims[n].state = "active" /\ aAdmission.fresh
       \/ aOutbox[n] \notin {"none", "denied"}

-----------------------------------------------------------------------------
(* Promotion: evidence, the authority's confirmation, compare-and-swap,    *)
(* all under the protected ref's key.                                      *)

APromotes(stage, r, lock) ==
    /\ aPromotion' = [stage |-> stage, review |-> r]
    /\ aLock' = lock
    /\ UNCHANGED <<aCreated, aAcked, aMoved, aApproved, aAttempts, aRevoked, aStatus, aRecording,
                   aIntakeVars, aClaimVars, aReporter, aHandler, aHostVars, aFaults>>

(* approvalsComplete and jobsSuccessful.                                   *)
AEvidence(r) == r \in aApproved /\ \E n \in AClaimIds : ACurrentAttempt(r, n) /\ aStatus[n] = "success"

APromoteCheck(r) ==
    /\ aLock = "free" /\ aPromotion = AIdle
    /\ AEnveloped(r) /\ ~AStale(r) /\ AEvidence(r)
    /\ APromotes("prove", r, "promote")
    /\ UNCHANGED aHead

APromoteProve ==
    /\ aPromotion.stage = "prove"
    /\ LET r == aPromotion.review IN
       IF AAttemptCurrent(Last(aAttempts[r])) THEN APromotes("swap", r, "promote") ELSE APromotes("none", 0, "free")
    /\ UNCHANGED aHead

APromoteSwap ==
    /\ aPromotion.stage = "swap"
    /\ aHead' = IF AStale(aPromotion.review) THEN aHead ELSE aPromotion.review
    /\ APromotes("none", 0, "free")

-----------------------------------------------------------------------------
(* Event delivery and intake.                                              *)

APending == SelectSeq(aCreated, LAMBDA r : r \notin aAcked)

AIntakes(stage, r) ==
    /\ aIntake' = [stage |-> stage, review |-> r]
    /\ UNCHANGED <<aGitVars, aReporter, aHandler, aEpoch, aHostVars>>

(* The oldest undelivered event is offered; a known one is only answered.  *)
AOffer ==
    /\ aIntake = AIdle /\ APending # <<>>
    /\ LET r == Head(APending) IN AIntakes(IF aDemand[r].state = "none" THEN "policy" ELSE "reply", r)
    /\ UNCHANGED <<aAdmission, aClaimVars, aFaults>>

(* admit: refreshes the admission, or makes a generation.                  *)
AAdmit ==
    /\ aIntake.stage = "policy"
    /\ aAdmission' = IF aAdmission.gen # 0 THEN [aAdmission EXCEPT !.fresh = TRUE]
                     ELSE [gen |-> aAdmission.made + 1, fresh |-> TRUE, made |-> aAdmission.made + 1]
    /\ AIntakes("event", aIntake.review)
    /\ UNCHANGED <<aClaimVars, aFaults>>

(* assertReviewEvent: Git says whether the review is still the one told of.*)
AEventProven(r) == aLock = "free" /\ ~AStale(r)

(* assertReviewEvent, then accept in one transaction.                      *)
AAccept ==
    /\ aIntake.stage = "event" /\ aLock = "free"
    /\ LET r == aIntake.review
           accepted == AEventProven(r) /\ aAdmission.gen # 0 /\ aAdmission.fresh
       IN /\ aDemand' = IF accepted THEN [aDemand EXCEPT ![r] = [state |-> "queued", gen |-> aAdmission.gen]] ELSE aDemand
          /\ IF accepted THEN AIntakes("reply", r) ELSE AIntakes("none", 0)
    /\ UNCHANGED <<aAdmission, aClaims, aOutbox, aFaults>>

(* publishReviewAcknowledgement: staged, linked, the staging removed; a    *)
(* start finishes what a crash left.                                       *)
AMarkedDelivered(r) == aAcked \cup {r}

AAcknowledge ==
    /\ aIntake.stage = "reply"
    /\ aAcked' = AMarkedDelivered(aIntake.review)
    /\ aIntake' = AIdle
    /\ UNCHANGED <<aHead, aCreated, aMoved, aApproved, aAttempts, aRevoked, aStatus, aLock, aPromotion, aRecording,
                   aAdmission, aEpoch, aClaimVars, aReporter, aHandler, aHostVars, aFaults>>

AOfferLost ==
    /\ aIntake # AIdle
    /\ AFault
    /\ AIntakes("none", 0)
    /\ UNCHANGED <<aAdmission, aClaimVars>>

AAdmissionExpires ==
    /\ aAdmission.gen # 0 /\ aAdmission.fresh
    /\ aAdmission' = [aAdmission EXCEPT !.fresh = FALSE]
    /\ UNCHANGED <<aGitVars, aIntake, aEpoch, aClaimVars, aReporter, aHandler, aHostVars, aFaults>>

-----------------------------------------------------------------------------
(* Claims.                                                                 *)

AHolding == {"preparing", "active", "reported", "recovering"}
ABlocked(l) == \E n \in AClaimIds : aClaims[n].lane = l /\ aClaims[n].state \in AHolding

AQueued == SelectSeq(aCreated, LAMBDA r : aDemand[r].state = "queued" /\ aDemand[r].gen = aAdmission.gen)

(* The answer reaches a host that still waits for it.                      *)
AAnswers(n, stage) ==
    aHost' = [l \in ALanes |-> IF aHost[l].stage \in {"asking", "waiting"} /\ aHost[l].claim = n
                               THEN [aHost[l] EXCEPT !.stage = stage] ELSE aHost[l]]

AServes(i, n, stage) == aHandler' = [aHandler EXCEPT ![i] = [stage |-> stage, claim |-> n, epoch |-> aEpoch]]

(* The claim row of a new receipt.                                         *)
AClaimRow(s, l, r, gen) == [ANoClaim EXCEPT !.state = s, !.lane = l, !.review = r, !.gen = gen]

(* reserve: a repeated request finds its receipt, a new one takes the      *)
(* oldest demand of an admission in force.                                 *)
AReserve(l, i) ==
    /\ aHost[l].stage = "asking" /\ aHandler[i] = AFree
    /\ LET n == aHost[l].claim
           state == aClaims[n].state
           taken(s, r, gen) == [aClaims EXCEPT ![n] = AClaimRow(s, l, r, gen)]
       IN CASE state = "unused" /\ ~ABlocked(l) /\ aAdmission.fresh /\ AQueued # <<>> ->
                 LET r == Head(AQueued) IN
                 /\ aClaims' = taken("preparing", r, aDemand[r].gen)
                 /\ aDemand' = [aDemand EXCEPT ![r].state = "preparing"]
                 /\ AServes(i, n, "issue") /\ AAnswers(n, "waiting")
            [] state = "unused" /\ ~ABlocked(l) /\ ~(aAdmission.fresh /\ AQueued # <<>>) ->
                 aClaims' = taken("empty", 0, 0) /\ AAnswers(n, "idle") /\ UNCHANGED <<aDemand, aHandler>>
            [] state = "preparing" ->
                 AServes(i, n, "issue") /\ AAnswers(n, "waiting") /\ UNCHANGED <<aClaims, aDemand>>
            [] state = "active" -> AAnswers(n, "starting") /\ UNCHANGED <<aClaims, aDemand, aHandler>>
            [] state = "empty" -> AAnswers(n, "idle") /\ UNCHANGED <<aClaims, aDemand, aHandler>>
            [] OTHER -> AAnswers(n, "down") /\ UNCHANGED <<aClaims, aDemand, aHandler>>
    /\ UNCHANGED <<aGitVars, aIntakeVars, aOutbox, aReporter, aContainers, aFaults>>

AHandles(i, stage) == aHandler' = [aHandler EXCEPT ![i].stage = stage]
AHandlerEnds(i) == aHandler' = [aHandler EXCEPT ![i] = AFree]

(* issue, in Git: the review is current and the authority admits it.       *)
AIssueCheck(i) ==
    /\ aHandler[i].stage = "issue" /\ aLock = "free"
    /\ LET n == aHandler[i].claim IN
       IF AStale(aClaims[n].review) THEN AHandles(i, "release") /\ UNCHANGED <<aLock, aHost>>
       ELSE IF AAdmitted(n) THEN AHandles(i, "issuing") /\ aLock' = "issue" /\ UNCHANGED aHost
       ELSE AHandlerEnds(i) /\ AAnswers(n, "down") /\ UNCHANGED aLock
    /\ UNCHANGED <<aHead, aCreated, aAcked, aMoved, aApproved, aAttempts, aRevoked, aStatus, aPromotion, aRecording,
                   aIntakeVars, aClaimVars, aReporter, aContainers, aFaults>>

(* findIssuanceRequest: a request identity is issued once.                 *)
AIssued(r, n) == n \in Range(aAttempts[r])

(* JobAttemptStore.issue.                                                  *)
AIssueWrite(i) ==
    /\ aHandler[i].stage = "issuing"
    /\ LET n == aHandler[i].claim  r == aClaims[n].review IN
       /\ aAttempts' = IF AIssued(r, n) THEN aAttempts ELSE [aAttempts EXCEPT ![r] = Append(@, n)]
       /\ AHandles(i, IF AIssued(r, n) /\ ~ACurrentAttempt(r, n) THEN "release" ELSE "prove")
    /\ aLock' = "free"
    /\ UNCHANGED <<aHead, aCreated, aAcked, aMoved, aApproved, aRevoked, aStatus, aPromotion, aRecording,
                   aIntakeVars, aClaimVars, aReporter, aHostVars, aFaults>>

(* assertIssuedAttempt.                                                    *)
AProve(i) ==
    /\ aHandler[i].stage = "prove" /\ aLock = "free"
    /\ LET n == aHandler[i].claim  r == aClaims[n].review IN
       AHandles(i, IF ~AStale(r) /\ ACurrentAttempt(r, n) THEN "activate" ELSE "undo")
    /\ UNCHANGED <<aGitVars, aIntakeVars, aClaimVars, aReporter, aHostVars, aFaults>>

(* activate: by the service epoch that is still active.                    *)
AActivate(i) ==
    /\ aHandler[i].stage = "activate"
    /\ LET n == aHandler[i].claim  r == aClaims[n].review IN
       IF aHandler[i].epoch # aEpoch
       THEN AHandlerEnds(i) /\ AAnswers(n, "down") /\ UNCHANGED <<aClaims, aDemand>>
       ELSE IF aClaims[n].state = "active"
       THEN AHandlerEnds(i) /\ AAnswers(n, "starting") /\ UNCHANGED <<aClaims, aDemand>>
       ELSE IF aClaims[n].state = "preparing" /\ AAdmitted(n)
       THEN /\ aClaims' = [aClaims EXCEPT ![n].state = "active"]
            /\ aDemand' = [aDemand EXCEPT ![r].state = "claimed"]
            /\ AHandlerEnds(i) /\ AAnswers(n, "starting")
       ELSE AHandles(i, "undo") /\ UNCHANGED <<aClaims, aDemand, aHost>>
    /\ UNCHANGED <<aGitVars, aIntakeVars, aOutbox, aReporter, aContainers, aFaults>>

(* revokeAttempt, then releaseStale.                                       *)
AUndo(i) ==
    /\ aHandler[i].stage = "undo" /\ aLock = "free"
    /\ LET n == aHandler[i].claim IN
       IF Last(aAttempts[aClaims[n].review]) = n
       THEN aRevoked' = aRevoked \cup {n} /\ AHandles(i, "release") /\ UNCHANGED aHost
       ELSE AHandlerEnds(i) /\ AAnswers(n, "down") /\ UNCHANGED aRevoked
    /\ UNCHANGED <<aHead, aCreated, aAcked, aMoved, aApproved, aAttempts, aStatus, aLock, aPromotion, aRecording,
                   aIntakeVars, aClaimVars, aReporter, aContainers, aFaults>>

ARelease(i) ==
    /\ aHandler[i].stage = "release"
    /\ LET n == aHandler[i].claim IN
       /\ IF aClaims[n].state = "preparing"
          THEN /\ aClaims' = [aClaims EXCEPT ![n].state = "released"]
               /\ aDemand' = [aDemand EXCEPT ![aClaims[n].review].state = "superseded"]
          ELSE UNCHANGED <<aClaims, aDemand>>
       /\ AHandlerEnds(i) /\ AAnswers(n, "down")
    /\ UNCHANGED <<aGitVars, aIntakeVars, aOutbox, aReporter, aContainers, aFaults>>

(* Git is unavailable, or the answer is lost.                              *)
AHandlerFails(i) ==
    /\ aHandler[i].stage \notin {"none", "issuing"}
    /\ AFault
    /\ AHandlerEnds(i) /\ AAnswers(aHandler[i].claim, "down")
    /\ UNCHANGED <<aGitVars, aIntakeVars, aClaimVars, aReporter, aContainers>>

-----------------------------------------------------------------------------
(* Fencing.                                                                *)

AFenced(claims, set) == [n \in AClaimIds |-> IF n \in set /\ claims[n].state = "active"
                                             THEN [claims[n] EXCEPT !.state = "recovering"] ELSE claims[n]]

(* fenceExpiredClaims: the host did not renew in time.                     *)
ALeaseExpires(n) ==
    /\ aClaims[n].state = "active"
    /\ aClaims' = AFenced(aClaims, {n})
    /\ UNCHANGED <<aGitVars, aIntakeVars, aDemand, aOutbox, aReporter, aHandler, aHostVars, aFaults>>

(* invalidateGeneration: the admission, its queued demands and its results *)
(* not yet delivered; denied ones free their capacity.                     *)
AInvalidates(claims) ==
    LET gen == aAdmission.gen
        denied == {n \in AClaimIds : claims[n].gen = gen /\ claims[n].state = "reported"}
    IN /\ aAdmission' = [aAdmission EXCEPT !.gen = 0, !.fresh = FALSE]
       /\ aClaims' = [n \in AClaimIds |-> IF n \in denied THEN [claims[n] EXCEPT !.state = "released"] ELSE claims[n]]
       /\ aOutbox' = [n \in AClaimIds |-> IF n \in denied THEN "denied" ELSE aOutbox[n]]
       /\ aDemand' = [r \in AReviews |->
              IF \E n \in denied : claims[n].review = r THEN [aDemand[r] EXCEPT !.state = "failed"]
              ELSE IF aDemand[r].state = "queued" /\ aDemand[r].gen = gen THEN [aDemand[r] EXCEPT !.state = "superseded"]
              ELSE aDemand[r]]

(* beginEpochAndExpire: a new epoch fences what was active; an admission   *)
(* of other capacities goes.                                               *)
ABeginsEpoch(replaced) ==
    LET fenced == AFenced(aClaims, AClaimIds)
    IN /\ aEpoch' = aEpoch + 1
       /\ IF replaced THEN AInvalidates(fenced)
          ELSE aClaims' = fenced /\ UNCHANGED <<aAdmission, aDemand, aOutbox>>

(* The authority starts again, perhaps with other capacities.  Requests    *)
(* the old process serves go on.                                           *)
ARestart(changed) ==
    /\ aEpoch < AMaxEpochs
    /\ ABeginsEpoch(changed /\ aAdmission.gen # 0)
    /\ aIntake' = AIdle
    /\ aReporter' = 0
    /\ UNCHANGED <<aGitVars, aHandler, aHostVars, aFaults>>

-----------------------------------------------------------------------------
(* Hosts.                                                                  *)

AHostGoes(l, stage, journal) ==
    aHost' = [aHost EXCEPT ![l].stage = stage, ![l].journal = journal]
AHostOnly == UNCHANGED <<aGitVars, aIntakeVars, aClaimVars, aReporter, aHandler>>

(* cleanupForReplay: the container of an interrupted claim goes first.     *)
\* Mutant: the journal is replayed without removing the container.
AReplayedAsIs(l) == aContainers
ACleanedForReplay(l) ==
    IF aHost[l].journal \in {"active", "result", "recovery"} THEN aContainers \ {aHost[l].claim} ELSE aContainers

(* serveNativeOrdinaryHostCapacity: the journal is replayed first.         *)
AHostStarts(l) ==
    /\ aHost[l].stage = "down"
    /\ CASE aHost[l].journal = "none" -> AHostGoes(l, "idle", "none")
         [] aHost[l].journal = "claim" -> AHostGoes(l, "asking", "claim")
         [] aHost[l].journal = "result" -> AHostGoes(l, "report", "result")
         [] OTHER -> AHostGoes(l, "recover", "recovery")
    /\ aContainers' = ACleanedForReplay(l)
    /\ AHostOnly /\ UNCHANGED aFaults

(* A fresh request is journaled, then sent.                                *)
AHostAsks(l) ==
    /\ aHost[l].stage = "idle"
    /\ \E n \in AClaimIds :
       /\ aClaims[n].state = "unused" /\ \A k \in ALanes : aHost[k].claim # n
       /\ \A m \in AClaimIds : m < n => aClaims[m].state # "unused" \/ \E k \in ALanes : aHost[k].claim = m
       /\ aHost' = [aHost EXCEPT ![l] = [stage |-> "asking", journal |-> "claim", claim |-> n, result |-> "none"]]
    /\ AHostOnly /\ UNCHANGED <<aContainers, aFaults>>

(* startClaim: the claim is journaled, then the container runs.            *)
AHostJournals(l) ==
    /\ aHost[l].stage = "starting"
    /\ AHostGoes(l, "active", "active")
    /\ AHostOnly /\ UNCHANGED <<aContainers, aFaults>>

AHostLaunches(l) ==
    /\ aHost[l].stage = "active"
    /\ AHostGoes(l, "running", "active")
    /\ aContainers' = aContainers \cup {aHost[l].claim}
    /\ AHostOnly /\ UNCHANGED aFaults

(* cleanupNativeContainer: by ownership labels, whatever state it is in.   *)
ARemoved(l) == aContainers \ {aHost[l].claim}

(* classifyCompletion: exit code, timeout or output limit.                 *)
AOutcomes == {"success", "failure"}

(* The container is removed before anything is reported.                   *)
AHostFinishes(l, result) ==
    /\ aHost[l].stage = "running"
    /\ aContainers' = ARemoved(l)
    /\ aHost' = [aHost EXCEPT ![l].stage = "report", ![l].journal = "result", ![l].result = result]
    /\ AHostOnly /\ UNCHANGED aFaults

(* renew: a renewal finds the claim active.                                *)
ALeased(l) == aClaims[aHost[l].claim].state = "active"

(* The lease is lost, or candidate, image or launch fail: clean up,        *)
(* recover.                                                                *)
AHostAborts(l) ==
    /\ aHost[l].stage \in {"active", "running"}
    /\ IF ALeased(l) THEN AFault ELSE UNCHANGED aFaults
    /\ aContainers' = ARemoved(l)
    /\ AHostGoes(l, "recover", "recovery")
    /\ AHostOnly

AHostCrashes(l) ==
    /\ aHost[l].stage # "down"
    /\ AFault
    /\ AHostGoes(l, "down", aHost[l].journal)
    /\ AHostOnly /\ UNCHANGED aContainers

(* The rows of an accepted result, in one transaction.                     *)
AStored(n, result) ==
    /\ aClaims' = [aClaims EXCEPT ![n].state = "reported", ![n].result = result]
    /\ aDemand' = [aDemand EXCEPT ![aClaims[n].review].state = "reported"]
    /\ aOutbox' = [aOutbox EXCEPT ![n] = "pending"]

(* accept: once per claim, and only while the claim is active.             *)
AResult(l) ==
    /\ aHost[l].stage = "report"
    /\ LET n == aHost[l].claim IN
       CASE aOutbox[n] # "none" -> AHostGoes(l, "idle", "none") /\ UNCHANGED aClaimVars
         [] aOutbox[n] = "none" /\ aClaims[n].state = "active" ->
              /\ AStored(n, aHost[l].result)
              /\ AHostGoes(l, "idle", "none")
         [] OTHER -> AHostGoes(l, "recover", "recovery") /\ UNCHANGED aClaimVars
    /\ UNCHANGED <<aGitVars, aIntakeVars, aReporter, aHandler, aContainers, aFaults>>

(* The result is durable, its acknowledgement is lost.                     *)
AResultLost(l) ==
    /\ aHost[l].stage = "report"
    /\ aClaims[aHost[l].claim].state = "active"
    /\ AFault
    /\ LET n == aHost[l].claim IN
       /\ AStored(n, aHost[l].result)
       /\ AHostGoes(l, "down", "result")
    /\ UNCHANGED <<aGitVars, aIntakeVars, aReporter, aHandler, aContainers>>

(* prepareRecovery: of a claim that is active or already recovering.       *)
ARecoverable == {"active", "recovering"}

ARecover(l) ==
    /\ aHost[l].stage = "recover"
    /\ LET n == aHost[l].claim IN
       IF aClaims[n].state \in ARecoverable
       THEN aClaims' = [aClaims EXCEPT ![n].state = "recovering"] /\ AHostGoes(l, "revoke", "recovery")
       ELSE /\ IF aClaims[n].recovered THEN AHostGoes(l, "idle", "none") ELSE AHostGoes(l, "down", "recovery")
            /\ UNCHANGED aClaims
    /\ UNCHANGED <<aGitVars, aIntakeVars, aDemand, aOutbox, aReporter, aHandler, aContainers, aFaults>>

(* Git revokes the attempt.                                                *)
ARevokeAttempt(l) ==
    /\ aHost[l].stage = "revoke" /\ aLock = "free"
    /\ LET n == aHost[l].claim IN
       IF Last(aAttempts[aClaims[n].review]) = n
       THEN aRevoked' = aRevoked \cup {n} /\ AHostGoes(l, "complete", "recovery")
       ELSE AHostGoes(l, "down", "recovery") /\ UNCHANGED aRevoked
    /\ UNCHANGED <<aHead, aCreated, aAcked, aMoved, aApproved, aAttempts, aStatus, aLock, aPromotion, aRecording,
                   aIntakeVars, aClaimVars, aReporter, aHandler, aContainers, aFaults>>

(* completeRecovery: the fence goes.                                       *)
ACompleteRecovery(l) ==
    /\ aHost[l].stage = "complete"
    /\ LET n == aHost[l].claim IN
       IF aClaims[n].state = "recovering"
       THEN /\ aClaims' = [aClaims EXCEPT ![n].state = "released", ![n].recovered = TRUE]
            /\ aDemand' = [aDemand EXCEPT ![aClaims[n].review].state = "superseded"]
            /\ AHostGoes(l, "idle", "none")
       ELSE AHostGoes(l, "down", "recovery") /\ UNCHANGED <<aClaims, aDemand>>
    /\ UNCHANGED <<aGitVars, aIntakeVars, aOutbox, aReporter, aHandler, aContainers, aFaults>>

-----------------------------------------------------------------------------
(* Status delivery.                                                        *)

(* completeInTransaction.                                                  *)
ASettle(n, outcome) ==
    IF aOutbox[n] \in {"pending", "delivering"} /\ aClaims[n].state = "reported"
    THEN /\ aOutbox' = [aOutbox EXCEPT ![n] = outcome]
         /\ aClaims' = [aClaims EXCEPT ![n].state = "released"]
         /\ aDemand' = [aDemand EXCEPT ![aClaims[n].review].state = IF outcome = "delivered" THEN "completed" ELSE "failed"]
    ELSE UNCHANGED aClaimVars

ATakeDue(n) ==
    /\ aReporter = 0 /\ aOutbox[n] \in {"pending", "delivering"}
    /\ IF aAdmission.gen = aClaims[n].gen
       THEN aReporter' = n /\ aOutbox' = [aOutbox EXCEPT ![n] = "delivering"] /\ UNCHANGED <<aClaims, aDemand>>
       ELSE ASettle(n, "denied") /\ UNCHANGED aReporter
    /\ UNCHANGED <<aGitVars, aIntakeVars, aHandler, aHostVars, aFaults>>

ARecords(stage, n, lock) ==
    /\ aRecording' = [stage |-> stage, claim |-> n]
    /\ aLock' = lock
    /\ UNCHANGED <<aHead, aCreated, aAcked, aMoved, aApproved, aAttempts, aRevoked, aPromotion,
                   aIntakeVars, aHandler, aHostVars, aFaults>>

(* report, in Git: the review and the attempt are current ...              *)
AReportCheck ==
    /\ aReporter # 0 /\ aRecording.stage = "none" /\ aLock = "free"
    /\ LET n == aReporter  r == aClaims[n].review IN
       IF ~AStale(r) /\ ACurrentAttempt(r, n)
       THEN ARecords("prove", n, "report") /\ UNCHANGED <<aClaimVars, aReporter>>
       ELSE ASettle(n, "denied") /\ aReporter' = 0 /\ ARecords("none", 0, "free")
    /\ UNCHANGED aStatus

(* ... and the authority still knows it.                                   *)
AReportProve ==
    /\ aRecording.stage = "prove"
    /\ LET n == aRecording.claim IN
       IF AAttemptCurrent(n) THEN ARecords("save", n, "report") /\ UNCHANGED aReporter
       ELSE ARecords("none", 0, "free") /\ aReporter' = IF aReporter = n THEN 0 ELSE aReporter
    /\ UNCHANGED <<aClaimVars, aStatus>>

AReportSave ==
    /\ aRecording.stage = "save"
    /\ LET n == aRecording.claim IN
       /\ aStatus' = [aStatus EXCEPT ![n] = aClaims[n].result]
       /\ ARecords("done", n, "free")
    /\ UNCHANGED <<aClaimVars, aReporter>>

(* The acknowledgement arrives, or the authority that asked is gone.       *)
AReportDone ==
    /\ aRecording.stage = "done"
    /\ IF aReporter = aRecording.claim THEN ASettle(aReporter, "delivered") /\ aReporter' = 0 ELSE UNCHANGED <<aClaimVars, aReporter>>
    /\ aRecording' = [stage |-> "none", claim |-> 0]
    /\ UNCHANGED <<aHead, aCreated, aAcked, aMoved, aApproved, aAttempts, aRevoked, aStatus, aLock, aPromotion,
                   aIntakeVars, aHandler, aHostVars, aFaults>>

(* retry: no acknowledgement came.                                         *)
AReportLost ==
    /\ aReporter # 0
    /\ AFault
    /\ aReporter' = 0
    /\ UNCHANGED <<aGitVars, aIntakeVars, aClaimVars, aHandler, aHostVars>>

(* Native Git restarts: what it was serving is gone, records stay.         *)
AGitRestarts ==
    /\ AFault
    /\ aLock # "free"
    /\ aLock' = "free" /\ aPromotion' = AIdle /\ aRecording' = [stage |-> "none", claim |-> 0]
    /\ aHandler' = [i \in ASlots |-> IF aHandler[i].stage = "issuing" THEN AFree ELSE aHandler[i]]
    /\ aHost' = [l \in ALanes |-> IF \E i \in ASlots : aHandler[i].stage = "issuing" /\ aHandler[i].claim = aHost[l].claim
                                     /\ aHost[l].stage = "waiting"
                                  THEN [aHost[l] EXCEPT !.stage = "down"] ELSE aHost[l]]
    /\ UNCHANGED <<aHead, aCreated, aAcked, aMoved, aApproved, aAttempts, aRevoked, aStatus,
                   aIntakeVars, aClaimVars, aReporter, aContainers>>

-----------------------------------------------------------------------------
AReviewing == \E r \in AReviews : ACreate(r) \/ APush(r) \/ AApprove(r) \/ ARevokeApproval(r) \/ APromoteCheck(r)
APromoting == APromoteProve \/ APromoteSwap
ADelivering == AOffer \/ AAdmit \/ AAccept \/ AAcknowledge \/ AOfferLost \/ AAdmissionExpires
AServing(i) ==
    \/ AIssueCheck(i) \/ AIssueWrite(i) \/ AProve(i) \/ AActivate(i) \/ AUndo(i) \/ ARelease(i) \/ AHandlerFails(i)
AHosting(l) ==
    \/ AHostStarts(l) \/ AHostAsks(l) \/ AHostJournals(l) \/ AHostLaunches(l) \/ AHostAborts(l) \/ AHostCrashes(l)
    \/ AResult(l) \/ AResultLost(l) \/ ARecover(l) \/ ARevokeAttempt(l) \/ ACompleteRecovery(l)
AReporting ==
    \/ AReportCheck \/ AReportProve \/ AReportSave \/ AReportDone \/ AReportLost

StandaloneNext ==
    \/ AReviewing \/ APromoting \/ ADelivering \/ AReporting \/ AGitRestarts
    \/ \E l \in ALanes, i \in ASlots : AReserve(l, i)
    \/ \E i \in ASlots : AServing(i)
    \/ \E l \in ALanes : AHosting(l)
    \/ \E l \in ALanes, result \in AOutcomes : AHostFinishes(l, result)
    \/ \E n \in AClaimIds : ALeaseExpires(n) \/ ATakeDue(n)
    \/ \E changed \in BOOLEAN : ARestart(changed)

StandaloneSpec == StandaloneInit /\ [][StandaloneNext]_aVars

-----------------------------------------------------------------------------
(* Types: one request per promotion, delivery and report; attempts belong  *)
(* to claims of their review.                                              *)
StandaloneTypeOK ==
    /\ aHead \in {0} \cup AReviews
    /\ Range(aCreated) \cup aAcked \cup aMoved \cup aApproved \subseteq AReviews
    /\ aLock \in {"free", "promote", "report", "issue"}
    /\ \A r \in AReviews : \A n \in Range(aAttempts[r]) : aClaims[n].review = r
    /\ aReporter \in {0} \cup AClaimIds
    /\ \A n \in AClaimIds : aClaims[n].state \in AHolding \cup {"unused", "empty", "released"}

(* A capacity is occupied as long as a container of it may run: nothing is *)
(* reported or released, by result, recovery, expiry or restart, before    *)
(* the host removed the container.                                         *)
ACapacityFenced ==
    \A n \in aContainers : aClaims[n].state \in {"active", "recovering"}

(* A claim ends in one way: what Git recorded as a status came from a      *)
(* reported result, and a claim that was recovered is revoked in Git and   *)
(* leaves no status.                                                       *)
AOneEnding ==
    \A n \in AClaimIds :
        /\ aStatus[n] # "none" => aOutbox[n] # "none"
        /\ aClaims[n].recovered => n \in aRevoked /\ aStatus[n] = "none"

(* No capacity is free while its container may run, and no claim counts    *)
(* both as evidence and as abandoned.                                      *)
AOneWay == ACapacityFenced /\ AOneEnding

(* The protected head moves once per review, to a candidate that at that   *)
(* moment is approved and whose current, unrevoked attempt succeeded.      *)
APromotedOnEvidence ==
    [][aHead' # aHead =>
        /\ aHead = 0
        /\ aHead' \in aApproved
        /\ \E n \in AClaimIds :
              Last(aAttempts[aHead']) = n /\ n \notin aRevoked /\ aStatus[n] = "success"]_aVars
=============================================================================
