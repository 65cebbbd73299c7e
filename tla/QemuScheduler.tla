---------------------------- MODULE QemuScheduler ----------------------------
(***************************************************************************)
(* The QEMU scheduler (core/nativeQemuScheduler*.ts), the host worker that *)
(* runs its virtual machines (core/nativeQemuHost*.ts), the reporter of    *)
(* its results (core/nativeQemuResultReporter.ts) and the part of native   *)
(* Git that issues, revokes and settles QEMU attempts                      *)
(* (native-git/native-qemu-authority-*.ts).                                *)
(*                                                                         *)
(* The scheduler's SQLite file is the record qDb; an operator on it is a   *)
(* store method, committed or rolled back as a whole.  A handler that      *)
(* awaits native Git leaves a call in flight (qCalls, qRecovers), so every *)
(* interleaving of two handlers, the worker, the reporter and a crash is a *)
(* behaviour.  Deadlines are flags that an action of time lowers.          *)
(***************************************************************************)
EXTENDS Naturals, Sequences, FiniteSets

CONSTANTS QEvents,      \* review-job events of one Project
          QLanes,       \* capacities of one QEMU host, one worker each
          QMaxClaims,   \* bound on claim identities
          QMaxRequests, \* bound on live claim-request identities
          QMaxFaults    \* bound on expiries, lost replies and crashes

ASSUME QemuAssumption ==
    QMaxClaims \in Nat /\ QMaxRequests \in Nat /\ QMaxFaults \in Nat

VARIABLES
    qDb,        \* the scheduler's database
    qEligible,  \* the Project's eligibility lease has not expired
    qCalls,     \* claim handlers that await the issuance of an attempt
    qRecovers,  \* recovery handlers that await a revocation
    qReport,    \* the reporter's call to native Git
    qDrain,     \* the reporter: reports left of its snapshot, retry timers
    qAttempts,  \* native Git: the attempt issued for each claim
    qStatuses,  \* native Git: claims whose attempt has a status
    qFresh,     \* native Git: events whose review is current
    qWorker,    \* control state of each worker
    qJournal,   \* each worker's journal file
    qHeld,      \* the claim each worker's memory holds
    qVms,       \* claims that own a container on the host
    qFaults     \* faults so far

qVars == <<qDb, qEligible, qCalls, qRecovers, qReport, qDrain, qAttempts, qStatuses,
           qFresh, qWorker, qJournal, qHeld, qVms, qFaults>>

schedulerVars == <<qDb, qEligible, qCalls, qRecovers, qReport, qDrain>>
authorityVars == <<qAttempts, qStatuses, qFresh>>
hostVars == <<qWorker, qJournal, qHeld, qVms>>

QClaims == 1..QMaxClaims
QRequests == 1..QMaxRequests
QNone == 0

\* A row of native_qemu_claims; "free" is an identity not in the table.
QClaimRow == [state : {"free", "reserved", "active", "completed"},
              event : QEvents \cup {QNone}, lane : QLanes \cup {QNone},
              request : QRequests \cup {QNone}, lease : BOOLEAN,
              attempt : BOOLEAN, result : BOOLEAN]

QFreeRow == [state |-> "free", event |-> QNone, lane |-> QNone, request |-> QNone,
             lease |-> FALSE, attempt |-> FALSE, result |-> FALSE]

\* The three file states of the journal, and its absence.
QJournals == [kind : {"none", "claim", "active", "result"},
              request : QRequests \cup {QNone}, claim : QClaims \cup {QNone}]

QNoJournal == [kind |-> "none", request |-> QNone, claim |-> QNone]

-----------------------------------------------------------------------------
(* The scheduler's store.                                                  *)

QRows(db, states) == {c \in QClaims : db.claim[c].state \in states}

\* expireClaims: a reservation whose lease ran out gives its event back.
\* Mutant: the event of an expired reservation is not queued again.
QExpireKeepsEvent(db) ==
    LET lapsed == {c \in QRows(db, {"reserved"}) : ~db.claim[c].lease}
    IN [db EXCEPT !.claim = [c \in QClaims |-> IF c \in lapsed THEN QFreeRow ELSE @[c]]]
QExpire(db) ==
    LET lapsed == {c \in QRows(db, {"reserved"}) : ~db.claim[c].lease}
        events == {db.claim[c].event : c \in lapsed}
    IN [db EXCEPT !.event = [e \in QEvents |-> IF e \in events THEN "queued" ELSE @[e]],
                  !.claim = [c \in QClaims |-> IF c \in lapsed THEN QFreeRow ELSE @[c]]]

\* An identity no row and no attempt ever carried: the claim's random UUID.
QUnused(db) == {c \in QClaims : db.claim[c].state = "free" /\ qAttempts[c].state = "none"
                                 /\ \A k \in qCalls : k.claim # c}

\* The oldest queued event of a Project whose eligibility has not expired.
QOldest(db) ==
    LET queued == {i \in 1..Len(db.order) : db.event[db.order[i]] = "queued"}
    IN IF qEligible /\ queued # {}
       THEN db.order[CHOOSE i \in queued : \A j \in queued : i =< j]
       ELSE QNone

\* reserve: a replay of the request, nothing when the capacity is fenced or
\* no event is due, else a new reservation of the oldest event.
QReserve(before, l, r) ==
    LET db == QExpire(before)
        replay == {c \in QRows(db, {"reserved", "active", "completed"}) : db.claim[c].request = r}
        fence == {c \in QRows(db, {"reserved", "active"}) : db.claim[c].lane = l}
        e == QOldest(db)
    IN IF replay # {}
       THEN LET c == CHOOSE x \in replay : TRUE
            IN [db |-> db, claim |-> IF db.claim[c].state = "completed" THEN QNone ELSE c]
       ELSE IF fence # {} \/ e = QNone THEN [db |-> db, claim |-> QNone]
       ELSE LET c == CHOOSE x \in QUnused(db) : \A y \in QUnused(db) : x =< y
            IN [db |-> [db EXCEPT !.event[e] = "reserved",
                          !.claim[c] = [QFreeRow EXCEPT !.state = "reserved", !.event = e,
                                          !.lane = l, !.request = r, !.lease = TRUE]],
                claim |-> c]

\* assignment: the active claim this request already received.
QAssigned(db, l, r) ==
    {c \in QRows(db, {"active"}) : db.claim[c].request = r /\ db.claim[c].lane = l}

\* activate: only a reservation whose lease still runs.
QActivates(db, c) == db.claim[c].state = "reserved" /\ db.claim[c].lease

QActivate(db, c) ==
    [db EXCEPT !.claim[c].state = "active", !.claim[c].attempt = TRUE,
               !.event[db.claim[c].event] = "active"]

\* supersedeReservation: the event is dropped for good with its reservation.
QSupersede(db, c) ==
    [db EXCEPT !.event[db.claim[c].event] = "superseded", !.claim[c] = QFreeRow]

\* finalization: the caller's active or completed claim with an attempt.
QFinalizable(db, l, c) ==
    /\ db.claim[c].state \in {"active", "completed"}
    /\ db.claim[c].lane = l
    /\ db.claim[c].attempt

\* recordResult: the first result enters the row and the report outbox.
QRecordResult(db, c) ==
    IF db.claim[c].result THEN db
    ELSE [db EXCEPT !.claim[c].result = TRUE, !.outbox = Append(@, c)]

\* The reports still pending once that of c is delivered; a claim has one.
QWithout(outbox, c) ==
    IF \E i \in 1..Len(outbox) : outbox[i] = c
    THEN LET i == CHOOSE j \in 1..Len(outbox) : outbox[j] = c
         IN SubSeq(outbox, 1, i - 1) \o SubSeq(outbox, i + 1, Len(outbox))
    ELSE outbox

\* acknowledgeResult: the claim completes and its report is delivered.
QAcknowledge(db, c) ==
    IF db.claim[c].state = "completed" THEN db
    ELSE [db EXCEPT !.claim[c].state = "completed",
                    !.event[db.claim[c].event] = "completed",
                    !.outbox = QWithout(@, c),
                    !.delivered = @ \cup {c}]

\* recover: the claim completes without a result.
QRecover(db, c) ==
    IF db.claim[c].state = "completed" THEN db
    ELSE [db EXCEPT !.claim[c].state = "completed", !.event[db.claim[c].event] = "completed"]

\* validateExisting: what the scheduler demands of its file before it opens.
QDatabaseValid(db) ==
    /\ \A c \in QClaims :
          /\ db.claim[c].state = "reserved" => ~db.claim[c].attempt
          /\ db.claim[c].state = "active" => db.claim[c].attempt
          /\ db.claim[c].state # "free" => db.claim[c].event \in QEvents
    /\ \A l \in QLanes : \A c, d \in QRows(db, {"reserved", "active"}) :
          db.claim[c].lane = l /\ db.claim[d].lane = l => c = d
    /\ \A i \in 1..Len(db.outbox) : db.claim[db.outbox[i]].state # "free"

-----------------------------------------------------------------------------
(* Native Git's attempt store, under its serializer.                       *)

QCurrent(e) == {c \in QClaims : qAttempts[c].state = "current" /\ qAttempts[c].event = e}

\* deriveAuthoritativeQemuExecutionDescriptor: from a review that is current.
QDerivable(e) == qFresh[e]

\* issue: the request's own live attempt, or a new one when the job has none.
QIssuable(c, e) ==
    /\ QDerivable(e)
    /\ IF qAttempts[c].state # "none" THEN qAttempts[c].state = "current" ELSE QCurrent(e) = {}

\* publishNativeQemuAuthorityState: the next state replaces the file or does
\* not; a leftover of an interrupted publication is completed or removed.
QSaved(c, state, e) == [qAttempts EXCEPT ![c] = [state |-> state, event |-> e]]

\* status: for the current attempt only.
QStatusAccepted(c) == qAttempts[c].state = "current"

-----------------------------------------------------------------------------
QemuInit ==
    /\ qDb = [event |-> [e \in QEvents |-> "absent"], order |-> <<>>,
              claim |-> [c \in QClaims |-> QFreeRow], outbox |-> <<>>, delivered |-> {}]
    /\ qEligible = FALSE
    /\ qCalls = {}
    /\ qRecovers = {}
    /\ qReport = [claim |-> QNone, stage |-> "idle"]
    /\ qDrain = [left |-> 0, timers |-> 0]
    /\ qAttempts = [c \in QClaims |-> [state |-> "none", event |-> QNone]]
    /\ qStatuses = {}
    /\ qFresh = [e \in QEvents |-> TRUE]
    /\ qWorker = [l \in QLanes |-> "down"]
    /\ qJournal = [l \in QLanes |-> QNoJournal]
    /\ qHeld = [l \in QLanes |-> QNone]
    /\ qVms = {}
    /\ qFaults = 0

QFault == qFaults < QMaxFaults /\ qFaults' = qFaults + 1

\* A worker that throws ends the whole host process: the abort stops every
\* worker, and a container that was running is removed by its worker's
\* cleanup or left for the replay of the journal.
QHostEnds ==
    /\ qWorker' = [l \in QLanes |-> "down"]
    /\ qHeld' = [l \in QLanes |-> QNone]
    /\ \E left \in SUBSET qVms : qVms' = left
    /\ UNCHANGED qJournal

\* Handlers whose host is gone have nobody left who waits for their answer.
QForsake(calls) == {[k EXCEPT !.awaited = FALSE] : k \in calls}

QHostFails(calls, recovers) ==
    QHostEnds /\ qCalls' = QForsake(calls) /\ qRecovers' = QForsake(recovers)

\* A claim handler that ends in 503: the host, if it still waits, throws.
QHandlerFails(k) ==
    IF k.awaited THEN QHostFails(qCalls \ {k}, qRecovers)
    ELSE UNCHANGED <<hostVars, qRecovers>> /\ qCalls' = qCalls \ {k}

-----------------------------------------------------------------------------
(* The reporter walks a snapshot of the pending reports, taken when it is  *)
(* woken and oldest first, so that it is the first left of the outbox.     *)
(* While it walks, a wake is dropped: what entered the outbox since waits  *)
(* for another wake, by a result, a retry timer or a new process.          *)
QWoken(drain, outbox) == IF drain.left = 0 THEN [drain EXCEPT !.left = Len(outbox)] ELSE drain

\* A report that fails: the walk ends and a timer is set.
QDrainFails == qDrain' = [left |-> 0, timers |-> qDrain.timers + 1]

-----------------------------------------------------------------------------
(* The scheduler's handlers.                                               *)

\* native-qemu-proof/review-event: the envelope has the event and is current.
QEventProven(e) == qFresh[e]

\* POST /v1/qemu-events: native Git proves the event current, then the
\* Project's eligibility is refreshed and a new event is queued.
QemuIntake(e) ==
    /\ QEventProven(e)
    /\ qEligible' = TRUE
    /\ qDb' = IF qDb.event[e] = "absent"
              THEN [qDb EXCEPT !.event[e] = "queued", !.order = Append(@, e)] ELSE qDb
    /\ UNCHANGED <<qCalls, qRecovers, qReport, qDrain, authorityVars, hostVars, qFaults>>

\* The deadlines: of the Project's eligibility and of a claim's lease.
QemuEligibilityExpires ==
    /\ qEligible /\ QFault
    /\ qEligible' = FALSE
    /\ UNCHANGED <<qDb, qCalls, qRecovers, qReport, qDrain, authorityVars, hostVars>>

QemuLeaseExpires(c) ==
    /\ qDb.claim[c].state \in {"reserved", "active"} /\ qDb.claim[c].lease /\ QFault
    /\ qDb' = [qDb EXCEPT !.claim[c].lease = FALSE]
    /\ UNCHANGED <<qEligible, qCalls, qRecovers, qReport, qDrain, authorityVars, hostVars>>

\* The answer of a claim handler: an assignment, or 204 and an empty journal.
QAnswer(l, c) ==
    /\ qHeld' = [qHeld EXCEPT ![l] = c]
    /\ qWorker' = [qWorker EXCEPT ![l] = IF c = QNone THEN "refused" ELSE "assigned"]
    /\ UNCHANGED <<qJournal, qVms>>

\* POST /v1/qemu-host-claims up to its first await: an exact retry gets its
\* assignment again, anything else reserves.
QemuClaim(l) ==
    LET r == qJournal[l].request
        replay == QAssigned(qDb, l, r)
        reserved == QReserve(qDb, l, r)
    IN /\ qWorker[l] = "idle" /\ qJournal[l].kind = "claim"
       /\ QUnused(QExpire(qDb)) # {}
       /\ IF replay # {}
          THEN QAnswer(l, CHOOSE c \in replay : TRUE) /\ UNCHANGED <<qDb, qCalls>>
          ELSE /\ qDb' = reserved.db
               /\ IF reserved.claim = QNone THEN QAnswer(l, QNone) /\ UNCHANGED qCalls
                  ELSE /\ qCalls' = qCalls \cup
                            {[lane |-> l, request |-> r, claim |-> reserved.claim,
                               event |-> reserved.db.claim[reserved.claim].event,
                               stage |-> "issuing", awaited |-> TRUE]}
                       /\ qWorker' = [qWorker EXCEPT ![l] = "claiming"]
                       /\ UNCHANGED <<qJournal, qHeld, qVms>>
       /\ UNCHANGED <<qEligible, qRecovers, qReport, qDrain, authorityVars, qFaults>>

\* POST .../qemu-attempts at native Git: the attempt is derived and issued, or
\* the tuple conflicts (409).
QemuIssue(k) ==
    /\ k.stage = "issuing"
    /\ IF QIssuable(k.claim, k.event)
       THEN /\ qAttempts' = QSaved(k.claim, "current", k.event)
            /\ qCalls' = (qCalls \ {k}) \cup {[k EXCEPT !.stage = "issued"]}
       ELSE /\ qCalls' = (qCalls \ {k}) \cup {[k EXCEPT !.stage = "rejected"]}
            /\ UNCHANGED qAttempts
    /\ UNCHANGED <<qDb, qEligible, qRecovers, qReport, qDrain, qStatuses, qFresh, hostVars, qFaults>>

\* The handler resumes: it activates the reservation and answers; a lease
\* that ran out meanwhile makes the activation conflict (503).
QemuActivate(k) ==
    /\ k.stage = "issued"
    /\ IF QActivates(qDb, k.claim)
       THEN /\ qDb' = QActivate(qDb, k.claim)
            /\ qCalls' = qCalls \ {k}
            /\ IF k.awaited THEN QAnswer(k.lane, k.claim) ELSE UNCHANGED hostVars
            /\ UNCHANGED qRecovers
       ELSE UNCHANGED qDb /\ QHandlerFails(k)
    /\ UNCHANGED <<qEligible, qReport, qDrain, authorityVars, qFaults>>

\* The handler resumes on a conflict: the reservation and its event are
\* superseded and the loop reserves the next event for the same request.
QemuReject(k) ==
    LET next == QReserve(QSupersede(qDb, k.claim), k.lane, k.request)
    IN /\ k.stage = "rejected"
       /\ IF qDb.claim[k.claim].state = "reserved"
          THEN /\ QUnused(QExpire(qDb)) # {}
               /\ qDb' = next.db
               /\ IF next.claim # QNone
                  THEN /\ qCalls' = (qCalls \ {k}) \cup
                            {[k EXCEPT !.claim = next.claim, !.stage = "issuing",
                                       !.event = next.db.claim[next.claim].event]}
                       /\ UNCHANGED hostVars
                  ELSE /\ qCalls' = qCalls \ {k}
                       /\ IF k.awaited THEN QAnswer(k.lane, QNone) ELSE UNCHANGED hostVars
               /\ UNCHANGED qRecovers
          ELSE UNCHANGED qDb /\ QHandlerFails(k)
       /\ UNCHANGED <<qEligible, qReport, qDrain, authorityVars, qFaults>>

\* A timeout or transport failure of the issuance: 503, and the reservation
\* stays as it is.
QemuIssueLost(k) ==
    /\ QFault
    /\ QHandlerFails(k)
    /\ UNCHANGED <<qDb, qEligible, qReport, qDrain, authorityVars>>

\* POST /v1/qemu-host-results: an owned claim takes its first result, the
\* same result again, or 404.  A result taken wakes the reporter.
QemuResult(l) ==
    LET c == qHeld[l]
        row == qDb.claim[c]
    IN /\ qWorker[l] = "report"
       /\ IF QFinalizable(qDb, l, c) /\ ~(row.state = "completed" /\ ~row.result)
          THEN /\ qDb' = QRecordResult(qDb, c)
               /\ qDrain' = QWoken(qDrain, QRecordResult(qDb, c).outbox)
               /\ qWorker' = [qWorker EXCEPT ![l] = "settled"]
               /\ UNCHANGED <<qJournal, qHeld, qVms, qCalls, qRecovers>>
          ELSE QHostFails(qCalls, qRecovers) /\ UNCHANGED <<qDb, qDrain>>
       /\ UNCHANGED <<qEligible, qReport, authorityVars, qFaults>>

\* POST /v1/qemu-host-recoveries up to its await.
QemuRecovery(l) ==
    LET c == qHeld[l]
        row == qDb.claim[c]
    IN /\ qWorker[l] = "recover"
       /\ IF ~QFinalizable(qDb, l, c) \/ row.result
          THEN QHostFails(qCalls, qRecovers)
          ELSE /\ IF row.state = "completed"
                  THEN qWorker' = [qWorker EXCEPT ![l] = "settled"] /\ UNCHANGED qRecovers
                  ELSE /\ qWorker' = [qWorker EXCEPT ![l] = "recovering"]
                       /\ qRecovers' = qRecovers \cup
                            {[lane |-> l, claim |-> c, stage |-> "revoking", awaited |-> TRUE]}
               /\ UNCHANGED <<qJournal, qHeld, qVms, qCalls>>
       /\ UNCHANGED <<qDb, qEligible, qReport, qDrain, authorityVars, qFaults>>

\* POST .../qemu-attempt-revocations at native Git; a revoked attempt stays so.
\* Mutant: the handler goes on without waiting for the revocation.
QemuRevokeUnawaited(k) ==
    /\ k.stage = "revoking"
    /\ qRecovers' = (qRecovers \ {k}) \cup {[k EXCEPT !.stage = "revoked"]}
    /\ UNCHANGED <<qDb, qEligible, qCalls, qReport, qDrain, authorityVars, hostVars, qFaults>>
QemuRevoke(k) ==
    /\ k.stage = "revoking"
    /\ qAttempts' = QSaved(k.claim, "revoked", qAttempts[k.claim].event)
    /\ qRecovers' = (qRecovers \ {k}) \cup {[k EXCEPT !.stage = "revoked"]}
    /\ UNCHANGED <<qDb, qEligible, qCalls, qReport, qDrain, qStatuses, qFresh, hostVars, qFaults>>

\* The recovery handler resumes, completes the claim and answers 204.
QemuRecovered(k) ==
    /\ k.stage = "revoked"
    /\ qDb' = QRecover(qDb, k.claim)
    /\ qRecovers' = qRecovers \ {k}
    /\ IF k.awaited THEN qWorker' = [qWorker EXCEPT ![k.lane] = "settled"] ELSE UNCHANGED qWorker
    /\ UNCHANGED <<qJournal, qHeld, qVms, qEligible, qCalls, qReport, qDrain, authorityVars, qFaults>>

QemuRevokeLost(k) ==
    /\ QFault
    /\ IF k.awaited THEN QHostFails(qCalls, qRecovers \ {k})
       ELSE UNCHANGED <<hostVars, qCalls>> /\ qRecovers' = qRecovers \ {k}
    /\ UNCHANGED <<qDb, qEligible, qReport, qDrain, authorityVars>>

-----------------------------------------------------------------------------
(* The reporter: the reports of its snapshot in order, one at a time.      *)

QemuReport ==
    /\ qReport.stage = "idle" /\ qDrain.left # 0 /\ qDb.outbox # <<>>
    /\ qReport' = [claim |-> Head(qDb.outbox), stage |-> "sent"]
    /\ UNCHANGED <<qDb, qEligible, qCalls, qRecovers, qDrain, authorityVars, hostVars, qFaults>>

\* POST .../qemu-statuses at native Git.
QemuStatus ==
    /\ qReport.stage = "sent"
    /\ IF QStatusAccepted(qReport.claim)
       THEN qStatuses' = qStatuses \cup {qReport.claim} /\ qReport' = [qReport EXCEPT !.stage = "accepted"]
       ELSE qReport' = [qReport EXCEPT !.stage = "refused"] /\ UNCHANGED qStatuses
    /\ UNCHANGED <<qDb, qEligible, qCalls, qRecovers, qDrain, qAttempts, qFresh, hostVars, qFaults>>

\* The acknowledgement, and on to the next report; or a refusal, which ends
\* the walk and leaves its reports to the retry timer.
QemuReportDone ==
    /\ qReport.stage \in {"accepted", "refused"}
    /\ IF qReport.stage = "accepted"
       THEN /\ qDb' = QAcknowledge(qDb, qReport.claim)
            /\ qDrain' = [qDrain EXCEPT !.left = @ - 1]
       ELSE UNCHANGED qDb /\ QDrainFails
    /\ qReport' = [claim |-> QNone, stage |-> "idle"]
    /\ UNCHANGED <<qEligible, qCalls, qRecovers, authorityVars, hostVars, qFaults>>

QemuReportLost ==
    /\ qReport.stage # "idle" /\ QFault
    /\ qReport' = [claim |-> QNone, stage |-> "idle"]
    /\ QDrainFails
    /\ UNCHANGED <<qDb, qEligible, qCalls, qRecovers, authorityVars, hostVars>>

\* A retry timer fires and wakes the reporter.
QemuRetry ==
    /\ qDrain.timers # 0
    /\ qDrain' = QWoken([qDrain EXCEPT !.timers = @ - 1], qDb.outbox)
    /\ UNCHANGED <<qDb, qEligible, qCalls, qRecovers, qReport, authorityVars, hostVars, qFaults>>

\* The scheduler process restarts: calls in flight are gone, the file is
\* opened only when it is valid, a host that waited ends, and the reporter
\* starts with what is pending.
QemuSchedulerRestarts ==
    /\ QFault /\ QDatabaseValid(qDb)
    /\ qCalls' = {} /\ qRecovers' = {}
    /\ qReport' = [claim |-> QNone, stage |-> "idle"]
    /\ qDrain' = [left |-> Len(qDb.outbox), timers |-> 0]
    /\ IF \E k \in qCalls \cup qRecovers : k.awaited THEN QHostEnds ELSE UNCHANGED hostVars
    /\ UNCHANGED <<qDb, qEligible, authorityVars>>

-----------------------------------------------------------------------------
(* The host's workers.                                                     *)

\* runNativeQemuHost: every capacity is guarded before any worker claims.
QemuHostStarts ==
    /\ \A l \in QLanes : qWorker[l] = "down"
    /\ qWorker' = [l \in QLanes |-> "idle"]
    /\ UNCHANGED <<schedulerVars, authorityVars, qJournal, qHeld, qVms, qFaults>>

QemuHostCrashes ==
    /\ QFault
    /\ \E l \in QLanes : qWorker[l] # "down"
    /\ QHostFails(qCalls, qRecovers)
    /\ UNCHANGED <<qDb, qEligible, qReport, qDrain, authorityVars>>

\* A request identity no row, journal or handler carries: a random UUID.
QFreshRequests ==
    {r \in QRequests : /\ \A l \in QLanes : qJournal[l].request # r
                       /\ \A c \in QClaims : qDb.claim[c].request # r}

\* The request is journaled before it is sent.
QemuJournalClaim(l) ==
    LET r == CHOOSE x \in QFreshRequests : \A y \in QFreshRequests : x =< y
    IN /\ qWorker[l] = "idle" /\ qJournal[l].kind = "none" /\ QFreshRequests # {}
       /\ qJournal' = [qJournal EXCEPT ![l] = [kind |-> "claim", request |-> r, claim |-> QNone]]
       /\ UNCHANGED <<schedulerVars, authorityVars, qWorker, qHeld, qVms, qFaults>>

\* The reply is journaled: none clears the request; an assignment becomes
\* active, and one whose lease already ran out is left to the replay.
QemuJournalReply(l) ==
    /\ qWorker[l] \in {"refused", "assigned"}
    /\ IF qWorker[l] = "refused"
       THEN /\ qJournal' = [qJournal EXCEPT ![l] = QNoJournal]
            /\ qWorker' = [qWorker EXCEPT ![l] = "idle"]
            /\ UNCHANGED qHeld
       ELSE /\ qJournal' = [qJournal EXCEPT ![l] =
                              [kind |-> "active", request |-> QNone, claim |-> qHeld[l]]]
            /\ IF qDb.claim[qHeld[l]].lease
               THEN qWorker' = [qWorker EXCEPT ![l] = "prepare"] /\ UNCHANGED qHeld
               ELSE /\ qWorker' = [qWorker EXCEPT ![l] = "idle"]
                    /\ qHeld' = [qHeld EXCEPT ![l] = QNone]
    /\ UNCHANGED <<schedulerVars, authorityVars, qVms, qFaults>>

\* current: the candidate lease is granted for an active, unexpired claim of
\* a current attempt only.
QLeasable(c) == qDb.claim[c].state = "active" /\ qDb.claim[c].lease /\ qAttempts[c].state = "current"

\* verifyAndMaterializeNativeQemuCandidate: candidate, policy and job blobs are
\* those of the descriptor and of the protected head.
QCandidateVerified(c) == qFresh[qAttempts[c].event]

\* The candidate is read under a lease and verified, then the container
\* starts; any refusal ends the host.
QemuVmStarts(l) ==
    LET c == qHeld[l]
    IN /\ qWorker[l] = "prepare"
       /\ IF QLeasable(c) /\ QCandidateVerified(c)
          THEN /\ qVms' = qVms \cup {c}
               /\ qWorker' = [qWorker EXCEPT ![l] = "running"]
               /\ UNCHANGED <<qJournal, qHeld, qCalls, qRecovers>>
          ELSE QHostFails(qCalls, qRecovers)
       /\ UNCHANGED <<qDb, qEligible, qReport, qDrain, authorityVars, qFaults>>

\* The renewal loop, every five seconds; a refusal aborts the run.
QemuRenew(l) ==
    LET c == qHeld[l]
    IN /\ qWorker[l] = "running"
       /\ ~(qDb.claim[c].state = "active" /\ qDb.claim[c].lease)
       /\ QHostFails(qCalls, qRecovers)
       /\ UNCHANGED <<qDb, qEligible, qReport, qDrain, authorityVars, qFaults>>

\* The container exits and is removed with its directory before the run
\* returns its evidence.
QemuVmEnds(l) ==
    /\ qWorker[l] = "running"
    /\ qVms' = qVms \ {qHeld[l]}
    /\ qWorker' = [qWorker EXCEPT ![l] = "ran"]
    /\ UNCHANGED <<schedulerVars, authorityVars, qJournal, qHeld, qFaults>>

\* The evidence is journaled before it is reported.
QemuJournalResult(l) ==
    /\ qWorker[l] = "ran"
    /\ qJournal' = [qJournal EXCEPT ![l].kind = "result"]
    /\ qWorker' = [qWorker EXCEPT ![l] = "report"]
    /\ UNCHANGED <<schedulerVars, authorityVars, qHeld, qVms, qFaults>>

\* replayNativeQemuHostJournal: clean up what the journaled claim owns, then
\* report its result again or recover it.
QemuReplay(l) ==
    LET c == qJournal[l].claim
    IN /\ qWorker[l] = "idle" /\ qJournal[l].kind \in {"active", "result"}
       /\ qVms' = qVms \ {c}
       /\ qHeld' = [qHeld EXCEPT ![l] = c]
       /\ qWorker' = [qWorker EXCEPT ![l] = IF qJournal[l].kind = "result" THEN "report" ELSE "recover"]
       /\ UNCHANGED <<schedulerVars, authorityVars, qJournal, qFaults>>

\* The scheduler's answer clears the journal.
QemuJournalCleared(l) ==
    /\ qWorker[l] = "settled"
    /\ qJournal' = [qJournal EXCEPT ![l] = QNoJournal]
    /\ qWorker' = [qWorker EXCEPT ![l] = "idle"]
    /\ qHeld' = [qHeld EXCEPT ![l] = QNone]
    /\ UNCHANGED <<schedulerVars, authorityVars, qVms, qFaults>>

\* The protected head moves or the proposal is replaced: the review is stale.
QemuDrift(e) ==
    /\ qFresh[e] /\ QFault
    /\ qFresh' = [qFresh EXCEPT ![e] = FALSE]
    /\ UNCHANGED <<schedulerVars, qAttempts, qStatuses, hostVars>>

-----------------------------------------------------------------------------
\* One worker is sequential; so are the reporter and the handlers of a claim.
QemuWorker(l) ==
    \/ QemuJournalClaim(l) \/ QemuClaim(l) \/ QemuJournalReply(l) \/ QemuVmStarts(l)
    \/ QemuRenew(l) \/ QemuVmEnds(l) \/ QemuJournalResult(l) \/ QemuResult(l)
    \/ QemuReplay(l) \/ QemuRecovery(l) \/ QemuJournalCleared(l)

QemuHandler(c) ==
    \/ \E k \in qCalls : k.claim = c /\ (QemuIssue(k) \/ QemuActivate(k) \/ QemuReject(k))
    \/ \E k \in qRecovers : k.claim = c /\ (QemuRevoke(k) \/ QemuRecovered(k))

QemuReporter == QemuReport \/ QemuStatus \/ QemuReportDone \/ QemuRetry

QemuFaulty ==
    \/ QemuEligibilityExpires
    \/ \E c \in QClaims : QemuLeaseExpires(c)
    \/ \E k \in qCalls : QemuIssueLost(k)
    \/ \E k \in qRecovers : QemuRevokeLost(k)
    \/ \E e \in QEvents : QemuDrift(e)
    \/ QemuReportLost \/ QemuSchedulerRestarts \/ QemuHostCrashes

QemuNext ==
    \/ \E e \in QEvents : QemuIntake(e)
    \/ QemuHostStarts
    \/ \E l \in QLanes : QemuWorker(l)
    \/ \E c \in QClaims : QemuHandler(c)
    \/ QemuReporter
    \/ QemuFaulty

QemuSpec == QemuInit /\ [][QemuNext]_qVars

\* Every actor that can go on does: the event dispatcher redelivers, each
\* worker and the host's supervisor, the handlers, native Git, the reporter.
QemuFairness ==
    /\ WF_qVars(\E e \in QEvents : QemuIntake(e))
    /\ WF_qVars(QemuHostStarts)
    /\ \A l \in QLanes : WF_qVars(QemuWorker(l))
    /\ \A c \in QClaims : WF_qVars(QemuHandler(c))
    /\ WF_qVars(QemuReporter)

QemuFairSpec == QemuSpec /\ QemuFairness

-----------------------------------------------------------------------------
(* Properties.                                                             *)

\* Type invariant of the scheduler's database, the journals and native Git's
\* attempts.
QemuTypeOK ==
    /\ qDb.event \in [QEvents -> {"absent", "queued", "reserved", "active", "completed", "superseded"}]
    /\ qDb.claim \in [QClaims -> QClaimRow]
    /\ qDb.order \in Seq(QEvents) /\ qDb.outbox \in Seq(QClaims) /\ qDb.delivered \subseteq QClaims
    /\ qJournal \in [QLanes -> QJournals]
    /\ qHeld \in [QLanes -> QClaims \cup {QNone}]
    /\ qVms \subseteq QClaims /\ qStatuses \subseteq QClaims

\* A container exists only for a claim that still fences its capacity in the
\* scheduler and has no result yet: no capacity is handed out, and no
\* evidence accepted, while the machine of an earlier claim may be running.
QemuVmFenced ==
    \A c \in qVms : qDb.claim[c].state = "active" /\ ~qDb.claim[c].result

\* A completed claim is settled one way: its result is recorded, delivered and
\* has a status at native Git, or its attempt is revoked and it has neither.
\* The recovery handler awaits the revocation between reading and writing the
\* row, so this rests on the worker's journal, not on the handler.
QemuSettledOneWay ==
    \A c \in QClaims : qDb.claim[c].state = "completed" =>
        IF qDb.claim[c].result
        THEN c \in qDb.delivered /\ c \in qStatuses /\ qAttempts[c].state = "current"
        ELSE qAttempts[c].state = "revoked" /\ c \notin qStatuses

\* What the scheduler counts as done is done, and in one way only.
QemuOneWay == QemuVmFenced /\ QemuSettledOneWay

\* The reporter rests, no timer will wake it, and a result is not delivered.
QLeftBehind == qReport.stage = "idle" /\ qDrain.left = 0 /\ qDrain.timers = 0 /\ qDb.outbox # <<>>

\* An event whose review stays current is run or dropped in the end, whatever
\* leases expire, replies are lost and processes restart in between.  One thing
\* can stop it: a result that entered the outbox while another was reported is
\* left behind for good, and with it its claim's capacity.
QemuEventSettles ==
    \/ \A e \in QEvents :
          qDb.event[e] = "queued" ~> (qDb.event[e] \in {"completed", "superseded"} \/ ~qFresh[e])
    \/ <>[]QLeftBehind

\* native-qemu.md: a failed issuance is transient, "the exact reservation
\* remains retryable and is not reclassified as stale".
QemuSupersededIsStale ==
    \A e \in QEvents : qDb.event[e] = "superseded" => ~qFresh[e]
=============================================================================
